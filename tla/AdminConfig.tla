----------------------------- MODULE AdminConfig -----------------------------
(***************************************************************************)
(* Settings of the Koe as the local admin UI saves them: browser tabs, the *)
(* HTTP server (admin/server.ts), the repository that serialises the saves *)
(* (admin/config-repository.ts) and the sidecar with its lock file         *)
(* (config/admin-overrides.ts), next to a config.yaml that only the        *)
(* operator writes, at any time.                                           *)
(*                                                                         *)
(* The sidecar holds, per changed setting, the new value and the hash of   *)
(* the value config.yaml had; it is refused as a whole when one such value *)
(* has changed since.  Every file operation is awaited.                    *)
(*                                                                         *)
(* The settings are those of the Koe the tabs have selected.  The form     *)
(* sends more than its author has changed: see CollectAgent.               *)
(***************************************************************************)
EXTENDS Naturals, FiniteSets, Sequences

CONSTANTS
    Tabs,           \* browser tabs; each saves once
    Optional,       \* settings an override may remove
    Required,       \* settings it may not
    Values,         \* values of a setting that is free text
    Padded,         \* of these: a text with blanks around it, and
    Trimmed,        \* the same without them
    Absent,         \* no value
    MaxEdits        \* bound on the operator's edits

Session == "adapter_session_id"
Scope == "conversation_scope"
ChoiceMode == "automatic_choice_mode"
Retired == "workspace_git_autonomy"     \* may be absent, but an override may not remove it

ScopeValues == {"channel", "slack_thread"}
ModeValues == {"off", "ordinary_top_choice"}

ASSUME AdminAssumption ==
    /\ Session \in Optional /\ {Scope, ChoiceMode} \subseteq Required
    /\ Optional \cap Required = {} /\ Retired \notin Optional \cup Required
    /\ Padded \in Values /\ Trimmed \in Values \ {Padded}
    /\ Values \cap (ScopeValues \cup ModeValues) = {}
    /\ Absent \notin Values \cup ScopeValues \cup ModeValues
    /\ MaxEdits \in Nat

Fields == Optional \cup Required \cup {Retired}

(* What taishiConfigSchema lets a setting be; a mode that is not given is  *)
(* "off".                                                                  *)
Choices(f) ==
    CASE f = Scope -> ScopeValues
      [] f = ChoiceMode -> ModeValues
      [] f \in {Session, Retired} -> (Values \ {Padded}) \cup {Absent}
      [] OTHER -> Values \cup (IF f \in Optional THEN {Absent} ELSE {})

Data == Values \cup ScopeValues \cup ModeValues \cup {Absent}
Settings == [Fields -> Data]
NoOverride == [value |-> "none"]
Override == [expected : Data, value : Data]
Overrides == [Fields -> Override \cup {NoOverride}]
NoSave == [of |-> "nobody"]

VARIABLES
    canonical,      \* config.yaml
    overrides,      \* the sidecar: setting -> override
    page,           \* tab -> the snapshot it shows
    form,           \* tab -> the settings as its author left them
    put,            \* tab -> where its PUT /api/config is
    save,           \* #saveExclusive in progress: of whom, both files as read,
                    \* and the sidecar it is about to write
    saveLock,       \* the sidecar's lock file: free, held, stale
    gateway,        \* up, or down: its process has ended
    edits,          \* edits of the operator
    clashed         \* history: an edit changed a setting that has an override, or
                    \* of scope and session the one whose other has an override

adminVars == <<canonical, overrides, page, form, put, save, saveLock, gateway, edits, clashed>>
files == <<canonical, overrides>>
saving == <<save, saveLock>>
operator == <<edits, clashed>>

PutStates == {"none", "page", "queued", "load", "built", "lock", "write", "reread",
              "apply", "saved", "conflict", "refused", "failed"}

(* Type invariant of the two files, the tabs and the save in progress.     *)
AdminTypeOK ==
    /\ canonical \in Settings
    /\ overrides \in Overrides
    /\ put \in [Tabs -> PutStates]
    /\ form \in [Tabs -> Settings]
    /\ save \in {NoSave} \cup
                [of : Tabs, base : Settings, over : Overrides, next : Overrides]
    /\ saveLock \in {"free", "held", "stale"}
    /\ gateway \in {"up", "down"}
    /\ edits \in 0..MaxEdits /\ clashed \in BOOLEAN

-----------------------------------------------------------------------------
(* Configuration documents.                                                *)

(* applyAdminOverrides refuses them all if it refuses one.                 *)
Applies(base, over) ==
    \A f \in Fields : over[f] # NoOverride =>
        /\ over[f].expected = base[f]
        /\ over[f].value = Absent => f \in Optional

Effective(base, over) ==
    [f \in Fields |-> IF over[f] = NoOverride THEN base[f] ELSE over[f].value]

BuildOverrides(base, target) ==
    [f \in Fields |-> IF base[f] = target[f] THEN NoOverride
                      ELSE [expected |-> base[f], value |-> target[f]]]

(* Only a channel's conversation has a session of its own.                 *)
Valid(settings) == settings[Session] = Absent \/ settings[Scope] = "channel"

(* The files load: the overrides suit config.yaml, and the settings they   *)
(* make of it are valid.                                                   *)
Loads(base, over) == Applies(base, over) /\ Valid(Effective(base, over))

(* A snapshot names the contents of both files by its revision.            *)
Snapshot(base, over) == [revision |-> <<base, over>>, settings |-> Effective(base, over)]

AdminInit ==
    /\ canonical \in Settings /\ Valid(canonical)
    /\ \A f \in Fields : canonical[f] \in Choices(f)
    /\ overrides = [f \in Fields |-> NoOverride]
    /\ page = [t \in Tabs |-> Snapshot(canonical, overrides)]
    /\ form = [t \in Tabs |-> canonical]
    /\ put = [t \in Tabs |-> "none"]
    /\ save = NoSave /\ saveLock = "free" /\ gateway = "up"
    /\ edits = 0 /\ clashed = FALSE

-----------------------------------------------------------------------------
(* A tab.                                                                  *)

(* GET /api/config.                                                        *)
GetConfig(t) ==
    /\ gateway = "up" /\ put[t] = "none" /\ Loads(canonical, overrides)
    /\ page' = [page EXCEPT ![t] = Snapshot(canonical, overrides)]
    /\ put' = [put EXCEPT ![t] = "page"]
    /\ UNCHANGED <<files, form, saving, gateway, operator>>

(* collectAgentFromForm, and the server's cleanOptional: what is sent for  *)
(* a form.  A text loses the blanks around it, the choice mode is always   *)
(* "off", the retired setting is left out, and so is the session unless    *)
(* the conversation is the channel's.                                      *)
CollectAgent(shown) ==
    [f \in Fields |->
        CASE f = ChoiceMode -> "off"
          [] f = Retired -> Absent
          [] f = Session /\ shown[Scope] # "channel" -> Absent
          [] OTHER -> IF shown[f] = Padded THEN Trimmed ELSE shown[f]]

(* The author sets one setting, and the session if its field is open; a    *)
(* conversation that goes back to the channel needs one.  A form nothing   *)
(* was changed in can be sent too.                                         *)
PutConfig(t, f, v, session) ==
    LET shown == page[t].settings
        next == [shown EXCEPT ![f] = v, ![Session] = session]
    IN  /\ gateway = "up" /\ put[t] = "page"
        /\ f \notin {ChoiceMode, Retired} /\ v \in Choices(f)
        /\ session \in Choices(Session)
        /\ session # shown[Session] => next[Scope] = "channel"
        /\ shown[Scope] # next[Scope] /\ next[Scope] = "channel" => session # Absent
        /\ form' = [form EXCEPT ![t] = next]
        /\ put' = [put EXCEPT ![t] = "queued"]
        /\ UNCHANGED <<files, page, saving, gateway, operator>>

(* The access, the body or validateModelSettingChanges refuses it, or the  *)
(* settings cannot be loaded.                                              *)
PutRefused(t) ==
    /\ gateway = "up" /\ put[t] = "queued"
    /\ put' = [put EXCEPT ![t] = "refused"]
    /\ UNCHANGED <<files, page, form, saving, gateway, operator>>

-----------------------------------------------------------------------------
(* #saveExclusive, one tab at a time.                                      *)

Saving(t, from) == gateway = "up" /\ put[t] = from /\ save.of = t
PutGoes(t, to) == put' = [put EXCEPT ![t] = to]

StartSave(t) ==
    /\ gateway = "up" /\ put[t] = "queued" /\ save = NoSave
    /\ save' = [of |-> t, base |-> canonical, over |-> overrides, next |-> overrides]
    /\ PutGoes(t, "load")
    /\ UNCHANGED <<files, page, form, saveLock, gateway, operator>>

(* What the sidecar becomes.                                               *)
Planned(t) == [save EXCEPT !.over = overrides, !.next = BuildOverrides(save.base, CollectAgent(form[t]))]

(* Mutant of LoadAndCompare (no code): the page's revision is not compared.*)
LoadOnly(t) ==
    /\ Saving(t, "load")
    /\ save' = Planned(t)
    /\ PutGoes(t, "built")
    /\ UNCHANGED <<files, page, form, saveLock, gateway, operator>>

(* Another page, or a value the schema or the sidecar cannot take (the     *)
(* form sends none that the model tells apart), ends the save.             *)
LoadAndCompare(t) ==
    /\ Saving(t, "load")
    /\ \/ /\ Loads(save.base, overrides) /\ page[t].revision = <<save.base, overrides>>
          /\ save' = Planned(t) /\ PutGoes(t, "built")
       \/ save' = NoSave /\ PutGoes(t, "refused")
       \/ /\ ~Loads(save.base, overrides) \/ page[t].revision # <<save.base, overrides>>
          /\ save' = NoSave /\ PutGoes(t, "conflict")
    /\ UNCHANGED <<files, page, form, saveLock, gateway, operator>>

(* Mutant of CompareCanonical (no code): config.yaml is not read again.    *)
CanonicalAsRead(t) ==
    /\ Saving(t, "built")
    /\ PutGoes(t, "lock")
    /\ UNCHANGED <<files, page, form, saving, gateway, operator>>

CompareCanonical(t) ==
    /\ Saving(t, "built")
    /\ IF canonical = save.base
       THEN UNCHANGED save /\ PutGoes(t, "lock")
       ELSE save' = NoSave /\ PutGoes(t, "conflict")
    /\ UNCHANGED <<files, page, form, saveLock, gateway, operator>>

(* The lock of a process that has ended is removed and taken; one that     *)
(* this process could not remove is in the way of every later save.        *)
AcquireSaveLock(t) ==
    /\ Saving(t, "lock")
    /\ IF saveLock = "held"
       THEN save' = NoSave /\ PutGoes(t, "conflict") /\ UNCHANGED saveLock
       ELSE saveLock' = "held" /\ PutGoes(t, "write") /\ UNCHANGED save
    /\ UNCHANGED <<files, page, form, gateway, operator>>

(* A rename replaces the sidecar if it is still what was read.  An I/O     *)
(* error comes before the rename or, from the sync of the directory or the *)
(* removal of the lock, after it: the answer is an error all the same.     *)
WriteAdminOverrides(t) ==
    /\ Saving(t, "write")
    /\ saveLock' \in {"free", "held"}
    /\ \/ /\ overrides = save.over /\ saveLock' = "free"
          /\ overrides' = save.next
          /\ UNCHANGED save /\ PutGoes(t, "reread")
       \/ /\ overrides # save.over /\ saveLock' = "free"
          /\ save' = NoSave /\ PutGoes(t, "conflict") /\ UNCHANGED overrides
       \/ /\ save' = NoSave /\ PutGoes(t, "failed")
          /\ overrides' \in {overrides} \cup (IF overrides = save.over THEN {save.next} ELSE {})
    /\ UNCHANGED <<canonical, page, form, gateway, operator>>

(* The settings are read once more for the answer, so that a save may be   *)
(* answered with the conflict of an edit made after it.                    *)
ReadSaved(t) ==
    /\ Saving(t, "reread") /\ save' = NoSave
    /\ IF Loads(canonical, overrides)
       THEN /\ page' = [page EXCEPT ![t] = Snapshot(canonical, overrides)]
            /\ PutGoes(t, "apply")
       ELSE PutGoes(t, "conflict") /\ UNCHANGED page
    /\ UNCHANGED <<files, form, saveLock, gateway, operator>>

(* onConfigSaved: applyAgentModelSettings may fail to save its revision.   *)
ApplySaved(t) ==
    /\ gateway = "up" /\ put[t] = "apply"
    /\ PutGoes(t, "saved") \/ PutGoes(t, "failed")
    /\ UNCHANGED <<files, page, form, saving, gateway, operator>>

-----------------------------------------------------------------------------
(* The world outside.                                                      *)

(* config.yaml stays valid by itself.  The retired setting can only be     *)
(* removed: nothing documents it any more.                                 *)
OperatorEdits(f, v) ==
    /\ edits < MaxEdits /\ edits' = edits + 1
    /\ v \in Choices(f) \ {canonical[f]} /\ (f = Retired => v = Absent)
    /\ canonical' = [canonical EXCEPT ![f] = v] /\ Valid(canonical')
    /\ LET tied == IF f \in {Scope, Session} THEN {Scope, Session} ELSE {f}
           inWriting == save # NoSave /\ put[save.of] \in {"lock", "write"}
           saved == {g \in Fields : \/ overrides[g] # NoOverride
                                   \/ (inWriting /\ save.next[g] # NoOverride)}
       IN  clashed' = (clashed \/ tied \cap saved # {})
    /\ UNCHANGED <<overrides, page, form, put, saving, gateway>>

(* The process ends with its requests; it starts if loadConfig can.        *)
GatewayEnds ==
    /\ gateway = "up" /\ gateway' = "down"
    /\ save' = NoSave
    /\ saveLock' = IF saveLock = "held" THEN "stale" ELSE saveLock
    /\ put' = [t \in Tabs |-> IF put[t] \in {"none", "page", "saved", "conflict", "refused"}
                               THEN put[t] ELSE "failed"]
    /\ UNCHANGED <<files, page, form, operator>>

GatewayLoads ==
    /\ gateway = "down" /\ Loads(canonical, overrides) /\ gateway' = "up"
    /\ UNCHANGED <<files, page, form, put, saving, operator>>

AdminNext ==
    \/ \E t \in Tabs :
          \/ GetConfig(t) \/ PutRefused(t) \/ StartSave(t) \/ LoadAndCompare(t)
          \/ CompareCanonical(t) \/ AcquireSaveLock(t) \/ WriteAdminOverrides(t)
          \/ ReadSaved(t) \/ ApplySaved(t)
          \/ \E f \in Fields : \E v \in Choices(f), session \in Choices(Session) :
                PutConfig(t, f, v, session)
    \/ \E f \in Fields : \E v \in Choices(f) : OperatorEdits(f, v)
    \/ GatewayEnds \/ GatewayLoads

AdminSpec == AdminInit /\ [][AdminNext]_adminVars

-----------------------------------------------------------------------------

(* What the author of a form has changed, and what the form changes by     *)
(* itself: see CollectAgent.                                               *)
Touched(t) == {f \in Fields : form[t][f] # page[t].settings[f]}
Forced(t) ==
    {ChoiceMode, Retired} \cup {f \in Fields : page[t].settings[f] = Padded}
        \cup (IF Scope \in Touched(t) THEN {Session} ELSE {})

(* docs/architecture.md 707-714: a save sets what its author changed on    *)
(* the page to what was entered, and of the rest changes only what the     *)
(* form changes by itself (the choice mode, the retired setting, texts     *)
(* with blanks around them, the session with the scope), to what the form  *)
(* sends: nothing another tab or the operator has set meanwhile.  An edit  *)
(* of the operator that clashes with the save is excepted for the settings *)
(* saved, not for the others.                                              *)
UntouchedSettingsKept ==
    [][overrides' # overrides =>
          \E t \in Tabs :
             LET outgoing == CollectAgent(form[t])
                 was == Effective(canonical, overrides)
                 is == Effective(canonical, overrides')
             IN  /\ put[t] = "write" /\ put'[t] # "write"
                 /\ \A f \in Fields :
                       IF outgoing[f] = page[t].settings[f]
                       THEN is[f] = was[f]
                       ELSE f \in Touched(t) \cup Forced(t) /\ (is[f] = outgoing[f] \/ clashed)
      ]_adminVars

(* docs/configuration.md 356-358: what was saved can be loaded, now and at *)
(* the next start, unless the operator has edited a setting that has an    *)
(* override (or of scope and session the other one), or the form dropped   *)
(* the retired setting (see README).                                       *)
SavedSettingsLoad ==
    Loads(canonical, overrides) \/ clashed
        \/ (overrides[Retired] # NoOverride /\ overrides[Retired].value = Absent)

(* Without that last exception: any save of a Koe whose config.yaml still  *)
(* has the retired setting makes both files unloadable.                    *)
EverySavedSettingLoads == Loads(canonical, overrides) \/ clashed
=============================================================================

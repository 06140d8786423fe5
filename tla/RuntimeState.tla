---------------------------- MODULE RuntimeState ----------------------------
(***************************************************************************)
(* The state of the runtime and its file: the sections that several        *)
(* components change, the queue that lets one change at a time through     *)
(* (mutateRuntimeState in runtime.ts), the writes of the store             *)
(* (state/file-state-store.ts), the autonomy-policy generation that a save *)
(* of the admin UI advances, and a start that fails.                       *)
(*                                                                         *)
(* Every save writes all sections.  A section that restores itself puts    *)
(* its value back when its own save fails; the core, the registry, keeps   *)
(* what it was told and is saved by whoever comes next.                    *)
(***************************************************************************)
EXTENDS Naturals, Sequences, SequencesExt

CONSTANTS
    Cards,          \* changes of the permission cards
    Receipts,       \* changes of the restart receipts
    CoreChanges,    \* changes of the registry, followed by persist()
    Puts,           \* settings saved by the admin UI (onConfigSaved)
    Policies,       \* fingerprints of what the generation stands for
    MaxLost         \* bound on the writes that fail

Changes == Cards \cup Receipts \cup CoreChanges
Mutations == Changes \cup Puts
Generation == [policy : Policies, revision : Nat]
Contents == [cards : SUBSET Cards, receipts : SUBSET Receipts, core : SUBSET CoreChanges,
             generation : Generation]
Nobody == "nobody"

(* Each change is of one section.                                          *)
ASSUME RuntimeAssumption ==
    /\ MaxLost \in Nat /\ Nobody \notin Mutations
    /\ Cards \cap Receipts = {} /\ (Cards \cup Receipts) \cap CoreChanges = {}
    /\ Changes \cap Puts = {}

VARIABLES
    sections,       \* the sections in memory
    stateFile,      \* the sections on disk
    loadedState,    \* what the process loaded
    mutationQueue,  \* operations that wait for runtimeStateMutationQueue
    changing,       \* the one that is saving, or nobody
    writeQueue,     \* writes of the store, each with what was in memory before it
    answered,       \* change -> idle, queued, saved or refused
    target,         \* PUT -> the generation it computed
    adopted,        \* generations the live runtime has been given, in order
    startup,        \* starting, running, undoing, undone
    writesLost      \* writes that failed

runtimeVars == <<sections, stateFile, loadedState, mutationQueue, changing, writeQueue, answered,
                 target, adopted, startup, writesLost>>

(* Type invariant of the sections and of the two queues.                   *)
RuntimeTypeOK ==
    /\ sections \in Contents /\ stateFile \in Contents /\ loadedState \in Contents
    /\ ToSet(mutationQueue) \subseteq Mutations
    /\ changing \in Mutations \cup {Nobody}
    /\ \A i \in DOMAIN writeQueue : writeQueue[i].contents \in Contents
    /\ answered \in [Mutations -> {"idle", "queued", "saved", "refused"}]
    /\ target \in [Puts -> Generation] /\ ToSet(adopted) \subseteq Generation
    /\ startup \in {"starting", "running", "undoing", "undone"}
    /\ writesLost \in 0..MaxLost

RuntimeInit ==
    /\ \E p \in Policies :
          sections = [cards |-> {}, receipts |-> {}, core |-> {},
                    generation |-> [policy |-> p, revision |-> 1]]
    /\ stateFile = sections /\ loadedState = sections
    /\ mutationQueue = <<>> /\ changing = Nobody
    /\ writeQueue = <<>>
    /\ answered = [m \in Mutations |-> "idle"]
    /\ target = [p \in Puts |-> sections.generation]
    /\ adopted = <<sections.generation>>
    /\ startup = "starting" /\ writesLost = 0

-----------------------------------------------------------------------------
(* The callers.                                                            *)

Enqueue(m) == mutationQueue' = Append(mutationQueue, m) /\ answered' = [answered EXCEPT ![m] = "queued"]

(* The replay guard and the card tracker let one change of their section   *)
(* at a time through (#mutationQueue), so its list holds what was saved.   *)
ChangeSection(m) ==
    /\ answered[m] = "idle"
    /\ \A section \in {Cards, Receipts} :
          m \in section => \A n \in section : answered[n] # "queued"
    /\ Enqueue(m)
    /\ UNCHANGED <<sections, stateFile, loadedState, changing, writeQueue, target, adopted,
                   startup, writesLost>>

(* The registry has changed when persist() is called.                      *)
ChangeCore(m) ==
    /\ answered[m] = "idle" /\ sections' = [sections EXCEPT !.core = @ \cup {m}]
    /\ Enqueue(m)
    /\ UNCHANGED <<stateFile, loadedState, changing, writeQueue, target, adopted, startup, writesLost>>

(* reconcileWorkspaceGitAutonomyRevisionState.                             *)
Reconciled(policy, generation) ==
    IF generation.policy = policy THEN generation
    ELSE [policy |-> policy, revision |-> generation.revision + 1]

(* applyAgentModelSettings: computed from the generation in memory before  *)
(* the change waits for its turn.  Without a change the adapters and the   *)
(* frontend are given the settings at once.                                *)
ApplySettings(m, policy) ==
    /\ startup = "running" /\ answered[m] = "idle"
    /\ LET next == Reconciled(policy, sections.generation) IN
       /\ target' = [target EXCEPT ![m] = next]
       /\ IF next = sections.generation
          THEN /\ adopted' = Append(adopted, next)
               /\ answered' = [answered EXCEPT ![m] = "saved"] /\ UNCHANGED mutationQueue
          ELSE Enqueue(m) /\ UNCHANGED adopted
    /\ UNCHANGED <<sections, stateFile, loadedState, changing, writeQueue, startup, writesLost>>

-----------------------------------------------------------------------------
(* mutateRuntimeState and saveCurrentRuntimeState.                         *)

Changed(m) ==
    CASE m \in Cards -> [sections EXCEPT !.cards = @ \cup {m}]
      [] m \in Receipts -> [sections EXCEPT !.receipts = @ \cup {m}]
      [] m \in CoreChanges -> sections
      [] m \in Puts -> [sections EXCEPT !.generation = target[m]]

(* Only its own section is put back.                                       *)
PutBack(m, previous) ==
    CASE m \in Cards -> [sections EXCEPT !.cards = previous.cards]
      [] m \in Receipts -> [sections EXCEPT !.receipts = previous.receipts]
      [] m \in CoreChanges -> sections
      [] m \in Puts -> [sections EXCEPT !.generation = previous.generation]

(* Mutant of MayBegin (no code): nothing is waited for.                    *)
AtOnce == TRUE

MayBegin == changing = Nobody

(* The operation runs, and its save is a copy of all sections.             *)
BeginSave ==
    /\ mutationQueue # <<>> /\ MayBegin
    /\ LET m == Head(mutationQueue) IN
       /\ mutationQueue' = Tail(mutationQueue)
       /\ sections' = Changed(m)
       /\ changing' = m
       /\ writeQueue' = Append(writeQueue, [by |-> m, contents |-> sections', previous |-> sections])
    /\ UNCHANGED <<stateFile, loadedState, answered, target, adopted, startup, writesLost>>

(* #writeAtomically: the file is replaced or left alone.  The settings of  *)
(* a PUT are adopted when its save has returned.                           *)
Adopt(m) ==
    adopted' = IF m \in Puts THEN Append(adopted, sections.generation) ELSE adopted

WriteEnds ==
    /\ writeQueue # <<>> /\ writeQueue' = Tail(writeQueue)
    /\ LET w == Head(writeQueue) IN
       \/ /\ stateFile' = w.contents
          /\ IF w.by = Nobody
             THEN startup' = "undone" /\ UNCHANGED <<sections, changing, answered, adopted>>
             ELSE /\ changing' = Nobody
                  /\ answered' = [answered EXCEPT ![w.by] = "saved"]
                  /\ Adopt(w.by) /\ UNCHANGED <<sections, startup>>
          /\ UNCHANGED writesLost
       \/ /\ writesLost < MaxLost /\ writesLost' = writesLost + 1
          /\ IF w.by = Nobody
             THEN startup' = "undone" /\ UNCHANGED <<sections, changing, answered>>
             ELSE /\ sections' = PutBack(w.by, w.previous)
                  /\ changing' = Nobody
                  /\ answered' = [answered EXCEPT ![w.by] = "refused"] /\ UNCHANGED startup
          /\ UNCHANGED <<stateFile, adopted>>
    /\ UNCHANGED <<loadedState, mutationQueue, target>>

-----------------------------------------------------------------------------
(* startFrontendWithStateRollback.                                         *)

StartSucceeds ==
    /\ startup = "starting" /\ startup' = "running"
    /\ UNCHANGED <<sections, stateFile, loadedState, mutationQueue, changing, writeQueue, answered,
                   target, adopted, writesLost>>

(* The state that was loaded is saved, past the queue of mutations; memory *)
(* keeps what it has, and the components go on changing it until the stop. *)
StartFails ==
    /\ startup = "starting" /\ startup' = "undoing"
    /\ writeQueue' = Append(writeQueue,
                            [by |-> Nobody, contents |-> loadedState, previous |-> sections])
    /\ UNCHANGED <<sections, stateFile, loadedState, mutationQueue, changing, answered, target,
                   adopted, writesLost>>

RuntimeNext ==
    \/ \E m \in Cards \cup Receipts : ChangeSection(m)
    \/ \E m \in CoreChanges : ChangeCore(m)
    \/ \E m \in Puts, p \in Policies : ApplySettings(m, p)
    \/ BeginSave \/ WriteEnds \/ StartSucceeds \/ StartFails

RuntimeSpec == RuntimeInit /\ [][RuntimeNext]_runtimeVars

-----------------------------------------------------------------------------

(* What the caller of a save was told is what the file says, whatever      *)
(* other sections are saved around it: a change that was refused is on no  *)
(* disk, so that a receipt, a card or a generation that its owner has      *)
(* given up does not come back with the next process; one that was saved   *)
(* stays, unless a start that failed has undone it.                        *)
RefusedIsNotOnFile ==
    /\ \A m \in Cards \cup Receipts : answered[m] = "refused" =>
          m \notin stateFile.cards \cup stateFile.receipts
    /\ stateFile.generation \in
          {loadedState.generation} \cup {target[p] : p \in {q \in Puts : answered[q] # "refused"}}
    /\ \A m \in Changes : answered[m] = "saved" =>
          \/ m \in stateFile.cards \cup stateFile.receipts \cup stateFile.core
          \/ startup \in {"undoing", "undone"}

(* docs/workspace-git-autonomous-profiles.md 73-76: a change of the policy *)
(* advances the generation.  (Violated: two PUTs that overlap compute the  *)
(* same revision for two policies.)                                        *)
GenerationNamesOnePolicy ==
    \A g, h \in ToSet(adopted) : g.revision = h.revision => g = h

(* The same lines: it is advanced before the live runtime adopts the       *)
(* change.  (Violated: a PUT that finds its policy in memory while another *)
(* PUT is saving it adopts it at once, and that save may fail.)            *)
AdoptedIsSaved ==
    [][adopted' # adopted => Last(adopted') = stateFile'.generation]_runtimeVars
=============================================================================

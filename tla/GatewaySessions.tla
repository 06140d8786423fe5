-------------------------- MODULE GatewaySessions --------------------------
(***************************************************************************)
(* Which backend session a turn of one Koe runs in: Gateway.#handleSlack-  *)
(* BoundTurn (core/gateway.ts), AgentRouter.send (core/router.ts), the     *)
(* session tables of the registry, and createRegistry (runtime.ts), which  *)
(* restores them when the process starts.                                  *)
(*                                                                         *)
(* With "channel" scope the Koe has one canonical session, and the root of *)
(* a Slack thread is a reply destination; with "thread" scope every root   *)
(* has a session of its own.  A session is resumed when a process first    *)
(* uses it; a declared session whose backend thread is gone makes the Koe  *)
(* fall back to thread scope.  Turns hold the Koe's lease; status and      *)
(* interrupt do not.                                                       *)
(***************************************************************************)
EXTENDS Naturals, FiniteSets

CONSTANTS
    Roots,          \* root threads of the Koe's channel
    Slots,          \* turns under way at a time
    MaxSessions,    \* bound on the backend sessions made
    MaxRequests,       \* bound on the turns requested
    MaxStarts       \* bound on the starts of the process

ASSUME SessionBoundsAssumption == MaxSessions \in Nat \ {0} /\ MaxStarts \in Nat \ {0}

Sessions == 1..MaxSessions
Declared == 1       \* the session that adapter_session_id declares, if one is
NoSession == 0
NoHolder == "nobody"
NoRoot == "no root"

ASSUME SessionNamesAssumption == NoHolder \notin Slots /\ NoRoot \notin Roots

VARIABLES
    declared,       \* the configuration declares a session
    configScope,    \* conversation_scope of the configuration
    tables,         \* the registry: what snapshot() saves
    savedTables,    \* the state file
    activated,      \* #activatedSessionIds
    context,        \* session -> the turn in its activeTurn
    slot,           \* the turns
    lease,          \* the Koe's turn lease
    starts,         \* starts of the process so far
    requested,      \* turns so far
    made,           \* backend sessions made so far
    koeUp,          \* the process runs; false once it cannot start
    ran,            \* history: <<root, session>> of the turns begun
    carried         \* history: <<expected, used>> of the results given

sessionVars == <<declared, configScope, tables, savedTables, activated, context, slot,
                 lease, starts, requested, made, koeUp, ran, carried>>
configVars == <<declared, configScope, starts, koeUp>>

Scopes == {"channel", "thread"}
Kinds == {"human", "result", "visit"}
Idle == [step |-> "off", kind |-> "human", root |-> NoRoot, expect |-> NoSession,
         session |-> NoSession]

(* Type invariant of the tables, the turns and the histories.              *)
SessionTypeOK ==
    /\ declared \in BOOLEAN /\ configScope \in Scopes /\ koeUp \in BOOLEAN
    /\ \A t \in {tables, savedTables} :
          /\ t.scope \in Scopes /\ t.sessions \subseteq Sessions
          /\ t.primary \in t.sessions \cup {NoSession}
          /\ t.binding \in [Roots -> t.sessions \cup {NoSession}]
    /\ activated \subseteq tables.sessions
    /\ context \in [Sessions -> Slots \cup {NoHolder}]
    /\ \A k \in Slots :
          /\ slot[k].step \in {"off", "wait", "create", "resume", "replace", "begin",
                              "started", "stream"}
          /\ slot[k].kind \in Kinds /\ slot[k].root \in Roots \cup {NoRoot}
          /\ {slot[k].expect, slot[k].session} \subseteq Sessions \cup {NoSession}
    /\ lease \in Slots \cup {NoHolder}
    /\ starts \in 1..MaxStarts /\ requested \in 0..MaxRequests /\ made \in 0..MaxSessions
    /\ ran \subseteq Roots \X Sessions
    /\ carried \subseteq Sessions \X Sessions

(* A Koe that has never run; with a declared session, one whose remembered *)
(* roots createRegistry has pointed at it.                                 *)
SessionInit ==
    /\ declared \in BOOLEAN /\ configScope \in Scopes
    /\ declared => configScope = "channel"
    /\ \E old \in SUBSET Roots :
          /\ old # {} => declared
          /\ tables = [scope |-> configScope,
                       sessions |-> IF declared THEN {Declared} ELSE {},
                       primary |-> IF declared THEN Declared ELSE NoSession,
                       binding |-> [r \in Roots |-> IF r \in old THEN Declared ELSE NoSession]]
    /\ savedTables = tables
    /\ activated = {} /\ context = [s \in Sessions |-> NoHolder]
    /\ slot = [k \in Slots |-> Idle] /\ lease = NoHolder
    /\ starts = 1 /\ requested = 0 /\ made = IF declared THEN 1 ELSE 0
    /\ koeUp = TRUE /\ ran = {} /\ carried = {}

-----------------------------------------------------------------------------

(* sessionForSlackRoot.                                                    *)
SessionForRoot(r) == IF tables.scope = "channel" THEN tables.primary ELSE tables.binding[r]

(* onStateChanged: the snapshot is saved, or the save fails and the caller *)
(* throws; the registry keeps the change either way.                       *)
Save(ok) == savedTables' = IF ok THEN tables' ELSE savedTables

At(k, step) == koeUp /\ slot[k].step = step
GoTo(k, step, s) == slot' = [slot EXCEPT ![k].step = step, ![k].session = s]

(* The turn is over before it began, and its lease released.               *)
GiveUp(k) == slot' = [slot EXCEPT ![k] = Idle] /\ lease' = NoHolder

(* replaceConversation: the root leaves the session it was bound to.       *)
replaceConversation(t, r, s) == [t EXCEPT !.binding[r] = s]

(* Once the backend has the session again it is marked for this process.   *)
activateSession(s) == activated' = activated \cup {s}

(* Only a root that has a session may touch one.                           *)
requireActiveConversation(r) == koeUp /\ SessionForRoot(r) # NoSession

(* An activated session can be used at once, another is resumed first.     *)
Use(k, s) == GoTo(k, IF s \in activated THEN "begin" ELSE "resume", s)

(* A message in Slack, the result of a delegation for the session that     *)
(* asked, a visit; a visit whose job was continued names the session it    *)
(* used.  (A structured answer is fenced like a result, and once more when *)
(* its session is there; asked in this process, that is activated, and the *)
(* session of its root no longer changes.)                                 *)
RequestTurn(k, kind, r, s) ==
    /\ koeUp /\ slot[k].step = "off" /\ requested < MaxRequests
    /\ CASE kind = "human"  -> r # NoRoot /\ s = NoSession
         [] kind = "result" -> <<r, s>> \in ran
         [] kind = "visit"  -> r = NoRoot /\ (s # NoSession => \E q \in Roots : <<q, s>> \in ran)
    /\ requested' = requested + 1
    /\ slot' = [slot EXCEPT ![k] = [step |-> "wait", kind |-> kind, root |-> r, expect |-> s,
                                    session |-> NoSession]]
    /\ UNCHANGED <<tables, savedTables, activated, context, lease, made,
                   ran, carried>>
    /\ UNCHANGED configVars

Leased(k) == At(k, "wait") /\ lease = NoHolder

(* Mutant of FencePasses (no code): there is no fence.                     *)
NoFence(k) == TRUE

(* The fence of a result, read when the lease is granted.                  *)
FencePasses(k) ==
    slot[k].kind = "result" => SessionForRoot(slot[k].root) = slot[k].expect

RefuseTurn(k) ==
    /\ Leased(k) /\ ~FencePasses(k)
    /\ GiveUp(k)
    /\ UNCHANGED <<tables, savedTables, activated, context, requested, made, ran, carried>>
    /\ UNCHANGED configVars

TurnChoosesSession == UNCHANGED <<activated, context, requested, made,
                                  ran, carried>> /\ UNCHANGED configVars

(* ensureConversation with thread scope.                                   *)
EnsureThread(k) ==
    /\ Leased(k) /\ slot[k].kind # "visit" /\ FencePasses(k) /\ tables.scope = "thread"
    /\ lease' = k
    /\ LET s == tables.binding[slot[k].root]
       IN IF s = NoSession THEN GoTo(k, "create", s) ELSE Use(k, s)
    /\ UNCHANGED <<tables, savedTables>> /\ TurnChoosesSession

(* ... and with channel scope: the root is pointed at the canonical        *)
(* session before that is resumed.                                         *)
EnsureChannel(k) ==
    /\ Leased(k) /\ slot[k].kind # "visit" /\ FencePasses(k) /\ tables.scope = "channel"
    /\ LET r == slot[k].root
           s == IF tables.primary # NoSession THEN tables.primary ELSE tables.binding[r]
       IN IF s = NoSession
            THEN GoTo(k, "create", s) /\ lease' = k /\ UNCHANGED <<tables, savedTables>>
            ELSE /\ tables' = replaceConversation([tables EXCEPT !.primary = s], r, s)
                 /\ \E ok \in BOOLEAN :
                       /\ tables' = tables => ok
                       /\ Save(ok)
                       /\ IF ok THEN Use(k, s) /\ lease' = k ELSE GiveUp(k)
    /\ TurnChoosesSession

(* Mutant of EnsureVisit (no code): a visit takes any session the Koe has. *)
VisitAnySession(k) ==
    /\ Leased(k) /\ slot[k].kind = "visit"
    /\ \E s \in tables.sessions : Use(k, s) /\ lease' = k
    /\ UNCHANGED <<tables, savedTables>> /\ TurnChoosesSession

(* AgentRouter.send: the session of the job, the canonical one, or, with   *)
(* thread scope, one of its own.                                           *)
EnsureVisit(k) ==
    /\ Leased(k) /\ slot[k].kind = "visit"
    /\ LET s == IF slot[k].expect # NoSession THEN slot[k].expect
                ELSE IF tables.scope = "channel" THEN tables.primary ELSE NoSession
       IN IF s = NoSession THEN GoTo(k, "create", s) /\ lease' = k
          ELSE IF s \in tables.sessions THEN Use(k, s) /\ lease' = k
          ELSE GiveUp(k)
    /\ UNCHANGED <<tables, savedTables>> /\ TurnChoosesSession

(* adapter.createSession has answered: in one go the session is recorded,  *)
(* made canonical or bound to the root.                                    *)
SessionCreated(k, ok) ==
    /\ At(k, "create") /\ made < MaxSessions
    /\ LET n == made + 1
           r == slot[k].root
       IN /\ made' = n /\ activated' = activated \cup {n}
          /\ tables' = [tables EXCEPT
                !.sessions = @ \cup {n},
                !.primary = IF tables.scope = "channel" THEN n ELSE @,
                !.binding = [q \in Roots |-> IF q = r THEN n ELSE @[q]]]
          /\ Save(ok)
          /\ IF ok THEN GoTo(k, "begin", n) /\ UNCHANGED lease ELSE GiveUp(k)
    /\ UNCHANGED <<context, requested, ran, carried>>
    /\ UNCHANGED configVars

(* adapter.resumeSession has answered.                                     *)
SessionResumed(k, ok) ==
    /\ At(k, "resume")
    /\ activateSession(slot[k].session)
    /\ UNCHANGED tables /\ Save(ok)
    /\ IF ok THEN GoTo(k, "begin", slot[k].session) /\ UNCHANGED lease ELSE GiveUp(k)
    /\ UNCHANGED <<context, requested, made, ran, carried>>
    /\ UNCHANGED configVars

(* The declared session's backend thread is gone: the Slack turn gets a    *)
(* new one.  For a visit, and for any other session, that is an error.     *)
SessionUnavailable(k) ==
    /\ At(k, "resume")
    /\ IF declared /\ slot[k].session = Declared /\ slot[k].kind # "visit"
         THEN GoTo(k, "replace", slot[k].session) /\ UNCHANGED lease
         ELSE GiveUp(k)
    /\ UNCHANGED <<tables, savedTables>> /\ TurnChoosesSession

(* createSession fails.                                                    *)
SessionNotCreated(k) ==
    /\ \E step \in {"create", "replace"} : At(k, step)
    /\ GiveUp(k)
    /\ UNCHANGED <<tables, savedTables>> /\ TurnChoosesSession

(* replaceMissingConfiguredThread, once the new session is there: only the *)
(* root of this turn leaves the declared session.                          *)
ReplaceMissingThread(k, ok) ==
    /\ At(k, "replace") /\ made < MaxSessions
    /\ LET n == made + 1
       IN /\ made' = n /\ activated' = activated \cup {n}
          /\ tables' = replaceConversation([tables EXCEPT !.sessions = @ \cup {n}, !.scope = "thread"],
                                           slot[k].root, n)
          /\ Save(ok)
          /\ IF ok THEN GoTo(k, "begin", n) /\ UNCHANGED lease ELSE GiveUp(k)
    /\ UNCHANGED <<context, requested, ran, carried>>
    /\ UNCHANGED configVars

-----------------------------------------------------------------------------

(* beginSessionTurn and its save, without which the turn fails.            *)
BeginTurn(k, ok) ==
    /\ At(k, "begin")
    /\ savedTables' = IF ok THEN tables ELSE savedTables
    /\ IF ok
         THEN /\ context' = [context EXCEPT ![slot[k].session] = k]
              /\ slot' = [slot EXCEPT ![k].step =
                             IF /\ slot[k].kind = "visit" /\ tables.scope = "thread"
                                /\ slot[k].expect = NoSession THEN "started" ELSE "stream"]
              /\ ran' = IF slot[k].root = NoRoot THEN ran
                        ELSE ran \cup {<<slot[k].root, slot[k].session>>}
              /\ carried' = IF slot[k].kind = "result"
                              THEN carried \cup {<<slot[k].expect, slot[k].session>>} ELSE carried
              /\ UNCHANGED lease
         ELSE GiveUp(k) /\ UNCHANGED <<context, ran, carried>>
    /\ UNCHANGED <<tables, activated, requested, made>> /\ UNCHANGED configVars

(* A visit to a Koe with thread scope is announced in a thread of its own, *)
(* whose root is bound before the message is sent; if that cannot be       *)
(* announced or saved the visit fails.                                     *)
FreshRoot(r) ==
    /\ tables.binding[r] = NoSession /\ savedTables.binding[r] = NoSession
    /\ \A k \in Slots : slot[k].root # r
    /\ \A s \in Sessions : <<r, s>> \notin ran

BindVisit(k, r, ok) ==
    /\ At(k, "started") /\ FreshRoot(r)
    /\ tables' = [tables EXCEPT !.binding[r] = slot[k].session]
    /\ Save(ok)
    /\ ran' = ran \cup {<<r, slot[k].session>>}
    /\ IF ok
         THEN /\ slot' = [slot EXCEPT ![k].step = "stream"]
              /\ UNCHANGED <<lease, context>>
         ELSE /\ GiveUp(k)
              /\ context' = [context EXCEPT ![slot[k].session] = NoHolder]
    /\ UNCHANGED <<activated, requested, made, carried>> /\ UNCHANGED configVars

(* The adapter reports an ended status before its stream is over.          *)
StatusEnds(k) ==
    /\ At(k, "stream")
    /\ context' = [context EXCEPT ![slot[k].session] = NoHolder]
    /\ \E ok \in BOOLEAN : savedTables' = IF ok THEN tables ELSE savedTables
    /\ UNCHANGED <<tables, activated, slot, lease, requested, made, ran, carried>>
    /\ UNCHANGED configVars

(* The stream ends, throws, or its reader goes away: a session that still  *)
(* runs becomes idle, failed or interrupted, then the lease is released.   *)
EndTurn(k) ==
    /\ \E step \in {"started", "stream"} : At(k, step)
    /\ context' = [context EXCEPT ![slot[k].session] = NoHolder]
    /\ \E ok \in BOOLEAN : savedTables' = IF ok THEN tables ELSE savedTables
    /\ GiveUp(k)
    /\ UNCHANGED <<tables, activated, requested, made, ran, carried>>
    /\ UNCHANGED configVars

-----------------------------------------------------------------------------

(* status, interrupt and the answers to questions, outside the lease,      *)
(* activate the session of the root; status writes what it read of the     *)
(* adapter some time before, and an ended status takes the context away    *)
(* even from a turn begun since.                                           *)
ProbeRoot(r) ==
    /\ requireActiveConversation(r)
    /\ LET s == SessionForRoot(r)
       IN /\ activateSession(s)
          /\ context' \in {context, [context EXCEPT ![s] = NoHolder]}
          /\ savedTables' \in {savedTables, tables}
    /\ UNCHANGED <<tables, slot, lease, requested, made, ran, carried>>
    /\ UNCHANGED configVars

(* Any other component saves the state.                                    *)
OtherSaves ==
    /\ koeUp /\ savedTables' = tables
    /\ UNCHANGED <<tables, activated, context, slot, lease, requested,
                   made, ran, carried>>
    /\ UNCHANGED configVars

-----------------------------------------------------------------------------

(* createRegistry from the saved state `d` with `scope` configured.        *)

ScopeAfterStart(d, scope) == IF declared /\ d.scope = "thread" THEN "thread" ELSE scope

Bound(d) == {d.binding[r] : r \in Roots} \ {NoSession}
Referenced(d) == Bound(d) \cup ({d.primary} \ {NoSession})

(* Mutant of KeptBinding (no code): the mappings survive the change.       *)
KeepBinding(d, scope) == d.binding

(* A Koe that changes to thread scope loses its mappings.                  *)
KeptBinding(d, scope) ==
    IF d.scope = "channel" /\ ScopeAfterStart(d, scope) = "thread"
      THEN [r \in Roots |-> NoSession] ELSE d.binding

(* selectCanonicalSessionIds, or the declared session.                     *)
Candidates(d) == IF Referenced(d) # {} THEN Referenced(d) ELSE d.sessions
Canonical(d) == IF declared THEN Declared
                ELSE IF Candidates(d) = {} THEN NoSession
                ELSE CHOOSE s \in Candidates(d) : TRUE

(* hydrate refuses a thread-scoped session with two roots; no canonical    *)
(* session is guessed.                                                     *)
Loads(d, scope) ==
    IF ScopeAfterStart(d, scope) = "thread"
      THEN \A q, r \in Roots :
              q # r /\ KeptBinding(d, scope)[q] = KeptBinding(d, scope)[r]
                => KeptBinding(d, scope)[q] = NoSession
      ELSE declared \/ Cardinality(Candidates(d)) <= 1

Restored(d, scope) ==
    IF ScopeAfterStart(d, scope) = "thread"
      THEN [d EXCEPT !.scope = "thread", !.primary = NoSession,
                     !.binding = KeptBinding(d, scope)]
      ELSE [d EXCEPT !.scope = scope, !.primary = Canonical(d),
                     !.sessions = IF declared THEN @ \cup {Declared} ELSE @,
                     !.binding = [r \in Roots |-> IF @[r] = NoSession THEN NoSession
                                                  ELSE Canonical(d)]]

(* The process ends anywhere and is started again, perhaps with thread     *)
(* scope configured; if createRegistry throws, every start fails.          *)
StartProcess(scope) ==
    /\ koeUp /\ starts < MaxStarts
    /\ scope = configScope \/ (scope = "thread" /\ ~declared)
    /\ starts' = starts + 1 /\ configScope' = scope
    /\ koeUp' = Loads(savedTables, scope)
    /\ tables' = IF koeUp' THEN Restored(savedTables, scope) ELSE savedTables
    /\ activated' = {} /\ context' = [s \in Sessions |-> NoHolder]
    /\ slot' = [k \in Slots |-> Idle] /\ lease' = NoHolder
    /\ UNCHANGED <<declared, savedTables, requested, made, ran, carried>>

SessionNext ==
    \/ \E k \in Slots, kind \in Kinds, r \in Roots \cup {NoRoot}, s \in Sessions \cup {NoSession} :
          RequestTurn(k, kind, r, s)
    \/ \E k \in Slots :
          \/ RefuseTurn(k) \/ EnsureThread(k) \/ EnsureChannel(k) \/ EnsureVisit(k)
          \/ SessionUnavailable(k) \/ SessionNotCreated(k) \/ StatusEnds(k)
          \/ EndTurn(k)
          \/ \E ok \in BOOLEAN :
                \/ SessionCreated(k, ok) \/ SessionResumed(k, ok)
                \/ ReplaceMissingThread(k, ok) \/ BeginTurn(k, ok)
                \/ \E r \in Roots : BindVisit(k, r, ok)
    \/ \E r \in Roots : ProbeRoot(r)
    \/ OtherSaves
    \/ \E scope \in Scopes : StartProcess(scope)

SessionSpec == SessionInit /\ [][SessionNext]_sessionVars

-----------------------------------------------------------------------------

(* The result of a delegation is given to the session that asked, not to   *)
(* another one its root has come to use.  (A declared session whose thread *)
(* is gone is the exception: the fence is not read again.)                 *)
ResultReachesUnlessReplaced ==
    \A c \in carried : c[1] = c[2] \/ (declared /\ c[1] = Declared)

(* ... without exception: core/gateway.ts 137 says that the result         *)
(* "reopens the exact source conversation".                                *)
ResultReachesItsSession == \A c \in carried : c[1] = c[2]

(* With thread scope configured two Slack roots never share a session, not *)
(* even one a visit made, or one from before the change of scope.          *)
ThreadTurnsAreIsolated ==
    configScope = "thread" =>
        \A k \in Slots : slot[k].step = "stream" /\ slot[k].root # NoRoot =>
            \A q \in Roots : <<q, slot[k].session>> \in ran => q = slot[k].root

(* The process can be started again from whatever it has saved, whatever   *)
(* scope is configured, unless the Koe fell back from a declared session.  *)
StateLoadsUnlessFellBack ==
    koeUp \/ (declared /\ savedTables.scope = "thread")

(* ... without exception: docs/configuration.md 160 says that a deleted    *)
(* declared thread "does not stop the Gateway".                            *)
SavedStateLoads == koeUp
=============================================================================

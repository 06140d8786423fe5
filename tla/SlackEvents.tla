----------------------------- MODULE SlackEvents -----------------------------
(***************************************************************************)
(* Messages of Slack on their way to a turn: the message listener of       *)
(* slack/frontend.ts with its two memories, the SlackEventDeduplicator of  *)
(* the process and the ledger of handled events in the state file, and the *)
(* count of active handlers that a restart waits for.                      *)
(*                                                                         *)
(* Slack sends an event again when the acknowledgement does not reach it.  *)
(* It gives up well within the ten minutes for which the process remembers *)
(* an event, so that the expiry of that memory is left out.  The turn      *)
(* itself is SlackProjection's and the router's.                           *)
(***************************************************************************)
EXTENDS Naturals, FiniteSets

CONSTANTS
    Messages,       \* message events of the agent channels
    MaxDeliveries,  \* bound on the deliveries of one event
    MaxProcesses,   \* bound on the processes
    MaxSaveFaults   \* bound on saves that fail

ASSUME EventAssumption == {MaxDeliveries, MaxProcesses, MaxSaveFaults} \subseteq Nat

Deliveries == Messages \X (1..MaxDeliveries)

VARIABLES
    sent,           \* how often Slack has delivered an event
    listener,       \* where the listener is with each delivery
    seen,           \* SlackEventDeduplicator.#seen
    ledger,         \* #handledSlackEvents of the registry
    saved,          \* the same in the state file
    restartPending, \* #restartPending
    drain,          \* the restart, which waits for #activeMessageHandlers = 0
    process,        \* how many processes have run
    saveFaults,     \* saves that have failed
    turns,          \* history: turns started for an event
    cut             \* history: ends of a process that a turn did not survive

eventVars == <<sent, listener, seen, ledger, saved, restartPending, drain, process, saveFaults, turns, cut>>

At(step) == {d \in Deliveries : listener[d] = step}
Active == At("telling") \cup At("turn") \cup At("recording")

EventTypeOK ==
    /\ sent \in [Messages -> 0..MaxDeliveries]
    /\ listener \in [Deliveries -> {"none", "telling", "turn", "recording", "over"}]
    /\ {seen, ledger, saved} \subseteq SUBSET Messages
    /\ restartPending \in BOOLEAN /\ drain \in {"no", "waiting", "idle"}
    /\ process \in 1..MaxProcesses /\ saveFaults \in 0..MaxSaveFaults
    /\ turns \in [Messages -> 0..MaxDeliveries] /\ cut \in [Messages -> 0..MaxProcesses]

EventInit ==
    /\ sent = [m \in Messages |-> 0] /\ listener = [d \in Deliveries |-> "none"]
    /\ seen = {} /\ ledger = {} /\ saved = {}
    /\ restartPending = FALSE /\ drain = "no" /\ process = 1 /\ saveFaults = 0
    /\ turns = [m \in Messages |-> 0] /\ cut = [m \in Messages |-> 0]

-----------------------------------------------------------------------------

(* The ledger first, then the process; both only of events whose listener   *)
(* has got that far.                                                       *)
Remembered(m) == m \in ledger \/ m \in seen

(* An event arrives; one that is not remembered begins a handler.  While a *)
(* restart is under way the person is asked to send the message again.     *)
Deliver(m) ==
    /\ sent[m] < MaxDeliveries
    /\ sent' = [sent EXCEPT ![m] = @ + 1]
    /\ LET d == <<m, sent[m] + 1>> IN
       CASE Remembered(m) -> listener' = [listener EXCEPT ![d] = "over"] /\ UNCHANGED <<seen, turns>>
         [] ~Remembered(m) /\ restartPending ->
              listener' = [listener EXCEPT ![d] = "telling"] /\ seen' = seen \cup {m} /\ UNCHANGED turns
         [] OTHER ->
              /\ listener' = [listener EXCEPT ![d] = "turn"] /\ seen' = seen \cup {m}
              /\ turns' = [turns EXCEPT ![m] = @ + 1]
    /\ UNCHANGED <<ledger, saved, restartPending, drain, process, saveFaults, cut>>

(* Mutant of BeginRecord (no code): finishHandler comes before the save.   *)
FinishFirst(d) ==
    /\ listener[d] \in {"telling", "turn"}
    /\ listener' = [listener EXCEPT ![d] = "recording"] /\ ledger' = ledger \cup {d[1]}
    /\ drain' = IF Active = {d} /\ drain = "waiting" THEN "idle" ELSE drain
    /\ UNCHANGED <<sent, seen, saved, restartPending, process, saveFaults, turns, cut>>

(* The turn ends in some way, or the person is told (or cannot be): the    *)
(* event is handled, and that is saved.                                    *)
BeginRecord(d) ==
    /\ listener[d] \in {"telling", "turn"}
    /\ listener' = [listener EXCEPT ![d] = "recording"] /\ ledger' = ledger \cup {d[1]}
    /\ UNCHANGED <<sent, seen, saved, restartPending, drain, process, saveFaults, turns, cut>>

(* finishHandler: the last one wakes the restart.                          *)
HandlerEnds(d) ==
    /\ listener' = [listener EXCEPT ![d] = "over"]
    /\ drain' = IF Active = {d} /\ drain = "waiting" THEN "idle" ELSE drain

(* A save writes all of the registry; one that fails is only logged.       *)
Recorded(d) ==
    /\ listener[d] = "recording" /\ HandlerEnds(d)
    /\ \/ saved' = ledger /\ UNCHANGED saveFaults
       \/ saveFaults < MaxSaveFaults /\ saveFaults' = saveFaults + 1 /\ UNCHANGED saved
    /\ UNCHANGED <<sent, seen, ledger, restartPending, process, turns, cut>>

(* Some other part of the gateway saves the registry.                      *)
SavedByOther ==
    /\ saved # ledger /\ saved' = ledger
    /\ UNCHANGED <<sent, listener, seen, ledger, restartPending, drain, process, saveFaults, turns, cut>>

(* A restart: admission is closed, and the handlers are waited for.        *)
BeginRestart ==
    /\ ~restartPending /\ restartPending' = TRUE
    /\ drain' = IF Active = {} THEN "idle" ELSE "waiting"
    /\ UNCHANGED <<sent, listener, seen, ledger, saved, process, saveFaults, turns, cut>>

(* The next process knows what is in the state file.                       *)
NextProcess ==
    /\ process < MaxProcesses /\ process' = process + 1
    /\ listener' = [d \in Deliveries |-> IF sent[d[1]] >= d[2] THEN "over" ELSE "none"]
    /\ seen' = {} /\ ledger' = saved /\ restartPending' = FALSE /\ drain' = "no"
    /\ UNCHANGED <<sent, saved, saveFaults, turns>>

(* Drained, unless a message has come in since: it has been told nothing   *)
(* that the next process would contradict.                                 *)
Restart == drain = "idle" /\ NextProcess /\ UNCHANGED cut

Crash ==
    /\ NextProcess
    /\ cut' = [m \in Messages |-> cut[m] + Cardinality({d \in Active : d[1] = m})]

EventNext ==
    \/ \E m \in Messages : Deliver(m)
    \/ \E d \in Deliveries : BeginRecord(d) \/ Recorded(d)
    \/ SavedByOther \/ BeginRestart \/ Restart \/ Crash

EventSpec == EventInit /\ [][EventNext]_eventVars

-----------------------------------------------------------------------------
(* Properties.                                                             *)

(* A message is not worked on twice ("acknowledge and deduplicate", docs/  *)
(* architecture.md): an event that comes in again, during its turn, after  *)
(* it or to the next process, starts no second turn, unless the process    *)
(* ended in the middle of the first or the save of its end failed.         *)
(* A restart that has waited for the handlers is no such end.              *)
MessageStartsOneTurn ==
    \A m \in Messages : turns[m] > 1 + cut[m] => saveFaults > 0
=============================================================================

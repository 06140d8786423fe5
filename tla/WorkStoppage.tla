----------------------------- MODULE WorkStoppage -----------------------------
(***************************************************************************)
(* WorkStoppageMonitor (diagnostics/work-stoppage-monitor.ts) for one Koe, *)
(* fed by the events of its adapter, by the audit of interactions and, each*)
(* 15 seconds, by the registry (runtime.ts).  It keeps its own idea of what*)
(* the Koe is doing and turns it into incidents; each change of an incident*)
(* is announced, and saved with the rest of the runtime state afterwards.  *)
(*                                                                         *)
(* An incident is the number of times it has changed: odd when it is open, *)
(* so that the n-th detection is 2n - 1 and its recovery is 2n.            *)
(***************************************************************************)
EXTENDS Naturals, FiniteSets

CONSTANTS
    WaitIds,        \* requests a turn may wait for
    MaxWatched,     \* bound on turns
    MaxSignals,     \* bound on the other events of adapters and on periods
    MaxWorkers      \* bound on worker processes

Reasons == {"visible_approval_wait", "hidden_approval_wait", "queued_progress_stall_suspected",
            "running_progress_stall_suspected", "tool_progress_stall_suspected",
            "execution_failed", "connection_lost"}
KoeStates == {"unknown", "queued", "running", "tool_running", "waiting_for_input", "failed",
              "terminal"}
KnowsNothing ==
    [state |-> "unknown", tools |-> FALSE, pending |-> {}, visible |-> {}, late |-> {},
     stateLate |-> FALSE, stalled |-> FALSE, connection |-> "up"]

VARIABLES
    watched,        \* a turn of the Koe is running
    erred,          \* it has had an error event
    request,        \* request -> none, asked, shown, settled, over (with its
                    \* process)
    lastStatus,     \* status of the session in the registry
    queuedJob,      \* a delegation is queued for the Koe
    view,           \* #states: what the monitor knows; late and stalled say
                    \* that a threshold has passed
    incident,       \* #incidents
    savedIncident,  \* the snapshot in the state file
    announced,      \* history: the last change that was announced
    unsavedEnd,     \* history: a process ended before it saved a change
    overdue,        \* history: requests asked half a minute ago, not shown yet
    misled,         \* history: a card came after its request was settled, or
                    \* the status was "running" while a request was open
    spent           \* turns, signals and processes used

monitorVars == <<watched, erred, request, lastStatus, queuedJob, view, incident,
                 savedIncident, announced, unsavedEnd, overdue, misled, spent>>

(* Type invariant of the monitor and what it watches.                      *)
MonitorTypeOK ==
    /\ {watched, erred, queuedJob, unsavedEnd, misled} \subseteq BOOLEAN
    /\ request \in [WaitIds -> {"none", "asked", "shown", "settled", "over"}]
    /\ lastStatus \in {"idle", "running", "waiting_for_input", "failed"}
    /\ view \in [state : KoeStates, tools : BOOLEAN, pending : SUBSET WaitIds,
                 visible : SUBSET WaitIds, late : SUBSET WaitIds, stateLate : BOOLEAN,
                 stalled : BOOLEAN, connection : {"up", "lost", "lost long"}]
    /\ \A r \in Reasons : {incident[r], savedIncident[r], announced[r]} \subseteq Nat
    /\ overdue \subseteq WaitIds

MonitorInit ==
    /\ watched = FALSE /\ erred = FALSE /\ lastStatus = "idle"
    /\ request = [w \in WaitIds |-> "none"]
    /\ queuedJob = FALSE /\ view = KnowsNothing
    /\ incident = [r \in Reasons |-> 0] /\ savedIncident = incident /\ announced = incident
    /\ unsavedEnd = FALSE /\ overdue = {} /\ misled = FALSE
    /\ spent = [turns |-> 0, signals |-> 0, workers |-> 1]

Spend(what, limit) ==
    /\ spent[what] < limit
    /\ spent' = [spent EXCEPT ![what] = @ + 1]

-----------------------------------------------------------------------------

(* #setState, #progress: the time of the state and of the last progress.   *)
SetState(v, next, progress) ==
    [v EXCEPT !.state = next,
              !.stateLate = IF next = v.state THEN v.stateLate ELSE FALSE,
              !.stalled = IF progress THEN FALSE ELSE v.stalled]
AtWork(v) == SetState(v, IF v.tools THEN "tool_running" ELSE "running", TRUE)
WithPending(v, p) == [v EXCEPT !.pending = p, !.visible = @ \cap p, !.late = @ \cap p]

RecordPending(v, w) ==
    SetState(WithPending(v, v.pending \cup {w}), "waiting_for_input", TRUE)
MarkVisible(v, w) ==
    [RecordPending(v, w) EXCEPT !.visible = @ \cup {w}]
ClearPending(v, w) ==
    LET rest == WithPending(v, v.pending \ {w})
    IN IF w \in v.pending /\ rest.pending = {} /\ v.state = "waiting_for_input"
         THEN AtWork(rest) ELSE rest

(* Mutant of Progress (no code): who makes progress waits for nobody.      *)
ProgressEndsWaits(v) == AtWork(WithPending(v, {}))

(* Text, or a tool that has ended or begun.                                *)
Progress(v) == AtWork(v)

(* #observeAgentStatus                                                     *)
ObserveStatus(v, status) ==
    CASE status = "running" -> AtWork(WithPending(v, {}))
      [] status = "waiting_for_input" -> SetState(v, "waiting_for_input", TRUE)
      [] status = "failed" -> SetState(v, "failed", TRUE)
      [] status = "idle" ->
            SetState([WithPending(v, {}) EXCEPT !.tools = FALSE], "terminal", TRUE)

(* observeTurnTerminal                                                     *)
ObserveTerminal(v, failed) ==
    SetState([WithPending(v, {}) EXCEPT !.tools = FALSE],
             IF failed THEN "failed" ELSE "terminal", TRUE)

(* reconcile: the condition of every incident.                             *)
Hidden(v) ==
    \/ \E w \in v.pending \ v.visible : w \in v.late
    \/ v.pending = {} /\ v.state = "waiting_for_input" /\ v.stateLate
ShouldBeActive(v) ==
    [r \in Reasons |->
       CASE r = "visible_approval_wait" -> v.visible # {}
         [] r = "hidden_approval_wait" -> Hidden(v) /\ v.visible = {}
         [] r = "queued_progress_stall_suspected" -> v.state = "queued" /\ v.stalled
         [] r = "running_progress_stall_suspected" ->
               v.state = "running" /\ v.pending = {} /\ v.stalled
         [] r = "tool_progress_stall_suspected" -> v.state = "tool_running" /\ v.stalled
         [] r = "execution_failed" -> v.state = "failed"
         [] r = "connection_lost" -> v.connection = "lost long"]

(* #syncIncident and #emit for all of them; notifications that fail are    *)
(* not sent again.                                                         *)
Reconcile(v) ==
    LET open == ShouldBeActive(v)
        changed == {r \in Reasons : open[r] # (incident[r] % 2 = 1)}
    IN /\ view' = v
       /\ incident' = [r \in Reasons |-> IF r \in changed THEN incident[r] + 1 ELSE incident[r]]
       /\ announced' = [r \in Reasons |->
                          IF r \in changed THEN incident[r] + 1 ELSE announced[r]]

(* What is true of the requests, whatever the monitor knows.               *)
KoeRequests(next) ==
    request' = next /\ overdue' = {w \in overdue : next[w] = "asked"}

Elsewhere == <<queuedJob, savedIncident, unsavedEnd>>
InTurn == watched /\ lastStatus \in {"running", "waiting_for_input"}

-----------------------------------------------------------------------------

(* WorkMonitoringAgentAdapter.sendMessage: observeTurnStarted.             *)
StartWatchedTurn ==
    /\ ~watched /\ watched' = TRUE /\ erred' = FALSE /\ Spend("turns", MaxWatched)
    /\ lastStatus' = "running"
    /\ queuedJob' \in {queuedJob, FALSE}
    /\ Reconcile(SetState(view, "running", TRUE))
    /\ UNCHANGED <<request, savedIncident, unsavedEnd, overdue, misled>>

(* The adapter's event and the audit's request_received, in either order.  *)
AskInTurn(w) ==
    /\ InTurn /\ request[w] = "none"
    /\ KoeRequests([request EXCEPT ![w] = "asked"])
    /\ lastStatus' = "waiting_for_input"
    /\ Reconcile(RecordPending(ObserveStatus(view, "waiting_for_input"), w))
    /\ UNCHANGED <<watched, erred, spent, misled>> /\ UNCHANGED Elsewhere

(* controls_attached, card_posted: the request may have been settled, and  *)
(* the turn may be over, while the card was being posted.                  *)
AttachControls(w) ==
    /\ request[w] \in {"asked", "settled"} /\ Spend("signals", MaxSignals)
    /\ KoeRequests([request EXCEPT ![w] = IF @ = "asked" THEN "shown" ELSE @])
    /\ Reconcile(MarkVisible(view, w))
    /\ misled' = (misled \/ request[w] = "settled")
    /\ UNCHANGED <<watched, erred, lastStatus>> /\ UNCHANGED Elsewhere

(* A request is answered, expires or is resolved elsewhere: an event or an *)
(* audit names it, or only the status tells.                               *)
SettleInTurn(w) ==
    /\ InTurn /\ request[w] \in {"asked", "shown"}
    /\ KoeRequests([request EXCEPT ![w] = "settled"])
    /\ \/ Reconcile(ClearPending(view, w)) /\ UNCHANGED <<lastStatus, misled>>
       \/ /\ Reconcile(ObserveStatus(view, "running")) /\ lastStatus' = "running"
          /\ misled' = (misled \/ \E other \in WaitIds \ {w} :
                                     request[other] \in {"asked", "shown"})
    /\ UNCHANGED <<watched, erred, spent>> /\ UNCHANGED Elsewhere

(* An audit of its end that comes late.                                    *)
TerminalizeCard(w) ==
    /\ request[w] = "settled" /\ w \in view.pending
    /\ Reconcile(ClearPending(view, w))
    /\ UNCHANGED <<watched, erred, request, lastStatus, overdue, misled, spent>>
    /\ UNCHANGED Elsewhere

(* Text and tools; an error event.                                         *)
ObserveEvent ==
    /\ InTurn /\ Spend("signals", MaxSignals)
    /\ \/ /\ \E tools \in BOOLEAN : Reconcile(Progress([view EXCEPT !.tools = tools]))
          /\ UNCHANGED erred
       \/ Reconcile(SetState(view, "failed", TRUE)) /\ erred' = TRUE
    /\ UNCHANGED <<watched, request, lastStatus, overdue, misled>> /\ UNCHANGED Elsewhere

(* The last status of the turn.                                            *)
FinalStatus ==
    /\ InTurn
    /\ lastStatus' \in {"idle", "failed"}
    /\ Reconcile(ObserveStatus(view, lastStatus'))
    /\ KoeRequests([w \in WaitIds |-> IF request[w] = "none" THEN "none" ELSE "settled"])
    /\ UNCHANGED <<watched, erred, spent, misled>> /\ UNCHANGED Elsewhere

(* finally: observeTurnTerminal, also of a turn that threw or was left.    *)
EndWatchedTurn ==
    /\ watched /\ watched' = FALSE
    /\ \E threw \in BOOLEAN : Reconcile(ObserveTerminal(view, erred \/ threw))
    /\ lastStatus' = IF InTurn THEN "idle" ELSE lastStatus
    /\ KoeRequests([w \in WaitIds |-> IF request[w] = "none" THEN "none" ELSE "settled"])
    /\ UNCHANGED <<erred, spent, misled>> /\ UNCHANGED Elsewhere

(* The app-server has closed its connection.                               *)
LoseConnection ==
    /\ view.connection = "up" /\ Spend("signals", MaxSignals)
    /\ view' = SetState([view EXCEPT !.connection = "lost"], "unknown", FALSE)
    /\ UNCHANGED <<incident, announced, watched, erred, request, lastStatus, overdue, misled>>
    /\ UNCHANGED Elsewhere

QueueDelegation ==
    /\ ~queuedJob /\ Spend("signals", MaxSignals) /\ queuedJob' = TRUE
    /\ UNCHANGED <<watched, erred, request, lastStatus, view, incident, savedIncident, announced,
                   unsavedEnd, overdue, misled>>

-----------------------------------------------------------------------------

(* buildWorkMonitorObservations: only a turn in this process counts.       *)
Observation ==
    IF watched THEN IF lastStatus = "idle" THEN "terminal" ELSE lastStatus
    ELSE IF queuedJob THEN "queued"
    ELSE CASE lastStatus = "idle" -> "terminal"
           [] lastStatus = "failed" -> "failed"
           [] OTHER -> "unknown"

(* reconcileRuntime: what the registry says counts when it is certain or   *)
(* the monitor knows nothing.                                              *)
Observed(v) ==
    IF \/ Observation \in {"failed", "terminal", "waiting_for_input", "unknown"}
       \/ v.state = "unknown" /\ v.connection = "up"
       \/ Observation = "queued" /\ v.state = "terminal"
      THEN SetState(v, Observation, FALSE) ELSE v

(* Half a minute passes, and perhaps the threshold of stalled work, unless *)
(* the registry tells of a later progress.                                 *)
PeriodPasses ==
    /\ Spend("signals", MaxSignals)
    /\ \E long \in BOOLEAN :
          Reconcile(Observed([view EXCEPT
             !.late = view.pending, !.stateLate = TRUE, !.stalled = long,
             !.connection = IF @ = "lost" THEN "lost long" ELSE @]))
    /\ overdue' = {w \in WaitIds : request[w] = "asked"}
    /\ UNCHANGED <<watched, erred, request, lastStatus, misled>> /\ UNCHANGED Elsewhere

(* persist, with whatever else the state file holds.                       *)
SaveSnapshot ==
    /\ savedIncident # incident
    /\ savedIncident' = incident
    /\ UNCHANGED <<watched, erred, request, lastStatus, queuedJob, view, incident, announced,
                   unsavedEnd, overdue, misled, spent>>

(* Mutant of LoadSnapshot (no code): incidents are forgotten once closed.  *)
LoadOpenOnly ==
    incident' = [r \in Reasons |-> IF savedIncident[r] % 2 = 1 THEN savedIncident[r] ELSE 0]

(* The constructor, from the state file; observeConnection(true) while the *)
(* runtime is put together closes a lost connection.                       *)
LoadSnapshot ==
    incident' = [r \in Reasons |->
                   IF r = "connection_lost" /\ savedIncident[r] % 2 = 1
                     THEN savedIncident[r] + 1 ELSE savedIncident[r]]

(* The worker ends, with its turn, and is replaced; a running session is   *)
(* recovered as interrupted.                                               *)
ReplaceWorker ==
    /\ Spend("workers", MaxWorkers)
    /\ unsavedEnd' = (unsavedEnd \/ savedIncident # incident)
    /\ LoadSnapshot
    /\ announced' = [announced EXCEPT !["connection_lost"] = incident'["connection_lost"]]
    /\ view' = KnowsNothing
    /\ watched' = FALSE /\ erred' = FALSE
    /\ lastStatus' = IF lastStatus = "failed" THEN "failed" ELSE "idle"
    /\ KoeRequests([w \in WaitIds |-> IF request[w] = "none" THEN "none" ELSE "over"])
    /\ UNCHANGED <<queuedJob, savedIncident, misled>>

MonitorNext ==
    \/ StartWatchedTurn \/ ObserveEvent \/ FinalStatus \/ EndWatchedTurn \/ LoseConnection
    \/ QueueDelegation \/ PeriodPasses \/ SaveSnapshot \/ ReplaceWorker
    \/ \E w \in WaitIds : AskInTurn(w) \/ AttachControls(w) \/ SettleInTurn(w) \/ TerminalizeCard(w)

MonitorSpec == MonitorInit /\ [][MonitorNext]_monitorVars

-----------------------------------------------------------------------------

(* Every change of an incident is announced once, under its own number, in *)
(* whatever process it happens: what the next process loads is what has    *)
(* been announced, unless its predecessor ended before it saved it.        *)
EachChangeAnnouncedOnce ==
    [][~unsavedEnd' => \A r \in Reasons :
          announced'[r] # announced[r] => announced'[r] = announced[r] + 1]_monitorVars

(* A request that has had no card for half a minute has an open incident,  *)
(* whatever other events of its turn, and of turns and processes before it,*)
(* the monitor has seen, while the turn shows no other card.  (Two things  *)
(* mislead it, see the README.)                                            *)
HiddenWaitIsReported ==
    ~misled /\ overdue # {} /\ (\A w \in WaitIds : request[w] # "shown") =>
        incident["hidden_approval_wait"] % 2 = 1
=============================================================================

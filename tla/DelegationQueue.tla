-------------------------- MODULE DelegationQueue --------------------------
(***************************************************************************)
(* The durable agent.send queue of RuntimeMcpService (mcp/runtime-service) *)
(* over the registry's queuedDelegations (core/registry.ts) and their copy *)
(* in state.json.                                                          *)
(*                                                                         *)
(* A job is admitted, run as a turn of its target Koe, possibly paused for *)
(* the jobs that turn sent in its own name (its children), and answered:   *)
(* to its parent job, or to the Slack thread it came from by one injected  *)
(* continuation turn with a raw Slack reply as the fallback.  Every change *)
(* of the queue is a mutation: replace the registry's list, await the save *)
(* of state.json, and put the previous list back when the save fails.      *)
(* Mutations are serialised, but everybody reads the list while one is in  *)
(* flight, other components save the whole state at any time, and the      *)
(* process may crash between any two steps.                                *)
(*                                                                         *)
(* The wait for the target's turn lease is a nondeterministic delay here   *)
(* (TurnLease models it), message contents are left out, and job ids are   *)
(* numbers in order of createdAt.                                          *)
(***************************************************************************)
EXTENDS Naturals, FiniteSets, FiniteSetsExt

CONSTANTS
    Agents,             \* Koe ids
    MaxJobs,            \* bound: agent.send calls made in a behaviour
    MaxPerTarget,       \* MAX_QUEUED_DELEGATIONS_PER_TARGET
    MaxDiskFailures,    \* bound: failed saves in a behaviour
    MaxRestarts,        \* bound: ends of the process followed by a new one
    MaxSends,           \* bound: agent.send calls a job's turns or a continuation makes
    MaxHumanSends,      \* bound: agent.send calls turns of human messages make
    Drains,             \* the process may be told to drain or to shut down
    DeliveryFails,      \* a continuation turn or a Slack call may fail
    LateAdmission,      \* an agent.send may outlive the turn that called it
    CanDecline          \* the queue TTL may run out, and bindings may change

ASSUME BoundsAssumption ==
    /\ MaxJobs \in Nat \ {0}
    /\ MaxPerTarget \in Nat \ {0}
    /\ MaxSends \in Nat \ {0}
    /\ MaxHumanSends \in Nat \ {0}
    /\ MaxDiskFailures \in Nat
    /\ MaxRestarts \in Nat
    /\ Drains \in BOOLEAN
    /\ DeliveryFails \in BOOLEAN
    /\ LateAdmission \in BOOLEAN
    /\ CanDecline \in BOOLEAN

Jobs == 1 .. MaxJobs
NoJob == 0

VARIABLES
    phase,              \* "up", "draining" or "stopping" (shutdown)
    jobs,               \* the registry's queuedDelegations
    handled, used,      \* handledDelegationResults, usedContinuationDelegations
    disk,               \* state.json
    mut, prev,          \* the mutation in flight, and the list it replaced
    send,               \* the agent.send call that creates each job,
    target, source,     \*   its target, the turn it was captured in,
    derived,            \*   and the continuation it was found to be part of
    worker,             \* #queueWorkers and #queueBlockedTargetIds
    delivery,           \* #deliveryWorkers and #deliveryBlockedJobIds
    diskFailures, restarts,
    execs, conts, shown, told, absorbed     \* history: see below

(* execs[j]: times the message of j was given to its target's adapter.     *)
(* conts[j]: times the result of j was given to its source's adapter.      *)
(* shown[j]: times the result of j was posted to its source's thread.      *)
(* told[j]: times the result of j was given to the turn that resumed its   *)
(* parent.  absorbed: children whose result has been saved in their parent.*)
history == <<execs, conts, shown, told>>
memory == <<jobs, handled, used>>
storage == <<disk, mut, prev, diskFailures, absorbed>>
calls == <<send, target, source, derived>>
vars == <<phase, memory, storage, calls, worker, delivery, restarts, history>>

-----------------------------------------------------------------------------

JobStates == {"queued", "running", "waiting_for_children", "result_pending", "delivering"}

(* Which outcome a job has matters to nobody but its reader; that it has   *)
(* one is its state.  A failed turn is remembered as "failed", or "cut"    *)
(* short: unknown, cancelled or expired.  text is the set of children      *)
(* whose results the text of the outcome preserves.                        *)
Failures == {"none", "failed", "cut"}

JobRecord == [state: JobStates, pending: SUBSET Jobs, childOutcomes: SUBSET Jobs,
              turnFailure: Failures, resume: SUBSET Jobs, text: SUBSET Jobs,
              bound: BOOLEAN, fenced: BOOLEAN]

NewJob == [state |-> "queued", pending |-> {}, childOutcomes |-> {}, turnFailure |-> "none",
           resume |-> {}, text |-> {}, bound |-> FALSE, fenced |-> FALSE]

Queues == UNION {[S -> JobRecord] : S \in SUBSET Jobs}
EmptyQueue == [j \in {} |-> NewJob]

(* A Slack turn: a human message's (of = NoJob) or a job's continuation.   *)
SlackTurn(c) == [kind |-> "slack", of |-> c]
JobTurn(p) == [kind |-> "job", of |-> p]
NoTurn == [kind |-> "none", of |-> NoJob]

Nobody == [by |-> "nobody", of |-> NoJob]
Sender(j) == [by |-> "send", of |-> j]
Worker(a) == [by |-> "worker", of |-> a]
Deliverer(j) == [by |-> "delivery", of |-> j]
Recoverer == [by |-> "recovery", of |-> NoJob]

WorkerStates == {"off", "scan", "exiting", "record", "wait", "start", "project", "turn",
                 "settle", "blocked"}
DeliveryStates == {"off", "deliver", "accept", "save", "inject", "turn", "raw", "remove",
                   "removeShown", "fallback", "removeFallback", "restore", "blocked"}
NoWork == [pc |-> "off", job |-> NoJob, result |-> "completed", resume |-> {}]

TypeOK ==
    /\ phase \in {"up", "draining", "stopping"}
    /\ DOMAIN jobs \subseteq Jobs /\ \A j \in DOMAIN jobs : jobs[j] \in JobRecord
    /\ DOMAIN disk.jobs \subseteq Jobs /\ \A j \in DOMAIN disk.jobs : disk.jobs[j] \in JobRecord
    /\ DOMAIN prev \subseteq Jobs /\ \A j \in DOMAIN prev : prev[j] \in JobRecord
    /\ handled \subseteq Jobs /\ disk.handled \subseteq Jobs
    /\ used \subseteq Jobs /\ disk.used \subseteq Jobs
    /\ send \in [Jobs -> {"none", "captured", "ready", "accepted", "refused"}]
    /\ target \in [Jobs -> Agents]
    /\ source \in [Jobs -> [kind: {"none", "slack", "job"}, of: Jobs \cup {NoJob}]]
    /\ derived \in [Jobs -> Jobs \cup {NoJob}]
    /\ worker \in [Agents -> [pc: WorkerStates, job: Jobs \cup {NoJob},
                              result: {"completed", "failed", "cut"}, resume: SUBSET Jobs]]
    /\ delivery \in [Jobs -> DeliveryStates]
    /\ diskFailures \in 0 .. MaxDiskFailures
    /\ restarts \in 0 .. MaxRestarts
    /\ execs \in [Jobs -> Nat] /\ conts \in [Jobs -> Nat]
    /\ shown \in [Jobs -> Nat] /\ told \in [Jobs -> Nat]
    /\ absorbed \subseteq Jobs

Init ==
    /\ phase = "up"
    /\ jobs = EmptyQueue /\ handled = {} /\ used = {}
    /\ disk = [jobs |-> EmptyQueue, handled |-> {}, used |-> {}]
    /\ mut = Nobody /\ prev = EmptyQueue
    /\ send = [j \in Jobs |-> "none"]
    /\ target \in [Jobs -> Agents]
    /\ source = [j \in Jobs |-> NoTurn]
    /\ derived = [j \in Jobs |-> NoJob]
    /\ worker = [a \in Agents |-> NoWork]
    /\ delivery = [j \in Jobs |-> "off"]
    /\ diskFailures = 0 /\ restarts = 0
    /\ execs = [j \in Jobs |-> 0] /\ conts = [j \in Jobs |-> 0]
    /\ shown = [j \in Jobs |-> 0] /\ told = [j \in Jobs |-> 0]
    /\ absorbed = {}

-----------------------------------------------------------------------------
(* What replaceQueuedDelegations accepts.                                  *)

Parent(j) == IF source[j].kind = "job" THEN source[j].of ELSE NoJob
Ended == {"result_pending", "delivering"}

(* validateQueuedDelegation; that a job has an outcome exactly when it has *)
(* ended holds by the choice of the record.                                *)
ValidJob(j, r) ==
    /\ r.pending \cap r.childOutcomes = {}
    /\ r.state = "waiting_for_children" => r.pending # {}
    /\ r.resume # {} => r.state = "queued"
    /\ r.turnFailure # "none" => r.state \in {"waiting_for_children", "queued"}
    /\ r.fenced => source[j].kind = "slack" /\ r.state \in Ended

(* Each job, the capacity, and the family tree in both directions.  Ids    *)
(* grow from parent to child, so the cycle check has nothing to find.      *)
ValidQueue(q) ==
    /\ \A a \in Agents : Cardinality({j \in DOMAIN q : target[j] = a}) <= MaxPerTarget
    /\ \A j \in DOMAIN q :
        /\ ValidJob(j, q[j])
        /\ Parent(j) # NoJob => Parent(j) \in DOMAIN q /\ j \in q[Parent(j)].pending
        /\ \A c \in q[j].pending : c \in DOMAIN q /\ Parent(c) = j

With(q, j, r) == [i \in DOMAIN q \cup {j} |-> IF i = j THEN r ELSE q[i]]
Without(q, j) == [i \in DOMAIN q \ {j} |-> q[i]]

(* jobs.map((job) => job.id === j ? r : job): nothing if j is not listed.  *)
Rewrite(j, R(_)) == [i \in DOMAIN jobs |-> IF i = j THEN R(jobs[i]) ELSE jobs[i]]

(* resultPendingQueuedJob, withoutQueuedResumeMessage, runningQueuedJob.   *)
ResultPending(r) == [r EXCEPT !.state = "result_pending", !.resume = {}]
Waiting(r) == [r EXCEPT !.state = "waiting_for_children", !.resume = {}]
Running(r) == [r EXCEPT !.state = "running", !.resume = {}, !.bound = TRUE]

(* A parent resumed with results it goes on holding (no code).             *)
SettleParentKeeps(r) ==
    IF r.pending # {} \/ r.childOutcomes = {} THEN r
    ELSE [r EXCEPT !.state = "queued", !.resume = r.childOutcomes]

(* settleParentAfterChildren and queuedParentContinuation: a turn that was *)
(* cut short answers with its own failure, any other is queued again with  *)
(* the children's results as its next message.                             *)
SettleParent(r) ==
    IF r.pending # {} \/ r.childOutcomes = {} THEN r
    ELSE IF r.turnFailure = "cut"
         THEN ResultPending([r EXCEPT !.turnFailure = "none", !.childOutcomes = {},
                                         !.text = r.childOutcomes])
         ELSE [r EXCEPT !.state = "queued", !.turnFailure = "none", !.childOutcomes = {},
                        !.resume = r.childOutcomes]

(* A turn that ends without a look at its pending children (no code).      *)
SettledAlone(r, result) == ResultPending(r)

(* The end of a turn: the last mutation of #runQueuedDelegationTurn, and   *)
(* #settleQueuedTurnFailure.                                               *)
Settled(r, result) ==
    IF r.pending = {} /\ r.childOutcomes = {} THEN ResultPending(r)
    ELSE LET f == IF result = "completed" THEN r ELSE [r EXCEPT !.turnFailure = result]
         IN  IF f.pending # {} THEN Waiting(f) ELSE SettleParent(f)

-----------------------------------------------------------------------------
(* #mutateQueuedDelegations and the saves of state.json.                   *)

Snapshot == [jobs |-> jobs, handled |-> handled, used |-> used]
Joins(q) == UNION {q[p].childOutcomes \cup q[p].resume \cup q[p].text : p \in DOMAIN q}
Save == disk' = Snapshot /\ absorbed' = absorbed \cup Joins(jobs)

(* The synchronous half: transform, validate, replace; the save is queued. *)
BeginMutation(actor, next) ==
    /\ mut = Nobody
    /\ ValidQueue(next)
    /\ jobs' = next /\ prev' = jobs /\ mut' = actor
    /\ UNCHANGED <<disk, absorbed, diskFailures>>

(* The save of the mutation in flight has been renamed into place.         *)
CommitMutation(actor) ==
    /\ mut = actor
    /\ Save
    /\ mut' = Nobody /\ prev' = EmptyQueue
    /\ UNCHANGED <<memory, diskFailures>>

(* The save of the mutation in flight failed: the old list is put back.    *)
RollBack(actor) ==
    /\ mut = actor
    /\ diskFailures < MaxDiskFailures
    /\ diskFailures' = diskFailures + 1
    /\ jobs' = prev /\ mut' = Nobody /\ prev' = EmptyQueue
    /\ UNCHANGED <<disk, absorbed>>

(* A new list that replaceQueuedDelegations refuses.                       *)
Refuse(next) == mut = Nobody /\ ~ValidQueue(next) /\ UNCHANGED <<jobs, storage>>

(* Any other component saves the whole state: Gateway and Router after     *)
(* each status change.  It writes a mutation in flight along.  Only a next *)
(* process reads what it wrote.                                            *)
OtherSave ==
    /\ restarts < MaxRestarts
    /\ disk # Snapshot
    /\ Save
    /\ UNCHANGED <<phase, memory, mut, prev, diskFailures, calls, worker, delivery,
                   restarts, history>>

(* #scheduleTargetQueue and #scheduleQueuedDelivery.                       *)
WakeWorker(w, a) ==
    IF phase = "up" /\ w[a].pc = "off" THEN [w EXCEPT ![a].pc = "scan"] ELSE w
WakeDelivery(d, j) ==
    IF phase = "up" /\ d[j] = "off" THEN [d EXCEPT ![j] = "deliver"] ELSE d

(* What the code schedules for job j of the current list after a mutation. *)
ScheduledWorkers(w, j) ==
    IF j \in DOMAIN jobs /\ jobs[j].state = "queued" THEN WakeWorker(w, target[j]) ELSE w
ScheduledDeliveries(d, j) ==
    IF j \in DOMAIN jobs /\ jobs[j].state = "result_pending" THEN WakeDelivery(d, j) ELSE d

-----------------------------------------------------------------------------
(* agent.send: #executeAgentSend.                                          *)

(* The turn an agent.send is captured in is still the Koe's active turn.   *)
TurnOpen(t) ==
    CASE t.kind = "job" -> t.of \in DOMAIN jobs
                           /\ worker[target[t.of]].pc = "turn" /\ worker[target[t.of]].job = t.of
      [] t.kind = "slack" /\ t.of # NoJob -> delivery[t.of] = "turn"
      [] OTHER -> TRUE

SendsOf(t) == {j \in Jobs : send[j] # "none" /\ source[j] = t}
InFlight == {j \in Jobs : send[j] \in {"captured", "ready"}}

(* Without LateAdmission a turn waits for the tool calls it made.          *)
MayClose(t) == LateAdmission \/ SendsOf(t) \cap InFlight = {}

(* A Koe calls agent.send: #captureQueuedDelegationSource reads its active *)
(* turn, then the call waits for the approval coordinator.                 *)
CaptureSend(j, t) ==
    /\ phase = "up"
    /\ send[j] = "none" /\ \A i \in Jobs : i < j => send[i] # "none"
    /\ TurnOpen(t)
    /\ Cardinality(SendsOf(t)) < (IF t.of = NoJob THEN MaxHumanSends ELSE MaxSends)
    /\ send' = [send EXCEPT ![j] = "captured"]
    /\ source' = [source EXCEPT ![j] = t]
    /\ UNCHANGED <<phase, memory, storage, target, derived, worker, delivery, restarts, history>>

(* Allowed: Router.deriveDelegationContext looks at the Koe's active turn  *)
(* of now, which may be another one than was captured.                     *)
DeriveSend(j, c) ==
    /\ send[j] = "captured"
    /\ \/ /\ TurnOpen(source[j])
          /\ c = IF source[j].kind = "slack" THEN source[j].of ELSE NoJob
       \/ /\ LateAdmission
          /\ source[j] = SlackTurn(NoJob) \/ ~TurnOpen(source[j])
          /\ c # NoJob => delivery[c] = "turn"
    /\ send' = [send EXCEPT ![j] = "ready"]
    /\ derived' = [derived EXCEPT ![j] = c]
    /\ UNCHANGED <<phase, memory, storage, target, source, worker, delivery, restarts, history>>

DenySend(j) ==
    /\ send[j] = "captured"
    /\ send' = [send EXCEPT ![j] = "refused"]
    /\ UNCHANGED <<phase, memory, storage, target, source, derived, worker, delivery,
                   restarts, history>>

(* The transform of the admission: the job, and its id in the job that     *)
(* sent it, whatever state that job has got to since.                      *)
Admitted(j) ==
    LET p == Parent(j)
    IN  With(IF p \in DOMAIN jobs THEN Rewrite(p, LAMBDA r : [r EXCEPT !.pending = @ \cup {j}])
             ELSE jobs, j, NewJob)

(* Admission without a look at the consumed continuations (no code).       *)
AdmitSibling(j) ==
    /\ send[j] = "ready"
    /\ BeginMutation(Sender(j), Admitted(j))
    /\ used' = used \cup ({derived[j]} \ {NoJob})
    /\ UNCHANGED <<phase, handled, calls, worker, delivery, restarts, history>>

BeginAdmission(j) ==
    /\ send[j] = "ready"
    /\ derived[j] \notin used
    /\ BeginMutation(Sender(j), Admitted(j))
    /\ used' = used \cup ({derived[j]} \ {NoJob})
    /\ UNCHANGED <<phase, handled, calls, worker, delivery, restarts, history>>

(* The continuation already started its next step, or the list is full or  *)
(* would be inconsistent.                                                  *)
RefuseSend(j) ==
    /\ send[j] = "ready" /\ mut = Nobody
    /\ derived[j] \in used \/ ~ValidQueue(Admitted(j))
    /\ send' = [send EXCEPT ![j] = "refused"]
    /\ UNCHANGED <<phase, memory, storage, target, source, derived, worker, delivery,
                   restarts, history>>

(* An answer that does not wait for the save (no code).                    *)
AcceptBeforeSave(j) ==
    /\ send[j] = "ready" /\ mut = Sender(j)
    /\ send' = [send EXCEPT ![j] = "accepted"]
    /\ UNCHANGED <<phase, memory, storage, target, source, derived, worker, delivery,
                   restarts, history>>

AcceptSend(j) ==
    /\ CommitMutation(Sender(j))
    /\ send' = [send EXCEPT ![j] = "accepted"]
    /\ worker' = WakeWorker(worker, target[j])
    /\ UNCHANGED <<phase, target, source, derived, delivery, restarts, history>>

RollBackSend(j) ==
    /\ RollBack(Sender(j))
    /\ used' = used \ {derived[j]}
    /\ send' = [send EXCEPT ![j] = "refused"]
    /\ UNCHANGED <<phase, handled, target, source, derived, worker, delivery, restarts, history>>

-----------------------------------------------------------------------------
(* The worker of a target: #runTargetQueue and #runQueuedDelegationTurn.   *)

QueuedFor(a) == {j \in DOMAIN jobs : target[j] = a /\ jobs[j].state = "queued"}

Goto(a, pc) == worker' = [worker EXCEPT ![a].pc = pc]
WorkerOnly == UNCHANGED <<phase, memory, storage, calls, delivery, restarts, history>>

(* The next turn of the loop: the oldest queued job, also of a list whose  *)
(* save is still in flight.                                                *)
PickJob(a) ==
    /\ worker[a].pc = "scan" /\ phase = "up" /\ QueuedFor(a) # {}
    /\ LET j == Min(QueuedFor(a))
       IN  worker' = [worker EXCEPT ![a] = [NoWork EXCEPT !.pc = "wait", !.job = j,
                                                          !.resume = jobs[j].resume]]
    /\ WorkerOnly

StopScanning(a) ==
    /\ worker[a].pc = "scan"
    /\ phase # "up" \/ QueuedFor(a) = {}
    /\ worker' = [worker EXCEPT ![a] = [NoWork EXCEPT !.pc = "exiting"]]
    /\ WorkerOnly

(* A worker that leaves without a second look (no code).                   *)
LeaveForGood(a) ==
    /\ worker[a].pc = "exiting"
    /\ Goto(a, "off")
    /\ WorkerOnly

(* .finally of #scheduleTargetQueue looks at the list once more: a job may *)
(* have been admitted since the loop found it empty.                       *)
LeaveWorker(a) ==
    /\ worker[a].pc = "exiting"
    /\ Goto(a, IF phase = "up" /\ QueuedFor(a) # {} THEN "scan" ELSE "off")
    /\ WorkerOnly

(* The TTL ran out, a binding or permission changed, or shutdown aborted   *)
(* the wait for the lease.                                                 *)
DeclineJob(a) ==
    /\ worker[a].pc = "wait"
    /\ CanDecline \/ phase = "stopping"
    /\ Goto(a, "record")
    /\ WorkerOnly

(* The lease is granted and Router.send has yielded delegation.started,    *)
(* after which the running state must be saved; or the job has gone.       *)
LeaseGranted(a) ==
    /\ worker[a].pc = "wait"
    /\ LET j == worker[a].job
       IN  Goto(a, IF j \in DOMAIN jobs /\ jobs[j].state = "queued" THEN "start" ELSE "scan")
    /\ WorkerOnly

(* Router.send fails before delegation.started, or the Slack projection of *)
(* a started job fails, or the save of its thread: an error of the turn.   *)
StartFails(a) ==
    /\ \/ worker[a].pc = "start" /\ mut # Worker(a)
       \/ worker[a].pc = "project"
    /\ worker' = [worker EXCEPT ![a].pc = "settle",
                                ![a].result = IF phase = "stopping" THEN "cut" ELSE "failed"]
    /\ WorkerOnly

BeginRunning(a) ==
    /\ worker[a].pc = "start"
    /\ BeginMutation(Worker(a), Rewrite(worker[a].job, Running))
    /\ UNCHANGED <<phase, handled, used, calls, worker, delivery, restarts, history>>

RunningSaved(a) ==
    /\ worker[a].pc = "start"
    /\ CommitMutation(Worker(a))
    /\ worker' = [worker EXCEPT
                    ![a].pc = IF worker[a].job \in DOMAIN jobs THEN "project" ELSE "settle",
                    ![a].result = IF worker[a].job \in DOMAIN jobs THEN @ ELSE "failed"]
    /\ UNCHANGED <<phase, calls, delivery, restarts, history>>

RunningNotSaved(a) ==
    /\ worker[a].pc = "start"
    /\ RollBack(Worker(a)) \/ Refuse(Rewrite(worker[a].job, Running))
    /\ worker' = [worker EXCEPT ![a].pc = "settle",
                                ![a].result = IF phase = "stopping" THEN "cut" ELSE "failed"]
    /\ UNCHANGED <<phase, handled, used, calls, delivery, restarts, history>>

(* The generator is resumed and calls adapter.sendMessage: with the        *)
(* children's results if the job is resumed, else with its message.        *)
RunTurn(a) ==
    LET j == worker[a].job
        resume == worker[a].resume
    IN  /\ worker[a].pc = "project" /\ phase # "stopping"
        /\ Goto(a, "turn")
        /\ execs' = [execs EXCEPT ![j] = IF resume = {} THEN @ + 1 ELSE @]
        /\ told' = [c \in Jobs |-> IF c \in resume THEN told[c] + 1 ELSE told[c]]
        /\ UNCHANGED <<phase, memory, storage, calls, delivery, restarts, conts, shown>>

TurnEnds(a, result) ==
    /\ worker[a].pc = "turn"
    /\ MayClose(JobTurn(worker[a].job))
    /\ worker' = [worker EXCEPT ![a].pc = "settle", ![a].result = result]
    /\ WorkerOnly

(* The two ways a job ends here: the turn settles it, or it is recorded    *)
(* as declined (#recordQueuedOutcome).                                     *)
EndOfJob(a) ==
    Rewrite(worker[a].job, LAMBDA r : IF worker[a].pc = "settle" THEN Settled(r, worker[a].result)
                                      ELSE ResultPending(r))

BeginEnd(a) ==
    /\ worker[a].pc \in {"settle", "record"}
    /\ BeginMutation(Worker(a), EndOfJob(a))
    /\ UNCHANGED <<phase, handled, used, calls, worker, delivery, restarts, history>>

EndSaved(a) ==
    /\ worker[a].pc \in {"settle", "record"}
    /\ CommitMutation(Worker(a))
    /\ delivery' = ScheduledDeliveries(delivery, worker[a].job)
    /\ worker' = [worker EXCEPT ![a] = [NoWork EXCEPT !.pc = "scan"]]
    /\ UNCHANGED <<phase, calls, restarts, history>>

(* The worker rejects: the target is blocked until the process ends.       *)
EndNotSaved(a) ==
    /\ worker[a].pc \in {"settle", "record"}
    /\ RollBack(Worker(a)) \/ Refuse(EndOfJob(a))
    /\ worker' = [worker EXCEPT ![a] = [NoWork EXCEPT !.pc = "blocked"]]
    /\ UNCHANGED <<phase, handled, used, calls, delivery, restarts, history>>

-----------------------------------------------------------------------------
(* The delivery of a result: #deliverQueuedDelegation.                     *)

IsChild(j) == Parent(j) # NoJob
Deliver(j, pc) == delivery' = [delivery EXCEPT ![j] = pc]
DeliveryOnly == UNCHANGED <<phase, memory, storage, calls, worker, restarts, history>>

(* To the parent: the child leaves the queue, its result joins the parent, *)
(* and a parent that waited for this child alone is settled.               *)
Joined(r, j) ==
    LET joined == [r EXCEPT !.pending = @ \ {j}, !.childOutcomes = @ \cup {j}]
    IN  IF r.state = "waiting_for_children" THEN SettleParent(joined) ELSE joined

(* To Slack: the fence, before anything is sent.                           *)
Fenced(r, state) == [r EXCEPT !.state = state, !.fenced = TRUE]

DeliveryChange(j) ==
    CASE delivery[j] = "deliver" /\ IsChild(j) ->
            Without(Rewrite(Parent(j), LAMBDA r : Joined(r, j)), j)
      [] delivery[j] = "deliver" /\ ~IsChild(j) ->
            Rewrite(j, LAMBDA r : Fenced(r, "delivering"))
      [] delivery[j] = "restore" -> Rewrite(j, LAMBDA r : Fenced(r, "result_pending"))
      [] OTHER -> Without(jobs, j)
Mutating == {"deliver", "remove", "removeShown", "removeFallback", "restore"}

(* The early return for a job that is no longer result_pending is never    *)
(* taken: nobody but its delivery touches such a job.                      *)
BeginDelivery(j) ==
    /\ delivery[j] \in Mutating
    /\ BeginMutation(Deliverer(j), DeliveryChange(j))
    /\ UNCHANGED <<phase, handled, used, calls, worker, delivery, restarts, history>>

AbsorbSaved(j) ==
    /\ delivery[j] = "deliver" /\ IsChild(j)
    /\ CommitMutation(Deliverer(j))
    /\ worker' = ScheduledWorkers(worker, Parent(j))
    /\ delivery' = ScheduledDeliveries([delivery EXCEPT ![j] = "off"], Parent(j))
    /\ UNCHANGED <<phase, calls, restarts, history>>

(* A result injected whether or not it was fenced before (no code).        *)
InjectAgain(j) ==
    /\ delivery[j] = "deliver" /\ ~IsChild(j)
    /\ CommitMutation(Deliverer(j))
    /\ Deliver(j, "accept")
    /\ UNCHANGED <<phase, calls, worker, restarts, history>>

(* A result that was fenced before this process is not injected again.     *)
FenceSaved(j) ==
    /\ delivery[j] = "deliver" /\ ~IsChild(j)
    /\ CommitMutation(Deliverer(j))
    /\ Deliver(j, IF prev[j].fenced THEN "fallback" ELSE "accept")
    /\ UNCHANGED <<phase, calls, worker, restarts, history>>

RemovalSaved(j) ==
    /\ delivery[j] \in {"remove", "removeShown", "removeFallback"}
    /\ CommitMutation(Deliverer(j))
    /\ Deliver(j, "off")
    /\ UNCHANGED <<phase, calls, worker, restarts, history>>

(* deliverQueuedDelegation answers false: blocked until the process ends.  *)
RestoreSaved(j) ==
    /\ delivery[j] = "restore"
    /\ CommitMutation(Deliverer(j))
    /\ Deliver(j, "blocked")
    /\ UNCHANGED <<phase, calls, worker, restarts, history>>

(* Where a mutation that fails leads: out of the worker, or to the catch   *)
(* clause around it.                                                       *)
DeliveryNotSaved(j) ==
    /\ delivery[j] \in Mutating
    /\ RollBack(Deliverer(j))
       \/ Refuse(DeliveryChange(j))
    /\ Deliver(j, CASE delivery[j] = "remove" -> "fallback"
                    [] delivery[j] = "removeFallback" -> "restore"
                    [] OTHER -> "blocked")
    /\ UNCHANGED <<phase, handled, used, calls, worker, restarts, history>>

(* Gateway.handleDelegationResult records the id, saves it, and only then  *)
(* opens the source's turn.                                                *)
RecordHandled(j) ==
    /\ delivery[j] = "accept"
    /\ handled' = handled \cup {j}
    /\ Deliver(j, "save")
    /\ UNCHANGED <<phase, jobs, used, storage, calls, worker, restarts, history>>

HandledSaved(j) ==
    /\ delivery[j] = "save"
    /\ Save
    /\ Deliver(j, "inject")
    /\ UNCHANGED <<phase, memory, mut, prev, diskFailures, calls, worker, restarts, history>>

HandledNotSaved(j) ==
    /\ delivery[j] = "save"
    /\ diskFailures < MaxDiskFailures
    /\ diskFailures' = diskFailures + 1
    /\ handled' = handled \ {j}
    /\ Deliver(j, "raw")
    /\ UNCHANGED <<phase, jobs, used, disk, absorbed, mut, prev, calls, worker, restarts,
                   history>>

(* The source's lease is granted and its session is still the same.        *)
InjectContinuation(j) ==
    /\ delivery[j] = "inject"
    /\ conts' = [conts EXCEPT ![j] = @ + 1]
    /\ Deliver(j, "turn")
    /\ UNCHANGED <<phase, memory, storage, calls, worker, restarts, execs, shown, told>>

(* The session changed, or the turn's event stream fails: the raw result.  *)
ContinuationFails(j) ==
    /\ DeliveryFails
    /\ delivery[j] \in {"inject", "turn"}
    /\ delivery[j] = "turn" => MayClose(SlackTurn(j))
    /\ Deliver(j, "raw")
    /\ DeliveryOnly

(* The turn ends: its final response is posted ("removeShown" if some      *)
(* other projection failed), or nothing could be posted.                   *)
ContinuationEnds(j, next) ==
    /\ delivery[j] = "turn" /\ MayClose(SlackTurn(j))
    /\ next = "remove" \/ DeliveryFails
    /\ shown' = [shown EXCEPT ![j] = IF next = "fallback" THEN @ ELSE @ + 1]
    /\ Deliver(j, next)
    /\ UNCHANGED <<phase, memory, storage, calls, worker, restarts, execs, conts, told>>

(* postRawResultFallback, and the slack.reply of the last resort.          *)
RawPosted(j) ==
    /\ delivery[j] \in {"raw", "fallback"}
    /\ shown' = [shown EXCEPT ![j] = @ + 1]
    /\ Deliver(j, IF delivery[j] = "raw" THEN "removeShown" ELSE "removeFallback")
    /\ UNCHANGED <<phase, memory, storage, calls, worker, restarts, execs, conts, told>>

RawNotPosted(j) ==
    /\ DeliveryFails
    /\ delivery[j] \in {"raw", "fallback"}
    /\ Deliver(j, IF delivery[j] = "raw" THEN "fallback" ELSE "restore")
    /\ DeliveryOnly

-----------------------------------------------------------------------------
(* The process.                                                            *)

(* A restart drains first; shutdown aborts what it can.                    *)
BeginDrain ==
    /\ Drains /\ phase = "up"
    /\ phase' = "draining"
    /\ UNCHANGED <<memory, storage, calls, worker, delivery, restarts, history>>

BeginShutdown ==
    /\ Drains /\ phase # "stopping"
    /\ phase' = "stopping"
    /\ UNCHANGED <<memory, storage, calls, worker, delivery, restarts, history>>

(* A recovery that runs again what was running (no code).                  *)
RecoveredReruns(q) ==
    [j \in DOMAIN q |-> IF q[j].state = "running" /\ q[j].pending = {}
                        THEN [q[j] EXCEPT !.state = "queued"] ELSE q[j]]

(* #recoverDelegationQueue: what was running is not run again, and what    *)
(* was being delivered is not injected again.                              *)
Recovered(q) ==
    [j \in DOMAIN q |->
        CASE q[j].state = "running" /\ q[j].pending # {} ->
                Waiting([q[j] EXCEPT !.turnFailure = "cut"])
          [] q[j].state = "running" /\ q[j].pending = {} -> ResultPending(q[j])
          [] q[j].state = "delivering" -> Fenced(q[j], "result_pending")
          [] OTHER -> q[j]]

(* The process ends, in a crash or not, at any moment; the next one reads  *)
(* state.json, and its recovery is the first mutation it makes.            *)
Restart ==
    /\ restarts < MaxRestarts
    /\ restarts' = restarts + 1
    /\ phase' = "up"
    /\ handled' = disk.handled /\ used' = disk.used
    /\ IF DOMAIN disk.jobs = {}
       THEN jobs' = EmptyQueue /\ mut' = Nobody /\ prev' = EmptyQueue
       ELSE jobs' = Recovered(disk.jobs) /\ mut' = Recoverer /\ prev' = disk.jobs
    /\ send' = [j \in Jobs |-> IF j \in InFlight THEN "refused" ELSE send[j]]
    /\ worker' = [a \in Agents |-> NoWork]
    /\ delivery' = [j \in Jobs |-> "off"]
    /\ UNCHANGED <<disk, absorbed, diskFailures, target, source, derived, history>>

RecoverySaved ==
    /\ CommitMutation(Recoverer)
    /\ worker' = [a \in Agents |-> IF phase = "up" /\ \E j \in DOMAIN jobs : target[j] = a
                                      /\ worker[a].pc = "off"
                                   THEN [NoWork EXCEPT !.pc = "scan"] ELSE worker[a]]
    /\ delivery' = [j \in Jobs |-> ScheduledDeliveries(delivery, j)[j]]
    /\ UNCHANGED <<phase, calls, restarts, history>>

(* Nothing is scheduled: the queue waits for the next process.             *)
RecoveryNotSaved ==
    /\ RollBack(Recoverer)
    /\ UNCHANGED <<phase, handled, used, calls, worker, delivery, restarts, history>>

-----------------------------------------------------------------------------

Turns == {SlackTurn(c) : c \in Jobs \cup {NoJob}} \cup {JobTurn(p) : p \in Jobs}

SendStep(j) ==
    \/ \E c \in Jobs \cup {NoJob} : DeriveSend(j, c)
    \/ BeginAdmission(j) \/ RefuseSend(j) \/ AcceptSend(j) \/ RollBackSend(j)

TurnStep(a) == \E result \in {"completed", "failed", "cut"} : TurnEnds(a, result)
WorkerStep(a) ==
    \/ PickJob(a) \/ StopScanning(a) \/ LeaveWorker(a)
    \/ LeaseGranted(a) \/ StartFails(a) \/ BeginRunning(a) \/ RunningSaved(a)
    \/ RunningNotSaved(a) \/ RunTurn(a) \/ TurnStep(a)
    \/ BeginEnd(a) \/ EndSaved(a) \/ EndNotSaved(a)

ContinuationStep(j) ==
    \/ RecordHandled(j) \/ HandledSaved(j) \/ HandledNotSaved(j)
    \/ InjectContinuation(j) \/ ContinuationFails(j)
    \/ \E next \in {"remove", "removeShown", "fallback"} : ContinuationEnds(j, next)
    \/ RawPosted(j) \/ RawNotPosted(j)
DeliveryStep(j) ==
    \/ BeginDelivery(j) \/ AbsorbSaved(j) \/ FenceSaved(j)
    \/ RemovalSaved(j) \/ RestoreSaved(j) \/ DeliveryNotSaved(j)
    \/ ContinuationStep(j)

Environment ==
    \/ \E j \in Jobs, t \in Turns : CaptureSend(j, t)
    \/ \E j \in Jobs : DenySend(j)
    \/ \E a \in Agents : DeclineJob(a)
    \/ OtherSave \/ BeginDrain \/ BeginShutdown \/ Restart

Next ==
    \/ Environment
    \/ \E j \in Jobs : SendStep(j) \/ DeliveryStep(j)
    \/ \E a \in Agents : WorkerStep(a)
    \/ RecoverySaved \/ RecoveryNotSaved

(* Every promise chain the process has started goes on: saves end, turns   *)
(* end, leases are granted (see TurnLease), Slack answers.                 *)
(* Calls, refusals, expiry and the end of the process are not fair.        *)
Fairness ==
    /\ \A j \in Jobs : WF_vars(SendStep(j)) /\ WF_vars(DeliveryStep(j))
    /\ \A a \in Agents : WF_vars(WorkerStep(a))
    /\ WF_vars(RecoverySaved)

SafetySpec == Init /\ [][Next]_vars
Spec == SafetySpec /\ Fairness

-----------------------------------------------------------------------------
(* Correctness.                                                            *)

(* The message of a job is given to its target's adapter at most once and  *)
(* its result to its source's adapter at most once, over crashes, failed   *)
(* saves and recoveries: "it was not re-executed because its external      *)
(* outcome is unknown", and the fences of #deliverQueuedDelegation.        *)
AtMostOnce == \A j \in Jobs : execs[j] <= 1 /\ conts[j] <= 1

(* Why that is so.  What a new process would read already says of a job    *)
(* whose message is out that it is bound to a session and not waiting for  *)
(* its first turn, and of a result whose continuation has begun that it is *)
(* fenced and handled: both are saved before the adapter is called.        *)
FencedOnDisk ==
    \A j \in DOMAIN disk.jobs :
        /\ execs[j] > 0 => /\ disk.jobs[j].bound
                           /\ disk.jobs[j].state = "queued" => disk.jobs[j].resume # {}
        /\ conts[j] > 0 => disk.jobs[j].fenced /\ j \in disk.handled

(* agent.send answers "queued" only for a job that no crash can lose: it   *)
(* stays in state.json until its result is in the source's thread or, with *)
(* the same save, in its parent job.                                       *)
AcceptedIsDurable ==
    \A j \in Jobs : send[j] = "accepted" =>
        j \in DOMAIN disk.jobs \/ shown[j] > 0 \/ j \in absorbed

(* Gateway.handleDelegationResult never refuses a queued result as already *)
(* handled.  #deliverQueuedDelegation would take that silent refusal for a *)
(* delivery and remove a result nobody was shown.                          *)
NeverMistakenForHandled == \A j \in Jobs : delivery[j] = "accept" => j \notin handled

(* As long as no save fails, a resumed parent is told the result of a      *)
(* child once: neither again after a crash, nor by a worker that saw the   *)
(* parent queued before the save of that list.                             *)
ChildResultToldOnce == diskFailures = 0 => \A j \in Jobs : told[j] <= 1

(* docs/architecture.md: parent jobs wait for queued child results before  *)
(* returning a final result.                                               *)
ParentWaitsForChildren ==
    \A p \in DOMAIN jobs : jobs[p].state \in Ended => jobs[p].pending = {}

(* docs/architecture.md: one continuation is consumed by its next          *)
(* delegation; a second sibling send from that turn is rejected.           *)
OneStepPerContinuation ==
    \A i, j \in Jobs :
        /\ send[i] = "accepted" /\ source[i].kind = "slack" /\ source[i].of # NoJob
        /\ send[j] = "accepted" /\ source[j] = source[i]
        => i = j

(* docs/operations.md: accepted ids are persisted so handled results are   *)
(* not projected twice after a restart.                                    *)
HandledResultNotProjectedTwice == \A j \in Jobs : j \in disk.handled => shown[j] <= 1

(* The queue implements DelegationPromise when no save and no Slack call   *)
(* fails and a turn waits for the sends it has made: a job is run once, its*)
(* result is shown, or joined to its parent, after those of its children,  *)
(* and it does come: no worker goes to sleep on a queued job, and no family*)
(* waits for itself.                                                       *)
Promise == INSTANCE DelegationPromise WITH
    accepted <- {j \in Jobs : send[j] = "accepted"},
    children <- [p \in Jobs |-> {j \in Jobs : send[j] = "accepted" /\ Parent(j) = p}],
    started <- {j \in Jobs : execs[j] > 0},
    answered <- {j \in Jobs : shown[j] > 0} \cup absorbed
ImplementsPromise == Promise!PromiseSpec
=============================================================================

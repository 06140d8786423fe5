-------------------------- MODULE SystemRejections --------------------------
(***************************************************************************)
(* approvals/workspace-git-system-rejection-coordinator.ts: a rejection    *)
(* that no human made is first saved as an intent and then told to the     *)
(* private broker of workspace-git, again and again, across turns and      *)
(* processes, until the broker has it, can no longer take it, or the plan  *)
(* is late.  Its caller here is the worker of a session in the Codex       *)
(* adapter (#startExternalGitRejectionWorker): a plan whose question ended *)
(* elsewhere may no longer be approved, and Slack is told so only once its *)
(* rejection is recorded; what cannot be recorded is tried again until the *)
(* plan is late.  A host passes recordRejection to the adapter as          *)
(* recordExternallyResolvedGitPlan.                                        *)
(*                                                                         *)
(* Changes of the records are serialized (#mutate), each with its save;    *)
(* one attempt runs for a record at a time (#running).  Saves and broker   *)
(* calls may fail, the process may end anywhere.                           *)
(***************************************************************************)
EXTENDS Naturals, Sequences, FiniteSets

CONSTANTS
    Operations,         \* plans to be rejected, by operation
    MaxBrokerFailures,  \* bound on transient failures of the broker and of saves
    MaxCoordinators     \* bound on processes

VARIABLES
    caller,         \* plan -> where the worker is with it: none, queued, in
                    \* recordRejection, recorded, refused, told, expired
    records,        \* #records
    intentFile,     \* the records of the last save
    mutations,      \* #mutationQueue: additions and removals
    saving,         \* the head of the queue is being saved
    attemptOf,      \* plan -> where its #runAttempt is
    retryTimer,     \* #cancelRetry
    overdue,        \* plans that are past their expiry
    broker,         \* workspace-git's status of a plan
    failures,       \* bounded failures so far
    coordinator,    \* processes so far
    closed          \* #closed

rejectionVars == <<caller, records, intentFile, mutations, saving, attemptOf, retryTimer, overdue,
                   broker, failures, coordinator, closed>>
environment == <<overdue, broker, coordinator, closed>>

RejectionTypeOK ==
    /\ caller \in [Operations -> {"none", "queued", "adding", "trying", "recorded", "refused",
                                 "told", "expired"}]
    /\ {records, intentFile, retryTimer, overdue} \subseteq SUBSET Operations
    /\ \A i \in DOMAIN mutations : mutations[i] \in [op : {"add", "remove"}, plan : Operations]
    /\ saving \in BOOLEAN /\ closed \in BOOLEAN
    /\ attemptOf \in [Operations -> {"none", "asking", "removing"}]
    /\ broker \in [Operations -> {"pending", "rejected", "other"}]
    /\ failures \in 0..MaxBrokerFailures /\ coordinator \in 1..MaxCoordinators

RejectionInit ==
    /\ caller = [p \in Operations |-> "none"]
    /\ records = {} /\ intentFile = {} /\ mutations = <<>> /\ saving = FALSE
    /\ attemptOf = [p \in Operations |-> "none"] /\ retryTimer = {} /\ overdue = {}
    /\ broker \in [Operations -> {"pending", "other"}]
    /\ failures = 0 /\ coordinator = 1 /\ closed = FALSE

-----------------------------------------------------------------------------

CallerTo(p, from, to) == caller' = IF caller[p] = from THEN [caller EXCEPT ![p] = to] ELSE caller
Fails == failures < MaxBrokerFailures /\ failures' = failures + 1
Enqueued(op, p) == Append(mutations, [op |-> op, plan |-> p])

(* The worker.                                                             *)

WorkerOnly == UNCHANGED <<records, intentFile, mutations, saving, attemptOf, retryTimer, failures,
                          environment>>

(* waitForSystemRejections waits for these.                                *)
InHand == {"adding", "trying", "recorded", "refused"}
Unsettled == {p \in Operations : caller[p] \in InHand \cup {"queued"}}

(* The question of a plan ends elsewhere while its turn goes on.           *)
EnqueueExternalRejection(p) ==
    /\ ~closed /\ caller[p] = "none"
    /\ caller' = [caller EXCEPT ![p] = "queued"] /\ WorkerOnly

(* One plan after the other; a refused one comes again after a pause.      *)
RecordRejection(p) ==
    /\ caller[p] \in {"queued", "refused"} /\ p \notin overdue
    /\ \A q \in Operations \ {p} : caller[q] \notin InHand
    /\ caller' = [caller EXCEPT ![p] = "adding"] /\ mutations' = Enqueued("add", p)
    /\ UNCHANGED <<records, intentFile, saving, attemptOf, retryTimer, failures, environment>>

(* git_approval.resolved_externally, or git_approval.expired, also for one *)
(* that was recorded as it became late.                                    *)
TellSettlement(p) ==
    /\ caller' = [caller EXCEPT ![p] = IF p \in overdue THEN "expired" ELSE "told"]
    /\ \/ caller[p] = "recorded"
       \/ /\ caller[p] \in {"queued", "refused"} /\ p \in overdue
          /\ \A q \in Operations \ {p} : caller[q] \notin InHand
    /\ WorkerOnly

-----------------------------------------------------------------------------
(* The coordinator.                                                        *)

(* #attempt: the caller joins an attempt that runs, or starts one.         *)
Attempted(p) ==
    attemptOf' = IF attemptOf[p] = "none" THEN [attemptOf EXCEPT ![p] = "asking"] ELSE attemptOf

(* An intent already there needs no save, and one already gone none.       *)
BeginMutation ==
    /\ mutations # <<>> /\ ~saving
    /\ LET op == Head(mutations).op  p == Head(mutations).plan IN
         \/ /\ op = "add" /\ p \notin records /\ saving' = TRUE
            /\ records' = records \cup {p} /\ UNCHANGED <<caller, mutations, attemptOf>>
         \/ /\ op = "add" /\ p \in records /\ CallerTo(p, "adding", "trying") /\ Attempted(p)
            /\ mutations' = Tail(mutations) /\ UNCHANGED <<records, saving>>
         \/ /\ op = "remove" /\ p \in records /\ saving' = TRUE
            /\ records' = records \ {p} /\ UNCHANGED <<caller, mutations, attemptOf>>
    /\ UNCHANGED <<intentFile, retryTimer, failures, environment>>

(* The end of an attempt gives its caller an answer.                       *)
AttemptOver(p) == attemptOf' = [attemptOf EXCEPT ![p] = "none"]

(* Mutant of MutationSaved (no code): the addition is only remembered.     *)
MutationSavedLater ==
    /\ saving /\ saving' = FALSE /\ mutations' = Tail(mutations)
    /\ LET op == Head(mutations).op  p == Head(mutations).plan IN
         IF op = "add"
           THEN /\ CallerTo(p, "adding", "trying") /\ Attempted(p)
                /\ UNCHANGED <<retryTimer, intentFile>>
           ELSE /\ CallerTo(p, "trying", "recorded") /\ AttemptOver(p)
                /\ retryTimer' = retryTimer \ {p} /\ intentFile' = records
    /\ UNCHANGED <<records, failures, environment>>

MutationSaved ==
    /\ saving /\ saving' = FALSE /\ mutations' = Tail(mutations) /\ intentFile' = records
    /\ LET op == Head(mutations).op  p == Head(mutations).plan IN
         IF op = "add"
           THEN CallerTo(p, "adding", "trying") /\ Attempted(p) /\ UNCHANGED retryTimer
           ELSE CallerTo(p, "trying", "recorded") /\ AttemptOver(p) /\ retryTimer' = retryTimer \ {p}
    /\ UNCHANGED <<records, failures, environment>>

(* The change is rolled back; a removal is tried again later.              *)
MutationNotSaved ==
    /\ saving /\ Fails /\ saving' = FALSE /\ mutations' = Tail(mutations)
    /\ LET op == Head(mutations).op  p == Head(mutations).plan IN
         IF op = "add"
           THEN /\ records' = records \ {p} /\ CallerTo(p, "adding", "refused")
                /\ UNCHANGED <<attemptOf, retryTimer>>
           ELSE /\ records' = records \cup {p} /\ AttemptOver(p)
                /\ CallerTo(p, "trying", "recorded")
                /\ retryTimer' = IF closed THEN retryTimer ELSE retryTimer \cup {p}
    /\ UNCHANGED <<intentFile, environment>>

RetryTimerFires(p) ==
    /\ p \in retryTimer /\ retryTimer' = retryTimer \ {p} /\ Attempted(p)
    /\ UNCHANGED <<caller, records, intentFile, mutations, saving, failures, environment>>

(* #runAttempt: what is gone needs nothing, what is late is dropped, and   *)
(* the broker takes the rejection, cannot take it any more, or fails.      *)
NothingToAttempt(p) ==
    /\ attemptOf[p] = "asking" /\ (p \notin records \/ closed)
    /\ AttemptOver(p) /\ CallerTo(p, "trying", "recorded")
    /\ UNCHANGED <<records, intentFile, mutations, saving, retryTimer, failures, environment>>

Removing(p) == attemptOf' = [attemptOf EXCEPT ![p] = "removing"] /\ mutations' = Enqueued("remove", p)

DropOverdue(p) ==
    /\ attemptOf[p] = "asking" /\ p \in records /\ ~closed /\ p \in overdue /\ Removing(p)
    /\ UNCHANGED <<caller, records, intentFile, saving, retryTimer, failures, environment>>

BrokerTakes(p) ==
    /\ attemptOf[p] = "asking" /\ p \in records /\ broker[p] # "other"
    /\ broker' = [broker EXCEPT ![p] = "rejected"] /\ Removing(p)
    /\ UNCHANGED <<caller, records, intentFile, saving, retryTimer, failures, overdue, coordinator, closed>>

(* A permanent failure: the broker has another decision, no longer knows   *)
(* the plan, or finds it changed or late.  A conflict is told to the       *)
(* caller, whatever becomes of the record; the others settle like a        *)
(* rejection that was taken.                                               *)
BrokerCannot(p) ==
    /\ attemptOf[p] = "asking" /\ p \in records /\ broker[p] = "other"
    /\ Removing(p)
    /\ CallerTo(p, "trying", "refused") \/ UNCHANGED caller
    /\ UNCHANGED <<records, intentFile, saving, retryTimer, failures, environment>>

(* Nobody knows whether the rejection was written.                         *)
BrokerFails(p) ==
    /\ attemptOf[p] = "asking" /\ p \in records /\ Fails
    /\ AttemptOver(p) /\ CallerTo(p, "trying", "recorded")
    /\ retryTimer' = IF closed THEN retryTimer ELSE retryTimer \cup {p}
    /\ broker' \in {broker, [broker EXCEPT ![p] = IF @ = "pending" THEN "rejected" ELSE @]}
    /\ UNCHANGED <<records, intentFile, mutations, saving, overdue, coordinator, closed>>

-----------------------------------------------------------------------------

PlanOverdue(p) ==
    /\ p \notin overdue /\ overdue' = overdue \cup {p}
    /\ UNCHANGED <<caller, records, intentFile, mutations, saving, attemptOf, retryTimer, failures,
                   broker, coordinator, closed>>

(* A stop: shutdownRuntime waits for the workers, then the host closes the *)
(* coordinator: the timers are cancelled, what runs is waited for.         *)
CloseCoordinator ==
    /\ ~closed /\ coordinator < MaxCoordinators /\ Unsettled = {}
    /\ closed' = TRUE /\ retryTimer' = {}
    /\ UNCHANGED <<caller, records, intentFile, mutations, saving, attemptOf, failures, overdue,
                   broker, coordinator>>

(* The process ends, closed or not, and the next one starts with the       *)
(* records of the file, each tried at once (start).  What Slack has been   *)
(* told it shows for good.                                                 *)
NextCoordinator ==
    /\ coordinator < MaxCoordinators /\ coordinator' = coordinator + 1 /\ closed' = FALSE
    /\ caller' = [p \in Operations |-> IF p \in Unsettled THEN "none" ELSE caller[p]]
    /\ records' = intentFile /\ retryTimer' = intentFile
    /\ mutations' = <<>> /\ saving' = FALSE /\ attemptOf' = [p \in Operations |-> "none"]
    /\ UNCHANGED <<intentFile, failures, overdue, broker>>

AttemptStep(p) ==
    NothingToAttempt(p) \/ DropOverdue(p) \/ BrokerTakes(p) \/ BrokerCannot(p) \/ BrokerFails(p)

RejectionNext ==
    \/ BeginMutation \/ MutationSaved \/ MutationNotSaved
    \/ CloseCoordinator \/ NextCoordinator
    \/ \E p \in Operations :
          \/ EnqueueExternalRejection(p) \/ RecordRejection(p) \/ TellSettlement(p)
          \/ RetryTimerFires(p) \/ AttemptStep(p) \/ PlanOverdue(p)

(* Saves and broker calls come back, timers fire, a closed process is      *)
(* followed by another.                                                    *)
RejectionFairness ==
    /\ WF_rejectionVars(BeginMutation) /\ WF_rejectionVars(MutationSaved \/ MutationNotSaved)
    /\ WF_rejectionVars(closed /\ NextCoordinator)
    /\ \A p \in Operations :
          /\ WF_rejectionVars(RetryTimerFires(p)) /\ WF_rejectionVars(AttemptStep(p))
          /\ WF_rejectionVars(RecordRejection(p)) /\ WF_rejectionVars(TellSettlement(p))

RejectionSpec == RejectionInit /\ [][RejectionNext]_rejectionVars /\ RejectionFairness

(* Owed: a plan in the worker's hands, a saved intent, and a rejection     *)
(* that Slack has been told of while the broker has not decided the plan   *)
(* and may still let it be approved.                                       *)
Owes(p) ==
    \/ p \in Unsettled \cup intentFile
    \/ caller[p] = "told" /\ broker[p] = "pending" /\ p \notin overdue

(* None is owed for ever, in this process or the next: no failure loses an *)
(* intent or its retry (#persistSnapshot before #attempt, the rollbacks of *)
(* #mutate and #remove).  Only a plan decided otherwise is tried until it  *)
(* is late, and those behind it wait for it.                               *)
IntentsAreSettled ==
    \A p \in Operations :
        Owes(p) ~> (~Owes(p) \/ (p \notin intentFile /\ \E q \in Operations : broker[q] = "other"))
=============================================================================

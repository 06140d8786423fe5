----------------------- MODULE DelegationFamilyProofs -----------------------
(***************************************************************************)
(* Families of jobs, for any numbers of Koe and jobs: a continuation takes *)
(* one step; as long as no save fails, a parent waits for its children and *)
(* is told the result of each once; with no failed save and no restart,    *)
(* the queue implements DelegationPromise.                                 *)
(***************************************************************************)
EXTENDS DelegationQueueProofs

-----------------------------------------------------------------------------
(* What a continuation has been used for.                                  *)

(* Each continuation that an accepted job was derived from is recorded as  *)
(* used, in memory and on disk, and no other accepted job came from it.    *)
UsedOnce ==
    /\ \A i \in Jobs : send[i] = "accepted" /\ derived[i] # NoJob =>
          /\ derived[i] \in used /\ derived[i] \in disk.used
          /\ \A j \in Jobs : /\ send[j] = "accepted" /\ derived[j] = derived[i] => i = j
                             /\ mut = Sender(j) => derived[j] # derived[i]
    /\ \A j \in Jobs : mut = Sender(j) /\ derived[j] # NoJob => derived[j] \in used

DerivedIsSource ==
    \A j \in Jobs : send[j] \in {"ready", "accepted"} /\ source[j].kind = "slack"
                       => derived[j] = source[j].of

(* Steps that leave the calls and what is used.                            *)
CallsStay ==
    /\ UNCHANGED <<send, source, derived, used>>
    /\ disk'.used \in {disk.used, used}
    /\ \A j \in Jobs : mut' = Sender(j) => mut = Sender(j)
CallMoves ==
    \/ \E j \in Jobs : \/ \E t \in Turns : CaptureSend(j, t)
                       \/ DenySend(j)
                       \/ SendStep(j)
    \/ Restart

(* What a step does to the calls.                                          *)
LEMMA StepOfCalls ==
    ASSUME Next
    PROVE  CallsStay \/ CallMoves
<1> DEFINE Goal == CallsStay \/ CallMoves
<1> SUFFICES Goal
    OBVIOUS
<1> USE ActorsDiffer
<1>1. ASSUME UNCHANGED <<send, source, derived, used, disk>>, mut' = mut \/ mut' = Nobody
      PROVE  Goal
    BY <1>1 DEF CallsStay
<1>2. ASSUME UNCHANGED <<send, source, derived, used, disk>>,
             NEW a \in Agents, mut' = Worker(a) PROVE Goal
    BY <1>2 DEF CallsStay
<1>3. ASSUME UNCHANGED <<send, source, derived, used, disk>>,
             NEW j \in Jobs, mut' = Deliverer(j) PROVE Goal
    BY <1>3 DEF CallsStay
<1>4. ASSUME UNCHANGED calls, NEW actor, CommitMutation(actor) PROVE Goal
    BY <1>4 DEF CommitMutation, Save, Snapshot, memory, calls, CallsStay
<1>5. ASSUME UNCHANGED <<calls, used>>, NEW actor, RollBack(actor) PROVE Goal
    BY <1>1, <1>5 DEF RollBack, calls
<1>6. ASSUME UNCHANGED <<calls, used>>, NEW next, Refuse(next) PROVE Goal
    BY <1>1, <1>6 DEF Refuse, storage, calls
<1>7. ASSUME NEW a \in Agents, WorkerStep(a) PROVE Goal
    <2>1. ASSUME PickJob(a) \/ StopScanning(a) \/ LeaveWorker(a) \/ LeaseGranted(a)
                 \/ StartFails(a) \/ TurnStep(a) PROVE Goal
        <3>1. WorkerOnly
            BY <2>1 DEF PickJob, StopScanning, LeaveWorker, LeaseGranted, StartFails, TurnStep,
                        TurnEnds
        <3>. QED BY <1>1, <3>1 DEF WorkerOnly, memory, storage, calls
    <2>2. ASSUME RunTurn(a) PROVE Goal
        BY <1>1, <2>2 DEF RunTurn, memory, storage, calls
    <2>3. ASSUME BeginRunning(a) \/ BeginEnd(a) PROVE Goal
        BY <1>2, <2>3 DEF BeginRunning, BeginEnd, BeginMutation, calls
    <2>4. ASSUME RunningSaved(a) \/ EndSaved(a) PROVE Goal
        BY <1>4, <2>4 DEF RunningSaved, EndSaved
    <2>5. ASSUME RunningNotSaved(a) \/ EndNotSaved(a) PROVE Goal
        BY <1>5, <1>6, <2>5 DEF RunningNotSaved, EndNotSaved
    <2>. QED BY <1>7, <2>1, <2>2, <2>3, <2>4, <2>5 DEF WorkerStep
<1>8. ASSUME NEW j \in Jobs, DeliveryStep(j) PROVE Goal
    <2>1. ASSUME BeginDelivery(j) PROVE Goal
        BY <1>3, <2>1 DEF BeginDelivery, BeginMutation, calls
    <2>2. ASSUME AbsorbSaved(j) \/ FenceSaved(j) \/ RemovalSaved(j) \/ RestoreSaved(j) PROVE Goal
        BY <1>4, <2>2 DEF AbsorbSaved, FenceSaved, RemovalSaved, RestoreSaved
    <2>3. ASSUME DeliveryNotSaved(j) PROVE Goal
        BY <1>5, <1>6, <2>3 DEF DeliveryNotSaved
    <2>4. ASSUME HandledSaved(j) PROVE Goal
        BY <2>4 DEF HandledSaved, Save, Snapshot, memory, calls, CallsStay
    <2>5. ASSUME ContinuationStep(j), ~HandledSaved(j) PROVE Goal
        BY <1>1, <2>5 DEF ContinuationStep, RecordHandled, HandledNotSaved, InjectContinuation,
             ContinuationFails, ContinuationEnds, RawPosted, RawNotPosted, DeliveryOnly, memory,
             storage, calls
    <2>. QED BY <1>8, <2>1, <2>2, <2>3, <2>4, <2>5 DEF DeliveryStep
<1>9. ASSUME RecoverySaved \/ RecoveryNotSaved PROVE Goal
    BY <1>4, <1>5, <1>9 DEF RecoverySaved, RecoveryNotSaved
<1>10. ASSUME Environment PROVE Goal
    <2>1. ASSUME NEW a \in Agents, DeclineJob(a) PROVE Goal
        BY <1>1, <2>1 DEF DeclineJob, WorkerOnly, memory, storage, calls
    <2>2. ASSUME BeginDrain \/ BeginShutdown PROVE Goal
        BY <1>1, <2>2 DEF BeginDrain, BeginShutdown, memory, storage, calls
    <2>3. ASSUME OtherSave PROVE Goal
        BY <2>3 DEF OtherSave, Save, Snapshot, memory, calls, CallsStay
    <2>. QED BY <1>10, <2>1, <2>2, <2>3 DEF Environment, CallMoves
<1>. QED BY <1>7, <1>8, <1>9, <1>10 DEF Next, CallMoves

(* Only admissions use a continuation, and a used one is refused.          *)
LEMMA UsedOnceKept ==
    ASSUME TypeOK, ListsAgree, UsedOnce, Next
    PROVE  UsedOnce'
<1>1. /\ send \in [Jobs -> {"none", "captured", "ready", "accepted", "refused"}]
      /\ derived \in [Jobs -> Jobs \cup {NoJob}] /\ used \subseteq Jobs /\ NoJob \notin Jobs
    BY DEF TypeOK, NoJob, Jobs
<1>2. \A j \in Jobs : mut = Sender(j) => send[j] = "ready"
    BY DEF ListsAgree
<1> USE DEF UsedOnce
<1>3. CASE CallsStay
    BY <1>3 DEF CallsStay
<1>4. ASSUME NEW j \in Jobs, SendStep(j) PROVE UsedOnce'
    <2>1. ASSUME NEW c \in Jobs \cup {NoJob}, DeriveSend(j, c) PROVE UsedOnce'
        BY <1>1, <1>2, <2>1 DEF DeriveSend, memory, storage
    <2>2. ASSUME BeginAdmission(j) PROVE UsedOnce'
        BY <1>1, <1>2, <2>2, ActorsDiffer DEF BeginAdmission, BeginMutation, calls
    <2>3. ASSUME RefuseSend(j) PROVE UsedOnce'
        BY <1>1, <1>2, <2>3, ActorsDiffer DEF RefuseSend, memory, storage
    <2>4. ASSUME AcceptSend(j) PROVE UsedOnce'
        BY <1>1, <1>2, <2>4, ActorsDiffer DEF AcceptSend, CommitMutation, Save, Snapshot, memory
    <2>5. ASSUME RollBackSend(j) PROVE UsedOnce'
        BY <1>1, <1>2, <2>5, ActorsDiffer DEF RollBackSend, RollBack
    <2>. QED BY <1>4, <2>1, <2>2, <2>3, <2>4, <2>5 DEF SendStep
<1>5. ASSUME NEW j \in Jobs, DenySend(j) \/ \E t \in Turns : CaptureSend(j, t) PROVE UsedOnce'
    BY <1>1, <1>2, <1>5 DEF CaptureSend, DenySend, memory, storage
<1>6. CASE Restart
    <2>1. /\ used' = disk.used /\ disk' = disk /\ derived' = derived /\ mut' \in {Nobody, Recoverer}
          /\ \A j \in Jobs : send'[j] = "accepted" => send[j] = "accepted"
        BY <1>1, <1>6 DEF Restart, InFlight
    <2>. QED BY <2>1, ActorsDiffer
<1>. QED BY <1>3, <1>4, <1>5, <1>6, StepOfCalls DEF CallMoves

(* A send that does not outlive its turn is derived from that turn.        *)
LEMMA DerivedIsSourceKept ==
    ASSUME TypeOK, ListsAgree, ~LateAdmission, DerivedIsSource, Next
    PROVE  DerivedIsSource'
<1>1. /\ send \in [Jobs -> {"none", "captured", "ready", "accepted", "refused"}]
      /\ derived \in [Jobs -> Jobs \cup {NoJob}]
      /\ source \in [Jobs -> [kind: {"none", "slack", "job"}, of: Jobs \cup {NoJob}]]
    BY DEF TypeOK
<1>2. \A j \in Jobs : mut = Sender(j) => send[j] = "ready"
    BY DEF ListsAgree
<1> USE DEF DerivedIsSource
<1>3. CASE CallsStay
    BY <1>3 DEF CallsStay
<1>4. ASSUME NEW j \in Jobs, SendStep(j) PROVE DerivedIsSource'
    <2>1. ASSUME NEW c \in Jobs \cup {NoJob}, DeriveSend(j, c) PROVE DerivedIsSource'
        BY <1>1, <2>1 DEF DeriveSend
    <2>2. ASSUME BeginAdmission(j) PROVE DerivedIsSource'
        BY <2>2 DEF BeginAdmission, calls
    <2>3. ASSUME RefuseSend(j) \/ AcceptSend(j) \/ RollBackSend(j) PROVE DerivedIsSource'
        BY <1>1, <1>2, <2>3 DEF RefuseSend, AcceptSend, RollBackSend, CommitMutation, RollBack
    <2>. QED BY <1>4, <2>1, <2>2, <2>3 DEF SendStep
<1>5. ASSUME NEW j \in Jobs, DenySend(j) \/ \E t \in Turns : CaptureSend(j, t)
      PROVE  DerivedIsSource'
    BY <1>1, <1>5 DEF CaptureSend, DenySend
<1>6. CASE Restart
    BY <1>1, <1>6 DEF Restart, InFlight
<1>. QED BY <1>3, <1>4, <1>5, <1>6, StepOfCalls DEF CallMoves

(* Whenever agent.send answers that a job derived from a continuation is   *)
(* queued, no other such job was or will be accepted from it, over failed  *)
(* saves and restarts (usedContinuationDelegations of #executeAgentSend).  *)
THEOREM StepsAreUsedOnce == SafetySpec => []UsedOnce
<1>1. Init => UsedOnce
    BY ActorsDiffer DEF Init, UsedOnce
<1>2. QueueIInv /\ UsedOnce /\ [Next]_vars => UsedOnce'
    <2>1. ASSUME UsedOnce, UNCHANGED vars PROVE UsedOnce'
        BY <2>1 DEF vars, memory, storage, calls, UsedOnce
    <2>. QED BY <2>1, UsedOnceKept DEF QueueIInv
<1>. QED BY <1>1, <1>2, QueueIsConsistent, PTL DEF SafetySpec

(* When no agent.send outlives the turn that called it, a continuation     *)
(* starts one next delegation at most, whatever fails and restarts         *)
(* (#executeAgentSend, Router.deriveDelegationContext).                    *)
THEOREM ContinuationStepsOnce == ~LateAdmission => (SafetySpec => []OneStepPerContinuation)
<1> SUFFICES ASSUME ~LateAdmission PROVE SafetySpec => []OneStepPerContinuation
    OBVIOUS
<1>1. Init => DerivedIsSource
    BY DEF Init, DerivedIsSource
<1>2. QueueIInv /\ DerivedIsSource /\ [Next]_vars => DerivedIsSource'
    <2>1. ASSUME DerivedIsSource, UNCHANGED vars PROVE DerivedIsSource'
        BY <2>1 DEF vars, calls, DerivedIsSource
    <2>. QED BY <2>1, DerivedIsSourceKept DEF QueueIInv
<1>3. UsedOnce /\ DerivedIsSource => OneStepPerContinuation
    BY DEF UsedOnce, DerivedIsSource, OneStepPerContinuation
<1>. QED BY <1>1, <1>2, <1>3, QueueIsConsistent, StepsAreUsedOnce, PTL DEF SafetySpec

-----------------------------------------------------------------------------
(* The job of a worker and of a delivery at each of their steps, while no  *)
(* save has failed.                                                        *)

EndedIn(q, j) == j \in DOMAIN q /\ q[j].state \in Ended

HasJob(a, states) ==
    LET j == worker[a].job
    IN  j \in DOMAIN jobs /\ target[j] = a /\ jobs[j].state \in states

(* The job of a worker at each step, before and after the mutation that    *)
(* the step makes.                                                         *)
JobAt(a) ==
    LET j == worker[a].job
        pc == worker[a].pc
        saving == mut = Worker(a)
    IN  /\ pc = "wait" \/ (pc \in {"start", "record"} /\ ~saving) => HasJob(a, {"queued"})
        /\ pc \in {"project", "turn"} \/ (pc = "start" /\ saving) => HasJob(a, {"running"})
        /\ pc = "settle" /\ ~saving => HasJob(a, {"queued", "running"})
        /\ pc \in {"wait", "start"} /\ ~saving => jobs[j].resume = worker[a].resume
        /\ pc = "start" /\ saving => j \in DOMAIN prev /\ prev[j].resume = worker[a].resume

(* A job that is being delivered has ended, in memory unless its delivery  *)
(* is removing it, and in the list a mutation has replaced.                *)
DeliveryAt(j) ==
    delivery[j] \notin {"off", "blocked"} =>
       /\ mut # Deliverer(j) \/ delivery[j] = "restore" \/ (delivery[j] = "deliver" /\ ~IsChild(j))
             => EndedIn(jobs, j)
       /\ mut # Nobody => EndedIn(prev, j)

StepsAgree == (\A a \in Agents : JobAt(a)) /\ (\A j \in Jobs : DeliveryAt(j))

(* The steps of a process whose saves do not fail.                         *)
Begins ==
    \/ \E j \in Jobs : BeginAdmission(j) \/ BeginDelivery(j)
    \/ \E a \in Agents : BeginRunning(a) \/ BeginEnd(a)
SavesAll ==
    /\ jobs' = jobs /\ disk' = Snapshot /\ absorbed' = absorbed \cup Joins(jobs)
    /\ UNCHANGED <<mut, prev>>
NoFaultStep == ListsStay \/ Begins \/ SavesAll \/ CommitMutation(mut) \/ Restart

(* A step after which no save has failed is not the failure of one.        *)
LEMMA StepWithoutFault ==
    ASSUME TypeOK, Next, diskFailures' = 0
    PROVE  diskFailures = 0 /\ NoFaultStep
<1> DEFINE Goal == diskFailures = 0 /\ NoFaultStep
<1> SUFFICES Goal
    OBVIOUS
<1>0. diskFailures \in Nat
    BY BoundsAssumption DEF TypeOK
<1>1. ASSUME NEW actor, RollBack(actor) PROVE FALSE
    BY <1>0, <1>1 DEF RollBack
<1>2. ASSUME NEW j \in Jobs, HandledNotSaved(j) PROVE FALSE
    BY <1>0, <1>2 DEF HandledNotSaved
<1>3. ASSUME UNCHANGED storage, UNCHANGED jobs PROVE Goal
    BY <1>3 DEF storage, ListsStay, NoFaultStep
<1>4. ASSUME NEW actor, CommitMutation(actor) PROVE Goal
    BY <1>4 DEF CommitMutation, NoFaultStep
<1>5. ASSUME NEW actor, NEW next, BeginMutation(actor, next), Begins PROVE Goal
    BY <1>5 DEF BeginMutation, NoFaultStep
<1>6. ASSUME Save, UNCHANGED <<jobs, mut, prev, diskFailures>> PROVE Goal
    BY <1>6 DEF Save, SavesAll, NoFaultStep
<1>7. ASSUME NEW next, Refuse(next) PROVE Goal
    BY <1>3, <1>7 DEF Refuse
<1>8. ASSUME NEW j \in Jobs, SendStep(j) PROVE Goal
    <2>1. ASSUME BeginAdmission(j) PROVE Goal
        BY <1>5, <2>1 DEF BeginAdmission, Begins
    <2>2. ASSUME RefuseSend(j) \/ \E c \in Jobs \cup {NoJob} : DeriveSend(j, c) PROVE Goal
        BY <1>3, <2>2 DEF RefuseSend, DeriveSend, memory
    <2>3. ASSUME AcceptSend(j) PROVE Goal
        BY <1>4, <2>3 DEF AcceptSend
    <2>4. ~RollBackSend(j)
        BY <1>1 DEF RollBackSend
    <2>. QED BY <1>8, <2>1, <2>2, <2>3, <2>4 DEF SendStep
<1>9. ASSUME NEW a \in Agents, WorkerStep(a) PROVE Goal
    <2>1. ASSUME PickJob(a) \/ StopScanning(a) \/ LeaveWorker(a) \/ LeaseGranted(a)
                 \/ StartFails(a) \/ TurnStep(a) PROVE Goal
        <3>1. WorkerOnly
            BY <2>1 DEF PickJob, StopScanning, LeaveWorker, LeaseGranted, StartFails, TurnStep,
                        TurnEnds
        <3>. QED BY <1>3, <3>1 DEF WorkerOnly, memory
    <2>2. ASSUME RunTurn(a) PROVE Goal
        BY <1>3, <2>2 DEF RunTurn, memory
    <2>3. ASSUME BeginRunning(a) \/ BeginEnd(a) PROVE Goal
        BY <1>5, <2>3 DEF BeginRunning, BeginEnd, Begins
    <2>4. ASSUME RunningSaved(a) \/ EndSaved(a) PROVE Goal
        BY <1>4, <2>4 DEF RunningSaved, EndSaved
    <2>5. ASSUME RunningNotSaved(a) \/ EndNotSaved(a) PROVE Goal
        BY <1>1, <1>7, <2>5 DEF RunningNotSaved, EndNotSaved
    <2>. QED BY <1>9, <2>1, <2>2, <2>3, <2>4, <2>5 DEF WorkerStep
<1>10. ASSUME NEW j \in Jobs, DeliveryStep(j) PROVE Goal
    <2>1. ASSUME BeginDelivery(j) PROVE Goal
        BY <1>5, <2>1 DEF BeginDelivery, Begins
    <2>2. ASSUME AbsorbSaved(j) \/ FenceSaved(j) \/ RemovalSaved(j) \/ RestoreSaved(j) PROVE Goal
        BY <1>4, <2>2 DEF AbsorbSaved, FenceSaved, RemovalSaved, RestoreSaved
    <2>3. ASSUME DeliveryNotSaved(j) PROVE Goal
        BY <1>1, <1>7, <2>3 DEF DeliveryNotSaved
    <2>4. ASSUME HandledSaved(j) PROVE Goal
        BY <1>6, <2>4 DEF HandledSaved, memory
    <2>5. ASSUME ContinuationStep(j), ~HandledSaved(j) PROVE Goal
        BY <1>2, <1>3, <2>5 DEF ContinuationStep, RecordHandled, InjectContinuation,
             ContinuationFails, ContinuationEnds, RawPosted, RawNotPosted, DeliveryOnly, memory
    <2>. QED BY <1>10, <2>1, <2>2, <2>3, <2>4, <2>5 DEF DeliveryStep
<1>11. ASSUME Environment PROVE Goal
    <2>1. ASSUME NEW j \in Jobs, DenySend(j) \/ \E t \in Turns : CaptureSend(j, t) PROVE Goal
        BY <1>3, <2>1 DEF CaptureSend, DenySend, memory
    <2>2. ASSUME NEW a \in Agents, DeclineJob(a) PROVE Goal
        BY <1>3, <2>2 DEF DeclineJob, WorkerOnly, memory
    <2>3. ASSUME BeginDrain \/ BeginShutdown PROVE Goal
        BY <1>3, <2>3 DEF BeginDrain, BeginShutdown, memory
    <2>4. ASSUME OtherSave PROVE Goal
        BY <1>6, <2>4 DEF OtherSave, memory
    <2>5. ASSUME Restart PROVE Goal
        BY <2>5 DEF Restart, NoFaultStep
    <2>. QED BY <1>11, <2>1, <2>2, <2>3, <2>4, <2>5 DEF Environment
<1>12. ASSUME RecoverySaved \/ RecoveryNotSaved PROVE Goal
    BY <1>1, <1>4, <1>12 DEF RecoverySaved, RecoveryNotSaved
<1>. QED BY <1>8, <1>9, <1>10, <1>11, <1>12 DEF Next

(* A mutation ends by a step of the one who began it.                      *)
LEMMA MutationHasOwner ==
    ASSUME Next, ~Restart
    PROVE  /\ \A a \in Agents : mut = Worker(a) /\ ~WorkerStep(a) => mut' = mut
           /\ \A j \in Jobs : mut = Sender(j) /\ ~SendStep(j) => mut' = mut
<1> DEFINE Goal ==
           /\ \A a \in Agents : mut = Worker(a) /\ ~WorkerStep(a) => mut' = mut
           /\ \A j \in Jobs : mut = Sender(j) /\ ~SendStep(j) => mut' = mut
<1> SUFFICES Goal
    OBVIOUS
<1>1. ASSUME NEW i \in Jobs, SendStep(i), mut # Sender(i), mut # Nobody PROVE Goal
    <2>1. mut' = mut
        BY <1>1 DEF SendStep, DeriveSend, BeginAdmission, BeginMutation, RefuseSend, AcceptSend,
             CommitMutation, RollBackSend, RollBack, storage
    <2>. QED BY <2>1
<1>2. ASSUME NEW b \in Agents, WorkerStep(b), mut # Worker(b), mut # Nobody PROVE Goal
    <2>1. mut' = mut
        BY <1>2 DEF WorkerStep, PickJob, StopScanning, LeaveWorker, LeaseGranted, StartFails,
                  BeginRunning, RunningSaved, RunningNotSaved, RunTurn, TurnStep, TurnEnds, BeginEnd,
                  EndSaved, EndNotSaved, WorkerOnly, storage, BeginMutation, CommitMutation,
                  RollBack, Refuse
    <2>. QED BY <2>1
<1>3. ASSUME NEW i \in Jobs, DeliveryStep(i), mut # Deliverer(i), mut # Nobody PROVE Goal
    <2>1. mut' = mut
        BY <1>3 DEF DeliveryStep, ContinuationStep, BeginDelivery, AbsorbSaved, FenceSaved,
                    RemovalSaved, RestoreSaved, DeliveryNotSaved, RecordHandled, HandledSaved,
                    HandledNotSaved, InjectContinuation, ContinuationFails, ContinuationEnds,
                    RawPosted, RawNotPosted, DeliveryOnly, storage, BeginMutation, CommitMutation,
                    RollBack, Refuse
    <2>. QED BY <2>1
<1>4. CASE Environment
    <2>1. mut' = mut
        BY <1>4 DEF Environment, CaptureSend, DenySend, DeclineJob, OtherSave, BeginDrain,
             BeginShutdown, WorkerOnly, storage
    <2>. QED BY <2>1
<1>5. CASE RecoverySaved \/ RecoveryNotSaved
    BY <1>5, ActorsDiffer DEF RecoverySaved, RecoveryNotSaved, CommitMutation, RollBack
<1>6. CASE mut = Nobody
    BY <1>6, ActorsDiffer
<1>. QED BY <1>1, <1>2, <1>3, <1>4, <1>5, <1>6, ActorsDiffer DEF Next

(* What an admission does to the jobs listed before.                       *)
LEMMA AdmissionKeepsJob ==
    ASSUME TypeOK, ListsAgree, NEW j \in Jobs, BeginAdmission(j), NEW i \in DOMAIN jobs
    PROVE  /\ j \notin DOMAIN jobs /\ DOMAIN jobs' = DOMAIN jobs \cup {j} /\ jobs'[j] = NewJob
           /\ jobs'[i] = IF i = Parent(j) THEN [jobs[i] EXCEPT !.pending = @ \cup {j}] ELSE jobs[i]
<1>1. j \notin DOMAIN jobs
    BY ActorsDiffer DEF BeginAdmission, BeginMutation, ListsAgree, Decided
<1>2. jobs' = Admitted(j)
    BY DEF BeginAdmission, BeginMutation
<1>. QED BY <1>1, <1>2 DEF Admitted, With, Rewrite

(* What a delivery does to the jobs of others.                             *)
LEMMA DeliveryKeepsJob ==
    ASSUME TypeOK, NEW j \in Jobs, BeginDelivery(j), NEW i \in DOMAIN jobs, i # j
    PROVE  /\ i \in DOMAIN jobs'
           /\ jobs'[i] = IF delivery[j] = "deliver" /\ IsChild(j) /\ i = Parent(j)
                         THEN Joined(jobs[i], j) ELSE jobs[i]
<1>1. jobs' = DeliveryChange(j)
    BY DEF BeginDelivery, BeginMutation
<1>2. CASE delivery[j] = "deliver" /\ IsChild(j)
    <2> DEFINE with == Rewrite(Parent(j), LAMBDA r : Joined(r, j))
    <2>1. jobs' = Without(with, j)
        BY <1>1, <1>2 DEF DeliveryChange
    <2>2. DOMAIN with = DOMAIN jobs
          /\ with[i] = IF i = Parent(j) THEN Joined(jobs[i], j) ELSE jobs[i]
        BY DEF Rewrite
    <2>. HIDE DEF with
    <2>. QED BY <1>2, <2>1, <2>2 DEF Without
<1>3. CASE ~(delivery[j] = "deliver" /\ IsChild(j))
    BY <1>1, <1>3 DEF DeliveryChange, Rewrite, Without
<1>. QED BY <1>2, <1>3

(* A result changes the state of its parent only if that waits.            *)
LEMMA JoinedKeeps ==
    ASSUME NEW r \in JobRecord, NEW j \in Jobs, r.state # "waiting_for_children"
    PROVE  Joined(r, j).state = r.state /\ Joined(r, j).resume = r.resume
BY DEF Joined, JobRecord

(* Only its worker, its delivery and, while it waits, its children change  *)
(* the state of a job.                                                     *)
LEMMA OthersKeepJob ==
    ASSUME TypeOK, ListsAgree, Next, diskFailures' = 0, ~Restart,
           NEW i \in DOMAIN jobs, ~BeginDelivery(i),
           \A a \in Agents : worker[a].job = i => ~BeginRunning(a) /\ ~BeginEnd(a)
    PROVE  /\ i \in DOMAIN jobs'
           /\ jobs[i].state # "waiting_for_children" =>
                 jobs'[i].state = jobs[i].state /\ jobs'[i].resume = jobs[i].resume
<1>1. i \in Jobs /\ jobs[i] \in JobRecord
    BY DEF TypeOK
<1>2. CASE jobs' = jobs
    BY <1>2
<1>3. ASSUME NEW j \in Jobs, BeginAdmission(j)
      PROVE  i \in DOMAIN jobs' /\ jobs'[i].state = jobs[i].state /\ jobs'[i].resume = jobs[i].resume
    BY <1>1, <1>3, AdmissionKeepsJob DEF JobRecord
<1>4. ASSUME NEW j \in Jobs, BeginDelivery(j)
      PROVE  /\ i \in DOMAIN jobs'
             /\ jobs[i].state # "waiting_for_children" =>
                   jobs'[i].state = jobs[i].state /\ jobs'[i].resume = jobs[i].resume
    BY <1>1, <1>4, DeliveryKeepsJob, JoinedKeeps
<1>5. ASSUME NEW a \in Agents, BeginRunning(a) \/ BeginEnd(a)
      PROVE  i \in DOMAIN jobs' /\ jobs'[i] = jobs[i]
    <2>1. worker[a].job # i
        BY <1>5
    <2>. QED BY <1>5, <2>1 DEF BeginRunning, BeginEnd, BeginMutation, Rewrite, EndOfJob
<1>6. NoFaultStep
    BY StepWithoutFault
<1>. QED BY <1>2, <1>3, <1>4, <1>5, <1>6 DEF NoFaultStep, Begins, ListsStay, SavesAll,
            CommitMutation, memory

(* A delivery that is woken finds its job ended.                           *)
LEMMA WokenHasEnded ==
    ASSUME TypeOK, Next, NEW j \in Jobs, delivery[j] = "off", delivery'[j] # "off"
    PROVE  mut' = Nobody /\ jobs' = jobs /\ EndedIn(jobs, j)
<1> DEFINE Goal == mut' = Nobody /\ jobs' = jobs /\ EndedIn(jobs, j)
<1> SUFFICES Goal
    OBVIOUS
<1>1. delivery \in [Jobs -> DeliveryStates]
    BY DEF TypeOK
<1>2. ASSUME NEW d, NEW i, d[j] = "off", ScheduledDeliveries(d, i)[j] # "off"
      PROVE  i = j /\ EndedIn(jobs, j)
    BY <1>2 DEF ScheduledDeliveries, WakeDelivery, EndedIn, Ended
<1>3. ASSUME NEW i \in Jobs, DeliveryStep(i), i # j PROVE Goal
    <2>1. CASE AbsorbSaved(i)
        <3>1. mut' = Nobody /\ jobs' = jobs
            BY <2>1 DEF AbsorbSaved, CommitMutation, memory
        <3>2. delivery' = ScheduledDeliveries([delivery EXCEPT ![i] = "off"], Parent(i))
            BY <2>1 DEF AbsorbSaved
        <3>3. [delivery EXCEPT ![i] = "off"][j] = "off"
            BY <1>1
        <3>. QED BY <1>2, <3>1, <3>2, <3>3
    <2>2. CASE ~AbsorbSaved(i)
        <3>1. delivery'[j] = delivery[j]
            BY <1>1, <1>3, <2>2 DEF DeliveryStep, ContinuationStep, BeginDelivery, FenceSaved,
                    RemovalSaved, RestoreSaved, DeliveryNotSaved, RecordHandled, HandledSaved,
                    HandledNotSaved, InjectContinuation, ContinuationFails, ContinuationEnds,
                    RawPosted, RawNotPosted, Deliver
        <3>. QED BY <3>1
    <2>. QED BY <2>1, <2>2
<1>4. ASSUME DeliveryStep(j) PROVE Goal
    BY <1>4 DEF DeliveryStep, ContinuationStep, BeginDelivery, AbsorbSaved, FenceSaved,
                    RemovalSaved, RestoreSaved, DeliveryNotSaved, RecordHandled, HandledSaved,
                    HandledNotSaved, InjectContinuation, ContinuationFails, ContinuationEnds,
                    RawPosted, RawNotPosted, Mutating
<1>5. ASSUME NEW a \in Agents, WorkerStep(a) PROVE Goal
    <2>1. CASE EndSaved(a)
        BY <1>2, <2>1 DEF EndSaved, CommitMutation, memory
    <2>2. CASE ~EndSaved(a)
        BY <1>5, <2>2 DEF WorkerStep, PickJob, StopScanning, LeaveWorker, LeaseGranted,
                  StartFails, BeginRunning, RunningSaved, RunningNotSaved, RunTurn, TurnStep, TurnEnds,
                  BeginEnd, EndNotSaved, WorkerOnly
    <2>. QED BY <2>1, <2>2
<1>6. ASSUME NEW i \in Jobs, SendStep(i) PROVE Goal
    BY <1>6 DEF SendStep, DeriveSend, BeginAdmission, RefuseSend, AcceptSend, RollBackSend
<1>7. ASSUME Environment PROVE Goal
    BY <1>7 DEF Environment, CaptureSend, DenySend, DeclineJob, OtherSave, BeginDrain,
                BeginShutdown, Restart, WorkerOnly
<1>8. CASE RecoverySaved
    <2>1. delivery'[j] = ScheduledDeliveries(delivery, j)[j] /\ mut' = Nobody /\ jobs' = jobs
        BY <1>8 DEF RecoverySaved, CommitMutation, memory
    <2>. QED BY <1>2, <2>1
<1>9. CASE RecoveryNotSaved
    BY <1>9 DEF RecoveryNotSaved
<1>. QED BY <1>3, <1>4, <1>5, <1>6, <1>7, <1>8, <1>9 DEF Next

(* A job has one target.                                                   *)
LEMMA TargetStays == ASSUME Next PROVE target' = target
    BY DEF Next, Environment, SendStep, DeliveryStep, ContinuationStep, WorkerStep, TurnStep,
           CaptureSend, DenySend, DeclineJob, OtherSave, BeginDrain, BeginShutdown, Restart,
           DeriveSend, BeginAdmission, RefuseSend, AcceptSend, RollBackSend, PickJob, StopScanning,
           LeaveWorker, LeaseGranted, StartFails, BeginRunning, RunningSaved, RunningNotSaved,
           RunTurn, TurnEnds, BeginEnd, EndSaved, EndNotSaved, BeginDelivery, AbsorbSaved,
           FenceSaved, RemovalSaved, RestoreSaved, DeliveryNotSaved, RecordHandled, HandledSaved,
           HandledNotSaved, InjectContinuation, ContinuationFails, ContinuationEnds, RawPosted,
           RawNotPosted, RecoverySaved, RecoveryNotSaved, DeliveryOnly, WorkerOnly, calls

(* Whoever begins a mutation has the job it is about.                      *)
LEMMA BeginnerHasJob ==
    ASSUME StepsAgree, NEW a \in Agents, BeginRunning(a) \/ BeginEnd(a)
    PROVE  HasJob(a, {"queued", "running"})
<1>1. JobAt(a) /\ mut # Worker(a) /\ worker[a].pc \in {"start", "settle", "record"}
    BY ActorsDiffer DEF StepsAgree, BeginRunning, BeginEnd, BeginMutation
<1>. QED BY <1>1 DEF JobAt, HasJob

LEMMA DelivererHasEnded ==
    ASSUME StepsAgree, NEW j \in Jobs, BeginDelivery(j)
    PROVE  EndedIn(jobs, j)
BY ActorsDiffer DEF StepsAgree, DeliveryAt, BeginDelivery, BeginMutation, Mutating

(* The job of a worker is left to it.                                      *)
LEMMA JobStays ==
    ASSUME TypeOK, ListsAgree, StepsAgree, Next, diskFailures' = 0, ~Restart,
           NEW a \in Agents, ~WorkerStep(a), worker'[a] = worker[a],
           NEW states \in SUBSET {"queued", "running"}, HasJob(a, states)
    PROVE  HasJob(a, states)' /\ jobs'[worker[a].job].resume = jobs[worker[a].job].resume
<1> DEFINE i == worker[a].job
<1>1. i \in DOMAIN jobs /\ target[i] = a /\ jobs[i].state \in states /\ i \in Jobs
    BY DEF HasJob, TypeOK
<1>2. ~BeginDelivery(i)
    BY <1>1, DelivererHasEnded DEF EndedIn, Ended
<1>3. \A b \in Agents : worker[b].job = i => ~BeginRunning(b) /\ ~BeginEnd(b)
    BY <1>1, BeginnerHasJob DEF HasJob, WorkerStep
<1>4. /\ i \in DOMAIN jobs' /\ jobs'[i].state = jobs[i].state /\ jobs'[i].resume = jobs[i].resume
    BY <1>1, <1>2, <1>3, OthersKeepJob
<1>. QED BY <1>1, <1>4, TargetStays DEF HasJob

(* Each step of a worker, and the steps of all others.                     *)
LEMMA JobAtKept ==
    ASSUME TypeOK, ListsAgree, MessagesAgree, StepsAgree, Next, diskFailures' = 0, NEW a \in Agents
    PROVE  JobAt(a)'
<1>1. worker \in [Agents -> [pc: WorkerStates, job: Jobs \cup {NoJob},
                              result: {"completed", "failed", "cut"}, resume: SUBSET Jobs]]
      /\ target \in [Jobs -> Agents] /\ DOMAIN jobs \subseteq Jobs
    BY DEF TypeOK
<1>2. /\ JobAt(a) /\ (mut = Worker(a) => worker[a].pc \in {"start", "settle", "record"})
      /\ Nobody # Worker(a) /\ target' = target
    BY ActorsDiffer, TargetStays DEF StepsAgree, MessagesAgree, WorkerKnows
<1>3. ASSUME worker'[a].pc \in {"off", "scan", "exiting", "blocked"} PROVE JobAt(a)'
    BY <1>3 DEF JobAt
<1>4. CASE Restart
    <2>1. worker'[a].pc = "off"
        BY <1>4 DEF Restart, NoWork
    <2>. QED BY <1>3, <2>1
<1>5. ASSUME DeclineJob(a), ~Restart PROVE JobAt(a)'
    <2>1. worker'[a] = [worker[a] EXCEPT !.pc = "record"] /\ worker[a].pc = "wait"
          /\ UNCHANGED <<jobs, mut, prev>>
        BY <1>1, <1>5 DEF DeclineJob, Goto, WorkerOnly, memory, storage
    <2>. QED BY <1>1, <1>2, <2>1 DEF JobAt, HasJob
<1>6. ASSUME WorkerStep(a) PROVE JobAt(a)'
    <2>1. ASSUME PickJob(a) PROVE JobAt(a)'
        <3>1. /\ worker[a].pc = "scan" /\ QueuedFor(a) # {} /\ UNCHANGED <<jobs, mut, prev>>
              /\ LET j == Min(QueuedFor(a))
                 IN  worker'[a] = [NoWork EXCEPT !.pc = "wait", !.job = j, !.resume = jobs[j].resume]
            BY <1>1, <2>1 DEF PickJob, WorkerOnly, memory, storage
        <3>2. PICK j \in Jobs : j = Min(QueuedFor(a)) /\ j \in QueuedFor(a)
            <4>1. QueuedFor(a) \in SUBSET Nat /\ QueuedFor(a) \subseteq Jobs
                BY <1>1, BoundsAssumption DEF QueuedFor, Jobs
            <4>. QED BY <3>1, <4>1, MinIsElement
        <3>3. worker'[a].pc = "wait" /\ worker'[a].job = j /\ worker'[a].resume = jobs[j].resume
            BY <3>1, <3>2 DEF NoWork
        <3>4. j \in DOMAIN jobs /\ target[j] = a /\ jobs[j].state = "queued"
            BY <3>2 DEF QueuedFor
        <3>. QED BY <1>2, <3>1, <3>3, <3>4 DEF JobAt, HasJob
    <2>2. ASSUME StopScanning(a) \/ LeaveWorker(a) PROVE JobAt(a)'
        <3>1. worker'[a].pc \in {"off", "scan", "exiting", "blocked"}
            BY <1>1, <2>2 DEF StopScanning, LeaveWorker, Goto, NoWork
        <3>. QED BY <1>3, <3>1
    <2>3. ASSUME LeaseGranted(a) PROVE JobAt(a)'
        <3>1. /\ worker'[a].pc \in {"start", "scan"} /\ worker'[a].job = worker[a].job
              /\ worker'[a].resume = worker[a].resume /\ worker[a].pc = "wait"
              /\ UNCHANGED <<jobs, mut, prev>>
            BY <1>1, <2>3 DEF LeaseGranted, Goto, WorkerOnly, memory, storage
        <3>. QED BY <1>2, <3>1 DEF JobAt, HasJob
    <2>4. ASSUME StartFails(a) PROVE JobAt(a)'
        <3>1. /\ worker'[a].pc = "settle" /\ worker'[a].job = worker[a].job
              /\ (worker[a].pc = "start" /\ mut # Worker(a)) \/ worker[a].pc = "project"
              /\ UNCHANGED <<jobs, mut, prev>>
            BY <1>1, <2>4 DEF StartFails, WorkerOnly, memory, storage
        <3>. QED BY <1>2, <3>1 DEF JobAt, HasJob
    <2>5. ASSUME BeginRunning(a) PROVE JobAt(a)'
        <3>1. /\ worker' = worker /\ worker[a].pc = "start" /\ mut = Nobody /\ mut' = Worker(a)
              /\ jobs' = Rewrite(worker[a].job, Running) /\ prev' = jobs
            BY <2>5 DEF BeginRunning, BeginMutation
        <3>2. HasJob(a, {"queued"}) /\ jobs[worker[a].job].resume = worker[a].resume
            BY <1>2, <3>1 DEF JobAt
        <3>3. worker[a].job \in DOMAIN jobs' /\ jobs'[worker[a].job] = Running(jobs[worker[a].job])
            BY <3>1, <3>2 DEF HasJob, Rewrite
        <3>4. jobs'[worker[a].job].state = "running"
            BY <3>2, <3>3 DEF HasJob, Running, TypeOK, JobRecord
        <3>. QED BY <1>2, <3>1, <3>2, <3>3, <3>4 DEF JobAt, HasJob
    <2>6. ASSUME RunningSaved(a) PROVE JobAt(a)'
        <3>1. /\ worker[a].pc = "start" /\ mut = Worker(a) /\ jobs' = jobs /\ mut' = Nobody
              /\ worker'[a].pc = (IF worker[a].job \in DOMAIN jobs THEN "project" ELSE "settle")
              /\ worker'[a].job = worker[a].job
            BY <1>1, <2>6 DEF RunningSaved, CommitMutation, memory
        <3>2. HasJob(a, {"running"})
            BY <1>2, <3>1 DEF JobAt
        <3>. QED BY <1>2, <3>1, <3>2 DEF JobAt, HasJob
    <2>7. ASSUME RunningNotSaved(a) PROVE JobAt(a)'
        <3>1. ~RollBack(Worker(a))
            BY BoundsAssumption DEF RollBack, TypeOK
        <3>2. /\ worker[a].pc = "start" /\ mut = Nobody /\ UNCHANGED <<jobs, mut, prev>>
              /\ worker'[a].pc = "settle" /\ worker'[a].job = worker[a].job
            BY <1>1, <2>7, <3>1 DEF RunningNotSaved, Refuse, storage
        <3>. QED BY <1>2, <3>2 DEF JobAt, HasJob
    <2>8. ASSUME RunTurn(a) PROVE JobAt(a)'
        <3>1. /\ worker[a].pc = "project" /\ worker'[a].pc = "turn" /\ worker'[a].job = worker[a].job
              /\ UNCHANGED <<jobs, mut, prev>>
            BY <1>1, <2>8 DEF RunTurn, Goto, memory, storage
        <3>. QED BY <1>2, <3>1 DEF JobAt, HasJob
    <2>9. ASSUME TurnStep(a) PROVE JobAt(a)'
        <3>1. /\ worker[a].pc = "turn" /\ worker'[a].pc = "settle" /\ worker'[a].job = worker[a].job
              /\ UNCHANGED <<jobs, mut, prev>>
            BY <1>1, <2>9 DEF TurnStep, TurnEnds, WorkerOnly, memory, storage
        <3>. QED BY <1>2, <3>1 DEF JobAt, HasJob
    <2>10. ASSUME BeginEnd(a) PROVE JobAt(a)'
        <3>1. worker' = worker /\ worker[a].pc \in {"settle", "record"} /\ mut' = Worker(a)
            BY <2>10 DEF BeginEnd, BeginMutation
        <3>. QED BY <1>2, <3>1 DEF JobAt
    <2>11. ASSUME EndSaved(a) \/ EndNotSaved(a) PROVE JobAt(a)'
        <3>1. worker'[a].pc \in {"off", "scan", "exiting", "blocked"}
            BY <1>1, <2>11 DEF EndSaved, EndNotSaved, NoWork
        <3>. QED BY <1>3, <3>1
    <2>. QED BY <1>6, <2>1, <2>2, <2>3, <2>4, <2>5, <2>6, <2>7, <2>8, <2>9, <2>10, <2>11
             DEF WorkerStep
<1>7. ASSUME WorkerStays(a), ~WorkerStep(a), ~Restart, worker'[a] = worker[a] PROVE JobAt(a)'
    <2>1. (mut = Worker(a)) <=> (mut' = Worker(a))
        BY <1>7, MutationHasOwner DEF WorkerStays
    <2>2. \A states \in SUBSET {"queued", "running"} : HasJob(a, states) =>
             HasJob(a, states)' /\ jobs'[worker[a].job].resume = jobs[worker[a].job].resume
        BY <1>7, JobStays
    <2>3. mut = Worker(a) => prev' = prev
        <3>1. NoFaultStep
            BY StepWithoutFault
        <3>. QED BY <1>2, <1>7, <2>1, <3>1, ActorsDiffer DEF NoFaultStep, Begins, ListsStay, SavesAll,
                  CommitMutation, BeginAdmission, BeginDelivery, BeginRunning, BeginEnd,
                  BeginMutation
    <2>. QED BY <1>2, <1>7, <2>1, <2>2, <2>3 DEF JobAt
<1>8. CASE WorkerStays(a) \/ WorkerStep(a) \/ DeclineJob(a)
    BY <1>3, <1>4, <1>5, <1>6, <1>7, <1>8 DEF WorkerStays
<1>. QED BY <1>8, StepOfWorker

(* Each step of a delivery, and the steps of all others.                   *)
LEMMA DeliveryAtKept ==
    ASSUME TypeOK, ListsAgree, ResultsAgree, StepsAgree, Next, diskFailures' = 0, NEW j \in Jobs
    PROVE  DeliveryAt(j)'
<1>1. delivery \in [Jobs -> DeliveryStates] /\ DeliveryAt(j) /\ DeliveryKnows(j)
    BY DEF TypeOK, StepsAgree, ResultsAgree
<1>2. NoFaultStep
    BY StepWithoutFault
<1>3. delivery[j] \notin {"off", "blocked"} => IsChild(j)' = IsChild(j)
    <2>1. Decided(j) => source'[j] = source[j]
        BY StepOfSends DEF CaptureSend, Decided
    <2>. QED BY <1>1, <2>1 DEF DeliveryKnows, IsChild, Parent
<1>4. ASSUME delivery'[j] \in {"off", "blocked"} PROVE DeliveryAt(j)'
    BY <1>4 DEF DeliveryAt
<1>5. ASSUME DeliveryStays(j), ~DeliveryStep(j), ~Restart, delivery'[j] = delivery[j],
             delivery[j] \notin {"off", "blocked"}
      PROVE  DeliveryAt(j)'
    <2>1. (mut = Deliverer(j)) <=> (mut' = Deliverer(j))
        BY <1>5 DEF DeliveryStays
    <2>2. EndedIn(jobs, j) => EndedIn(jobs', j)
        <3>1. ASSUME EndedIn(jobs, j), NEW a \in Agents, worker[a].job = j
              PROVE  ~BeginRunning(a) /\ ~BeginEnd(a)
            BY <3>1, BeginnerHasJob DEF HasJob, EndedIn, Ended
        <3>2. ~BeginDelivery(j)
            BY <1>5 DEF DeliveryStep
        <3>3. j \in DOMAIN jobs /\ EndedIn(jobs, j)
                 => j \in DOMAIN jobs' /\ jobs'[j].state = jobs[j].state
            BY <1>5, <3>1, <3>2, OthersKeepJob DEF EndedIn, Ended
        <3>. QED BY <3>3 DEF EndedIn
    <2>3. mut' # Nobody => prev' = IF mut = Nobody THEN jobs ELSE prev
        BY <1>2, <1>5 DEF NoFaultStep, Begins, ListsStay, SavesAll,
                  CommitMutation, BeginAdmission, BeginDelivery, BeginRunning, BeginEnd,
                  BeginMutation
    <2>4. mut' # Nobody /\ mut = Nobody => mut # Deliverer(j)
        BY ActorsDiffer
    <2>5. mut' # Nobody => EndedIn(prev', j)
        BY <1>1, <1>5, <2>3, <2>4 DEF DeliveryAt
    <2>. QED BY <1>1, <1>3, <1>5, <2>1, <2>2, <2>5 DEF DeliveryAt, EndedIn
<1>6. ASSUME DeliveryStays(j), ~DeliveryStep(j), delivery'[j] # delivery[j] PROVE DeliveryAt(j)'
    <2>1. CASE delivery[j] = "off" /\ delivery'[j] = "deliver"
        BY <2>1, WokenHasEnded DEF DeliveryAt, EndedIn
    <2>. QED BY <1>4, <1>6, <2>1 DEF DeliveryStays
<1>7. ASSUME DeliveryStep(j) PROVE DeliveryAt(j)'
    <2>1. ASSUME BeginDelivery(j) PROVE DeliveryAt(j)'
        <3>1. /\ delivery' = delivery /\ mut = Nobody /\ mut' = Deliverer(j) /\ prev' = jobs
              /\ jobs' = DeliveryChange(j) /\ delivery[j] \in Mutating
            BY <2>1 DEF BeginDelivery, BeginMutation
        <3>2. EndedIn(jobs, j)
            BY <2>1, DelivererHasEnded
        <3>3. ASSUME delivery[j] = "restore" \/ (delivery[j] = "deliver" /\ ~IsChild(j))
              PROVE  EndedIn(jobs', j)
            <4>1. PICK state \in Ended : jobs' = Rewrite(j, LAMBDA r : Fenced(r, state))
                BY <3>1, <3>3 DEF DeliveryChange, Ended
            <4>2. j \in DOMAIN jobs' /\ jobs'[j] = Fenced(jobs[j], state)
                BY <3>2, <4>1 DEF Rewrite, EndedIn
            <4>3. jobs'[j].state = state
                BY <3>2, <4>2 DEF Fenced, EndedIn, TypeOK, JobRecord
            <4>. QED BY <4>1, <4>2, <4>3 DEF EndedIn
        <3>4. delivery[j] \notin {"off", "blocked"}
            BY <3>1 DEF Mutating
        <3>. QED BY <1>3, <3>1, <3>2, <3>3, <3>4 DEF DeliveryAt, EndedIn
    <2>2. ASSUME AbsorbSaved(j) PROVE DeliveryAt(j)'
        <3>1. /\ delivery' = ScheduledDeliveries([delivery EXCEPT ![j] = "off"], Parent(j))
              /\ Parent(j) # j
            BY <2>2 DEF AbsorbSaved, ListsAgree
        <3>2. delivery'[j] = "off"
            BY <1>1, <3>1 DEF ScheduledDeliveries, WakeDelivery
        <3>. QED BY <1>4, <3>2
    <2>3. ASSUME FenceSaved(j) PROVE DeliveryAt(j)'
        <3>1. /\ delivery'[j] \in {"fallback", "accept"} /\ delivery[j] = "deliver" /\ ~IsChild(j)
              /\ mut' = Nobody /\ jobs' = jobs
            BY <1>1, <2>3 DEF FenceSaved, CommitMutation, Deliver, memory
        <3>. QED BY <1>1, <3>1 DEF DeliveryAt, EndedIn
    <2>4. ASSUME RemovalSaved(j) \/ RestoreSaved(j) PROVE DeliveryAt(j)'
        BY <1>1, <1>4, <2>4 DEF RemovalSaved, RestoreSaved, Deliver
    <2>5. ASSUME DeliveryNotSaved(j) PROVE DeliveryAt(j)'
        <3>1. ~RollBack(Deliverer(j))
            BY BoundsAssumption DEF RollBack, TypeOK
        <3>2. mut = Nobody /\ UNCHANGED <<jobs, mut, prev>> /\ delivery[j] \in Mutating
            BY <2>5, <3>1 DEF DeliveryNotSaved, Refuse, storage
        <3>3. EndedIn(jobs, j)
            BY <1>1, <3>2, ActorsDiffer DEF DeliveryAt, Mutating
        <3>. QED BY <3>2, <3>3 DEF DeliveryAt, EndedIn
    <2>6. ASSUME ContinuationStep(j) PROVE DeliveryAt(j)'
        <3>1. UNCHANGED <<jobs, mut, prev>> /\ delivery[j] \notin Mutating \cup {"off", "blocked"}
            BY <2>6 DEF ContinuationStep, RecordHandled, HandledSaved, HandledNotSaved,
                        InjectContinuation, ContinuationFails, ContinuationEnds, RawPosted,
                        RawNotPosted, DeliveryOnly, memory, storage, Mutating
        <3>2. mut # Deliverer(j)
            BY <1>1, <3>1 DEF DeliveryKnows
        <3>. QED BY <1>1, <3>1, <3>2 DEF DeliveryAt, EndedIn
    <2>. QED BY <1>7, <2>1, <2>2, <2>3, <2>4, <2>5, <2>6 DEF DeliveryStep
<1>8. CASE Restart
    <2>1. delivery'[j] = "off"
        BY <1>8 DEF Restart
    <2>. QED BY <1>4, <2>1
<1>9. DeliveryStays(j) \/ DeliveryStep(j)
    BY StepOfDelivery
<1>. QED BY <1>4, <1>5, <1>6, <1>7, <1>8, <1>9

(* No step breaks it.                                                      *)
LEMMA StepsAgreeKept ==
    ASSUME QueueIInv, diskFailures = 0 => StepsAgree, [Next]_vars
    PROVE  (diskFailures = 0 => StepsAgree)'
<1>1. CASE Next
    <2> SUFFICES ASSUME diskFailures' = 0 PROVE StepsAgree'
        OBVIOUS
    <2>1. StepsAgree
        BY <1>1, StepWithoutFault DEF QueueIInv
    <2>. QED BY <1>1, <2>1, JobAtKept, DeliveryAtKept DEF QueueIInv, StepsAgree
<1>2. CASE UNCHANGED vars
    BY <1>2 DEF vars, memory, storage, calls, StepsAgree, JobAt, HasJob, DeliveryAt, EndedIn,
                IsChild, Parent
<1>. QED BY <1>1, <1>2

(* While no save has failed, each worker and each delivery has its job.    *)
LEMMA StepsAlwaysAgree == SafetySpec => [](diskFailures = 0 => StepsAgree)
<1>1. Init => (diskFailures = 0 => StepsAgree)
    <2> SUFFICES ASSUME Init PROVE StepsAgree
        OBVIOUS
    <2>1. /\ \A a \in Agents : worker[a].pc = "off"
          /\ \A j \in Jobs : delivery[j] = "off"
        BY DEF Init, NoWork
    <2>. QED BY <2>1 DEF StepsAgree, JobAt, DeliveryAt
<1>. QED BY <1>1, StepsAgreeKept, QueueIsConsistent, PTL DEF SafetySpec

-----------------------------------------------------------------------------
(* A parent waits for its children.                                        *)

(* A job that is queued or has ended has no child that is still out.       *)
SettledRecord(r) == r.state \in {"queued"} \cup Ended => r.pending = {}
Settles(q) == \A p \in DOMAIN q : SettledRecord(q[p])

SendsAreOpen == \A j \in Jobs : j \in InFlight /\ source[j].kind = "job" => TurnOpen(source[j])
FamiliesWait == SendsAreOpen /\ Settles(jobs) /\ Settles(prev) /\ Settles(disk.jobs)

(* A turn's end, a child's result and a recovery leave no settled job with *)
(* a child that is out.                                                    *)
LEMMA EndsSettle ==
    ASSUME NEW r \in JobRecord, NEW result \in {"completed", "failed", "cut"}
    PROVE  SettledRecord(Settled(r, result))
BY DEF SettledRecord, Settled, SettleParent, ResultPending, Waiting, JobRecord, Ended

LEMMA JoinsSettle ==
    ASSUME NEW r \in JobRecord, NEW j \in Jobs, SettledRecord(r)
    PROVE  SettledRecord(Joined(r, j))
<1> DEFINE joined == [r EXCEPT !.pending = @ \ {j}, !.childOutcomes = @ \cup {j}]
<1>1. joined \in JobRecord /\ joined.state = r.state /\ joined.pending = r.pending \ {j}
    BY DEF JobRecord
<1>2. Joined(r, j) = IF r.state = "waiting_for_children" THEN SettleParent(joined) ELSE joined
    BY DEF Joined
<1>3. CASE r.state # "waiting_for_children"
    BY <1>1, <1>2, <1>3 DEF SettledRecord
<1>4. CASE r.state = "waiting_for_children"
    <2>. HIDE DEF joined
    <2>1. CASE joined.pending # {} \/ joined.childOutcomes = {}
        BY <1>1, <1>2, <1>4, <2>1 DEF SettleParent, SettledRecord, Ended
    <2>2. CASE joined.pending = {} /\ joined.childOutcomes # {}
        <3>1. SettleParent(joined).pending = {}
            BY <1>1, <2>2 DEF SettleParent, ResultPending, JobRecord
        <3>. QED BY <1>2, <1>4, <3>1 DEF SettledRecord
    <2>. QED BY <2>1, <2>2
<1>. QED BY <1>3, <1>4

LEMMA RecoverySettles ==
    ASSUME NEW q, IsList(q), Settles(q)
    PROVE  Settles(Recovered(q))
<1> SUFFICES ASSUME NEW p \in DOMAIN q PROVE SettledRecord(Recovered(q)[p])
    BY DEF Settles, Recovered
<1>1. q[p] \in JobRecord /\ SettledRecord(q[p])
    BY DEF IsList, Settles
<1>. QED BY <1>1 DEF Recovered, SettledRecord, Waiting, ResultPending, Fenced, JobRecord, Ended

(* A worker that is not off goes on by its own steps only.                 *)
LEMMA WorkerUntouched ==
    ASSUME TypeOK, Next, ~Restart, NEW a \in Agents, worker[a].pc # "off", ~WorkerStep(a),
           ~DeclineJob(a)
    PROVE  worker'[a] = worker[a]
<1>1. worker \in [Agents -> [pc: WorkerStates, job: Jobs \cup {NoJob},
                              result: {"completed", "failed", "cut"}, resume: SUBSET Jobs]]
      /\ target \in [Jobs -> Agents] /\ DOMAIN jobs \subseteq Jobs
    BY DEF TypeOK
<1>2. \A b \in Agents : WakeWorker(worker, b)[a] = worker[a]
    BY <1>1 DEF WakeWorker
<1>3. ASSUME NEW j \in Jobs, SendStep(j) PROVE worker'[a] = worker[a]
    BY <1>1, <1>2, <1>3 DEF SendStep, DeriveSend, BeginAdmission, RefuseSend, AcceptSend, RollBackSend
<1>4. ASSUME NEW j \in Jobs, DeliveryStep(j) PROVE worker'[a] = worker[a]
    <2>1. ScheduledWorkers(worker, Parent(j))[a] = worker[a]
        BY <1>1, <1>2 DEF ScheduledWorkers
    <2>. QED BY <1>4, <2>1 DEF DeliveryStep, ContinuationStep, BeginDelivery, AbsorbSaved,
                    FenceSaved, RemovalSaved, RestoreSaved, DeliveryNotSaved, RecordHandled,
                    HandledSaved, HandledNotSaved, InjectContinuation, ContinuationFails,
                    ContinuationEnds, RawPosted, RawNotPosted, DeliveryOnly
<1>5. ASSUME NEW b \in Agents, b # a, WorkerStep(b) \/ DeclineJob(b) PROVE worker'[a] = worker[a]
    BY <1>1, <1>5 DEF WorkerStep, PickJob, StopScanning, LeaveWorker, LeaseGranted, StartFails,
                  BeginRunning, RunningSaved, RunningNotSaved, RunTurn, TurnStep, TurnEnds, BeginEnd,
                  EndSaved, EndNotSaved, Goto, DeclineJob
<1>6. ASSUME RecoverySaved \/ RecoveryNotSaved PROVE worker'[a] = worker[a]
    BY <1>1, <1>6 DEF RecoverySaved, RecoveryNotSaved
<1>7. ASSUME Environment PROVE worker'[a] = worker[a]
    BY <1>5, <1>7 DEF Environment, CaptureSend, DenySend, OtherSave, BeginDrain, BeginShutdown
<1>. QED BY <1>3, <1>4, <1>5, <1>6, <1>7 DEF Next

(* A turn that is open stays open unless it ends itself.                   *)
LEMMA OpenStays ==
    ASSUME TypeOK, ListsAgree, StepsAgree, Next, diskFailures' = 0, ~Restart,
           NEW p \in Jobs, TurnOpen(JobTurn(p)), ~TurnStep(target[p])
    PROVE  TurnOpen(JobTurn(p))'
<1>1. PICK a \in Agents : a = target[p] /\ worker[a].pc = "turn" /\ worker[a].job = p
    BY DEF TypeOK, TurnOpen, JobTurn
<1>2. ~WorkerStep(a) /\ ~DeclineJob(a)
    BY <1>1 DEF WorkerStep, PickJob, StopScanning, LeaveWorker, LeaseGranted, StartFails,
                  BeginRunning, RunningSaved, RunningNotSaved, RunTurn, BeginEnd,
                  EndSaved, EndNotSaved, DeclineJob
<1>3. worker'[a] = worker[a]
    BY <1>1, <1>2, WorkerUntouched
<1>4. HasJob(a, {"running"})
    BY <1>1 DEF StepsAgree, JobAt
<1>5. HasJob(a, {"running"})'
    BY <1>1, <1>2, <1>3, <1>4, JobStays
<1>6. p \in DOMAIN jobs' /\ target'[p] = a
    BY <1>1, <1>3, <1>5 DEF HasJob
<1>. QED BY <1>1, <1>3, <1>6 DEF TurnOpen, JobTurn

(* A turn stays open for the sends that are in flight.                     *)
LEMMA SendsAreOpenKept ==
    ASSUME TypeOK, ListsAgree, StepsAgree, ~LateAdmission, SendsAreOpen, Next, diskFailures' = 0
    PROVE  SendsAreOpen'
<1> SUFFICES ASSUME NEW j \in Jobs, (j \in InFlight /\ source[j].kind = "job")'
             PROVE  TurnOpen(source[j])'
    BY DEF SendsAreOpen
<1>1. /\ send \in [Jobs -> {"none", "captured", "ready", "accepted", "refused"}]
      /\ source \in [Jobs -> [kind: {"none", "slack", "job"}, of: Jobs \cup {NoJob}]]
    BY DEF TypeOK
<1>2. CASE \E t \in Turns : CaptureSend(j, t)
    <2>1. PICK t \in Turns : CaptureSend(j, t)
        BY <1>2
    <2>2. /\ source'[j] = t /\ TurnOpen(t) /\ UNCHANGED <<jobs, worker, target, delivery>>
        BY <1>1, <2>1 DEF CaptureSend, memory
    <2>. QED BY <2>2 DEF TurnOpen
<1>3. CASE ~\E t \in Turns : CaptureSend(j, t)
    <2>1. source'[j] = source[j]
        BY <1>3, StepOfSends
    <2>2. j \in InFlight
        <3>1. CASE CallsStay
            BY <3>1 DEF CallsStay, InFlight
        <3>2. ASSUME NEW i \in Jobs, SendStep(i) \/ DenySend(i) \/ \E t \in Turns : CaptureSend(i, t)
              PROVE  j \in InFlight
            <4>1. CASE i = j
                <5>1. DenySend(j) => FALSE
                    BY <1>1 DEF DenySend, InFlight
                <5>2. SendStep(j) => send[j] \in {"captured", "ready"}
                    BY <1>1, StepOfSends
                       DEF SendStep, DeriveSend, BeginAdmission, RefuseSend, AcceptSend, RollBackSend,
                           InFlight, CommitMutation, RollBack, ListsAgree
                <5>. QED BY <1>3, <3>2, <4>1, <5>1, <5>2 DEF InFlight
            <4>2. CASE i # j
                <5>1. send'[j] = send[j]
                    BY <1>1, <3>2, <4>2 DEF SendStep, DeriveSend, BeginAdmission, RefuseSend,
                           AcceptSend, RollBackSend, DenySend, CaptureSend, calls
                <5>. QED BY <5>1 DEF InFlight
            <4>. QED BY <4>1, <4>2
        <3>3. CASE Restart
            BY <1>1, <3>3 DEF Restart, InFlight
        <3>. QED BY <3>1, <3>2, <3>3, StepOfCalls DEF CallMoves
    <2>3. PICK p \in Jobs : source[j] = JobTurn(p)
        <3>1. /\ source[j].kind = "job"
              /\ source[j] \in [kind: {"none", "slack", "job"}, of: Jobs \cup {NoJob}]
            BY <1>1, <2>1
        <3>2. TurnOpen(source[j])
            BY <2>2, <3>1 DEF SendsAreOpen
        <3>3. source[j].of \in Jobs
            BY <3>1, <3>2 DEF TurnOpen, TypeOK
        <3>. QED BY <3>1, <3>3 DEF JobTurn
    <2>4. TurnOpen(JobTurn(p))
        BY <2>2, <2>3 DEF SendsAreOpen, JobTurn
    <2>5. ~TurnStep(target[p])
        <3>1. worker[target[p]].job = p
            BY <2>4 DEF TurnOpen, JobTurn
        <3>2. j \in SendsOf(JobTurn(p)) \cap InFlight
            BY <2>2, <2>3 DEF SendsOf, InFlight
        <3>. QED BY <3>1, <3>2 DEF TurnStep, TurnEnds, MayClose
    <2>6. ~Restart
        BY <1>1 DEF Restart, InFlight
    <2>. QED BY <2>1, <2>3, <2>4, <2>5, <2>6, OpenStays
<1>. QED BY <1>2, <1>3

(* Each mutation leaves a settled list.                                    *)
LEMMA MemorySettles ==
    ASSUME TypeOK, ListsAgree, StepsAgree, FamiliesWait, Next, Begins
    PROVE  Settles(jobs')
<1>1. \A i \in DOMAIN jobs : i \in Jobs /\ jobs[i] \in JobRecord /\ SettledRecord(jobs[i])
    BY DEF TypeOK, FamiliesWait, Settles
<1>2. ASSUME NEW j \in Jobs, BeginAdmission(j) PROVE Settles(jobs')
    <2>1. j \notin DOMAIN jobs /\ send[j] = "ready"
        BY <1>2, ActorsDiffer DEF BeginAdmission, BeginMutation, ListsAgree, Decided
    <2>2. jobs' = Admitted(j)
        BY <1>2 DEF BeginAdmission, BeginMutation
    <2>3. DOMAIN jobs' = DOMAIN jobs \cup {j} /\ jobs'[j] = NewJob
        BY <2>1, <2>2 DEF Admitted, With, Rewrite
    <2>4. SettledRecord(NewJob)
        BY DEF SettledRecord, NewJob
    <2>5. ASSUME NEW i \in DOMAIN jobs, i = Parent(j) PROVE jobs[i].state = "running"
        <3>1. i # NoJob
            BY <1>1 DEF Jobs, NoJob
        <3>2. source[j].kind = "job" /\ source[j].of = i
            BY <2>5, <3>1 DEF Parent
        <3>3. TurnOpen(source[j])
            BY <2>1, <3>2 DEF FamiliesWait, SendsAreOpen, InFlight
        <3>4. worker[target[i]].pc = "turn" /\ worker[target[i]].job = i /\ target[i] \in Agents
            BY <1>1, <3>2, <3>3 DEF TurnOpen, TypeOK
        <3>. QED BY <3>4 DEF StepsAgree, JobAt, HasJob
    <2>6. ASSUME NEW i \in DOMAIN jobs PROVE SettledRecord(jobs'[i])
        <3>1. CASE i = Parent(j)
            <4>1. jobs'[i].state = "running"
                BY <1>1, <1>2, <2>5, <3>1, AdmissionKeepsJob DEF JobRecord
            <4>. QED BY <4>1 DEF SettledRecord, Ended
        <3>2. CASE i # Parent(j)
            BY <1>1, <1>2, <3>2, AdmissionKeepsJob
        <3>. QED BY <3>1, <3>2
    <2>. QED BY <2>3, <2>4, <2>6 DEF Settles
<1>3. ASSUME NEW a \in Agents, BeginRunning(a) PROVE Settles(jobs')
    <2>1. jobs' = Rewrite(worker[a].job, Running)
        BY <1>3 DEF BeginRunning, BeginMutation
    <2>2. \A i \in DOMAIN jobs : SettledRecord(Running(jobs[i]))
        BY <1>1 DEF Running, SettledRecord, Ended, JobRecord
    <2>. QED BY <1>1, <2>1, <2>2 DEF Rewrite, Settles
<1>4. ASSUME NEW a \in Agents, BeginEnd(a) PROVE Settles(jobs')
    <2>1. /\ jobs' = EndOfJob(a) /\ worker[a].pc \in {"settle", "record"} /\ mut # Worker(a)
          /\ worker[a].result \in {"completed", "failed", "cut"}
        BY <1>4, ActorsDiffer DEF BeginEnd, BeginMutation, TypeOK
    <2>2. CASE worker[a].pc = "settle"
        <3>1. \A i \in DOMAIN jobs : SettledRecord(Settled(jobs[i], worker[a].result))
            BY <1>1, <2>1, EndsSettle
        <3>2. DOMAIN jobs' = DOMAIN jobs /\ \A i \in DOMAIN jobs :
                 jobs'[i] \in {jobs[i], Settled(jobs[i], worker[a].result)}
            BY <2>1, <2>2 DEF EndOfJob, Rewrite
        <3>. QED BY <1>1, <3>1, <3>2 DEF Settles
    <2>3. CASE worker[a].pc = "record"
        <3>1. jobs[worker[a].job].state = "queued" /\ worker[a].job \in DOMAIN jobs
            BY <2>1, <2>3 DEF StepsAgree, JobAt, HasJob
        <3>2. jobs[worker[a].job].pending = {}
            BY <1>1, <3>1 DEF SettledRecord
        <3>3. SettledRecord(ResultPending(jobs[worker[a].job]))
            BY <1>1, <3>1, <3>2 DEF SettledRecord, ResultPending, JobRecord
        <3>4. DOMAIN jobs' = DOMAIN jobs /\ \A i \in DOMAIN jobs :
                 jobs'[i] = IF i = worker[a].job THEN ResultPending(jobs[i]) ELSE jobs[i]
            BY <2>1, <2>3 DEF EndOfJob, Rewrite
        <3>. QED BY <1>1, <3>3, <3>4 DEF Settles
    <2>. QED BY <2>1, <2>2, <2>3
<1>5. ASSUME NEW j \in Jobs, BeginDelivery(j) PROVE Settles(jobs')
    <2>1. delivery[j] \in Mutating /\ jobs' = DeliveryChange(j) /\ EndedIn(jobs, j)
        BY <1>5, DelivererHasEnded DEF BeginDelivery, BeginMutation
    <2>2. DOMAIN jobs' \subseteq DOMAIN jobs
        BY <2>1, DeliveryFollows
    <2>3. ASSUME NEW i \in DOMAIN jobs', i # j PROVE SettledRecord(jobs'[i])
        BY <1>1, <1>5, <2>2, <2>3, DeliveryKeepsJob, JoinsSettle
    <2>4. ASSUME j \in DOMAIN jobs' PROVE SettledRecord(jobs'[j])
        <3>1. jobs[j].pending = {} /\ jobs[j] \in JobRecord
            BY <1>1, <2>1 DEF EndedIn, SettledRecord
        <3>2. jobs'[j] \in {jobs[j], Fenced(jobs[j], "delivering"), Fenced(jobs[j], "result_pending")}
            BY <2>1, <2>2, <2>4 DEF DeliveryChange, Rewrite, Without, Mutating
        <3>. QED BY <3>1, <3>2 DEF SettledRecord, Fenced, JobRecord
    <2>. QED BY <2>3, <2>4 DEF Settles
<1>. QED BY <1>2, <1>3, <1>4, <1>5 DEF Begins

(* So do saves, and a restart.                                             *)
LEMMA FamiliesWaitKept ==
    ASSUME TypeOK, ListsAgree, StepsAgree, ~LateAdmission, FamiliesWait, Next, diskFailures' = 0
    PROVE  FamiliesWait'
<1>1. SendsAreOpen'
    BY SendsAreOpenKept DEF FamiliesWait
<1>2. Settles(EmptyQueue)
    BY DEF Settles, EmptyQueue
<1>3. CASE ListsStay \/ SavesAll \/ CommitMutation(mut)
    BY <1>1, <1>2, <1>3 DEF ListsStay, SavesAll, CommitMutation, Save, Snapshot, memory, FamiliesWait,
       Settles
<1>4. CASE Begins
    <2>1. prev' = jobs /\ disk' = disk
        BY <1>4 DEF Begins, BeginAdmission, BeginDelivery, BeginRunning, BeginEnd, BeginMutation
    <2>. QED BY <1>1, <1>4, <2>1, MemorySettles DEF FamiliesWait, Settles
<1>5. CASE Restart
    <2>1. Settles(Recovered(disk.jobs))
        BY RecoverySettles DEF TypeOK, IsList, FamiliesWait
    <2>2. jobs' \in {EmptyQueue, Recovered(disk.jobs)} /\ prev' \in {EmptyQueue, disk.jobs}
          /\ disk' = disk
        BY <1>5 DEF Restart
    <2>. QED BY <1>1, <1>2, <2>1, <2>2 DEF FamiliesWait
<1>. QED BY <1>3, <1>4, <1>5, StepWithoutFault DEF NoFaultStep

(* While no save has failed, families wait.                                *)
LEMMA FamiliesAlwaysWait ==
    ~LateAdmission => (SafetySpec => [](diskFailures = 0 => FamiliesWait))
<1> SUFFICES ASSUME ~LateAdmission PROVE SafetySpec => [](diskFailures = 0 => FamiliesWait)
    OBVIOUS
<1>1. Init => (diskFailures = 0 => FamiliesWait)
    BY DEF Init, FamiliesWait, SendsAreOpen, InFlight, Settles, EmptyQueue
<1>2. ASSUME QueueIInv, diskFailures = 0 => StepsAgree, diskFailures = 0 => FamiliesWait, [Next]_vars
      PROVE  (diskFailures = 0 => FamiliesWait)'
    <2>1. CASE Next
        <3> SUFFICES ASSUME diskFailures' = 0 PROVE FamiliesWait'
            OBVIOUS
        <3>1. StepsAgree /\ FamiliesWait
            BY <1>2, <2>1, StepWithoutFault DEF QueueIInv
        <3>. QED BY <1>2, <2>1, <3>1, FamiliesWaitKept DEF QueueIInv
    <2>2. CASE UNCHANGED vars
        BY <1>2, <2>2 DEF vars, memory, storage, calls, FamiliesWait, SendsAreOpen, InFlight,
           Settles, TurnOpen
    <2>. QED BY <1>2, <2>1, <2>2
<1>. QED BY <1>1, <1>2, QueueIsConsistent, StepsAlwaysAgree, PTL DEF SafetySpec

(* As long as no save has failed and no agent.send has outlived its turn,  *)
(* a job has a result only when the jobs it has sent have theirs, over     *)
(* drains, refusals, expired jobs and restarts (SettleParent, Settled).    *)
THEOREM ParentsWait ==
    ~LateAdmission => (SafetySpec => [](diskFailures = 0 => ParentWaitsForChildren))
<1>1. (diskFailures = 0 => FamiliesWait) => (diskFailures = 0 => ParentWaitsForChildren)
    BY DEF FamiliesWait, Settles, SettledRecord, ParentWaitsForChildren
<1>. QED BY <1>1, FamiliesAlwaysWait, PTL

-----------------------------------------------------------------------------
(* A parent is told each of its children's results once.                   *)

(* The children whose results a job holds, or is being resumed with.       *)
Results(r) == r.childOutcomes \cup r.resume
Apart(r) == r.childOutcomes \cap r.resume = {}
JoinedOnce(q) ==
    \A p \in DOMAIN q :
        Apart(q[p]) /\ \A c \in Results(q[p]) : Parent(c) = p /\ Decided(c) /\ c \notin DOMAIN q

(* No list holds the job any more, nor its result.                         *)
Gone(q, c) == c \notin DOMAIN q /\ \A p \in DOMAIN q : c \notin Results(q[p])
GoneEverywhere(c) == Decided(c) /\ Gone(jobs, c) /\ Gone(prev, c) /\ Gone(disk.jobs, c)

(* What a worker is about to tell has not been told, and no list holds it. *)
WorkerTells(a) ==
    \A c \in worker[a].resume :
        /\ worker[a].pc = "start" /\ mut = Worker(a) => Gone(jobs, c)
        /\ worker[a].pc = "project" =>
              Parent(c) = worker[a].job /\ told[c] = 0 /\ GoneEverywhere(c)
TellsAgree ==
    /\ JoinedOnce(jobs) /\ JoinedOnce(prev) /\ JoinedOnce(disk.jobs)
    /\ \A c \in Jobs : told[c] <= 1 /\ (told[c] > 0 => GoneEverywhere(c))
    /\ \A a \in Agents : WorkerTells(a)

(* The record n holds no result that r does not.                           *)
TellsOnly(r, n) == Results(n) \subseteq Results(r) /\ (Apart(r) => Apart(n))

(* Only a delivery adds a result to a job.                                 *)
LEMMA RecordsTell ==
    ASSUME NEW r \in JobRecord
    PROVE  /\ TellsOnly(r, r)
           /\ TellsOnly(r, ResultPending(r)) /\ TellsOnly(r, Waiting(r)) /\ TellsOnly(r, Running(r))
           /\ TellsOnly(r, SettleParent(r))
           /\ \A state \in Ended : TellsOnly(r, Fenced(r, state))
           /\ \A result \in {"completed", "failed", "cut"} : TellsOnly(r, Settled(r, result))
<1> USE DEF TellsOnly, Results, Apart, JobRecord
<1>1. TellsOnly(r, ResultPending(r)) /\ TellsOnly(r, Waiting(r)) /\ TellsOnly(r, Running(r))
    BY DEF ResultPending, Waiting, Running
<1>2. \A s \in JobRecord : TellsOnly(s, SettleParent(s))
    BY DEF SettleParent, ResultPending
<1>3. \A state \in Ended : TellsOnly(r, Fenced(r, state))
    BY DEF Fenced
<1>4. ASSUME NEW result \in {"completed", "failed", "cut"} PROVE TellsOnly(r, Settled(r, result))
    <2> DEFINE f == IF result = "completed" THEN r ELSE [r EXCEPT !.turnFailure = result]
    <2>1. f \in JobRecord /\ f.childOutcomes = r.childOutcomes /\ f.resume = r.resume
        BY DEF Failures
    <2>2. TellsOnly(f, SettleParent(f))
        BY <1>2, <2>1
    <2>3. TellsOnly(f, Waiting(f))
        BY <2>1 DEF Waiting
    <2>4. Settled(r, result) \in {ResultPending(r), Waiting(f), SettleParent(f)}
        BY DEF Settled
    <2>. HIDE DEF f
    <2>. QED BY <1>1, <2>1, <2>2, <2>3, <2>4
<1>. QED BY <1>1, <1>2, <1>3, <1>4

LEMMA JoinTells ==
    ASSUME NEW r \in JobRecord, NEW j \in Jobs, j \notin Results(r), Apart(r)
    PROVE  Results(Joined(r, j)) \subseteq Results(r) \cup {j} /\ Apart(Joined(r, j))
<1> DEFINE joined == [r EXCEPT !.pending = @ \ {j}, !.childOutcomes = @ \cup {j}]
<1>1. joined \in JobRecord /\ Results(joined) = Results(r) \cup {j} /\ Apart(joined)
    BY DEF JobRecord, Results, Apart
<1>2. Joined(r, j) \in {joined, SettleParent(joined)}
    BY DEF Joined
<1>. HIDE DEF joined
<1>3. TellsOnly(joined, SettleParent(joined))
    BY <1>1, RecordsTell
<1>. QED BY <1>1, <1>2, <1>3 DEF TellsOnly

LEMMA RecoveryTells ==
    ASSUME NEW q, IsList(q), NEW p \in DOMAIN q
    PROVE  TellsOnly(q[p], Recovered(q)[p])
<1>1. q[p] \in JobRecord
    BY DEF IsList
<1>. QED BY <1>1 DEF Recovered, TellsOnly, Results, Apart, Waiting, ResultPending, Fenced, JobRecord

(* A mutation joins only the child it removes, which nobody held.          *)
LEMMA BegunTells ==
    ASSUME TypeOK, ListsAgree, ResultsAgree, StepsAgree, JoinedOnce(jobs), Begins
    PROVE  JoinedOnce(jobs') /\ \A c \in Jobs : Decided(c) /\ Gone(jobs, c) => Gone(jobs', c)
<1> DEFINE Goal == JoinedOnce(jobs') /\ \A c \in Jobs : Decided(c) /\ Gone(jobs, c) => Gone(jobs', c)
<1>1. \A i \in DOMAIN jobs : i \in Jobs /\ jobs[i] \in JobRecord /\ Results(jobs[i]) \subseteq Jobs
    BY DEF TypeOK, Results, JobRecord
<1>2. ASSUME \A i \in DOMAIN jobs' : \/ i \in DOMAIN jobs /\ TellsOnly(jobs[i], jobs'[i])
                                     \/ ~Decided(i) /\ Results(jobs'[i]) = {} /\ Apart(jobs'[i])
      PROVE  Goal
    <2>1. ASSUME NEW i \in DOMAIN jobs'
          PROVE  /\ Apart(jobs'[i])
                 /\ \A c \in Results(jobs'[i]) : i \in DOMAIN jobs /\ c \in Results(jobs[i])
        BY <1>2 DEF TellsOnly, JoinedOnce
    <2>. QED BY <1>2, <2>1 DEF JoinedOnce, Gone
<1>3. ASSUME NEW j \in Jobs, BeginAdmission(j) PROVE Goal
    <2>1. /\ ~Decided(j) /\ j \notin DOMAIN jobs
          /\ DOMAIN jobs' = DOMAIN jobs \cup {j} /\ jobs' = Admitted(j)
        BY <1>3, ActorsDiffer DEF BeginAdmission, BeginMutation, Decided, ListsAgree, Admitted,
                                  With, Rewrite
    <2>2. jobs'[j] = NewJob
        BY <2>1 DEF Admitted, With, Rewrite
    <2>3. Results(jobs'[j]) = {} /\ Apart(jobs'[j])
        BY <2>2 DEF NewJob, Results, Apart
    <2>4. \A i \in DOMAIN jobs : TellsOnly(jobs[i], jobs'[i])
        BY <1>1, <1>3, AdmissionKeepsJob DEF TellsOnly, Results, Apart, JobRecord
    <2>. QED BY <1>2, <2>1, <2>3, <2>4
<1>4. ASSUME NEW a \in Agents, BeginRunning(a) \/ BeginEnd(a) PROVE Goal
    <2>1. worker[a].result \in {"completed", "failed", "cut"}
        BY DEF TypeOK
    <2>2. DOMAIN jobs' = DOMAIN jobs /\ \A i \in DOMAIN jobs :
             jobs'[i] \in {jobs[i], Running(jobs[i]), ResultPending(jobs[i]),
                           Settled(jobs[i], worker[a].result)}
        BY <1>4 DEF BeginRunning, BeginEnd, BeginMutation, EndOfJob, Rewrite
    <2>3. \A i \in DOMAIN jobs : TellsOnly(jobs[i], jobs'[i])
        BY <1>1, <2>1, <2>2, RecordsTell
    <2>. QED BY <1>2, <2>2, <2>3
<1>5. ASSUME NEW j \in Jobs, BeginDelivery(j) PROVE Goal
    <2>1. /\ delivery[j] \in Mutating /\ jobs' = DeliveryChange(j) /\ EndedIn(jobs, j) /\ Decided(j)
          /\ DOMAIN jobs' \subseteq DOMAIN jobs
        BY <1>5, DelivererHasEnded, DeliveryFollows
           DEF BeginDelivery, BeginMutation, ResultsAgree, DeliveryKnows, Mutating
    <2>2. CASE delivery[j] = "deliver" /\ IsChild(j)
        <3>1. j \notin DOMAIN jobs'
            BY <2>1, <2>2 DEF DeliveryChange, Without
        <3>2. \A i \in DOMAIN jobs' : i \in DOMAIN jobs /\ i # j
                 /\ jobs'[i] = IF i = Parent(j) THEN Joined(jobs[i], j) ELSE jobs[i]
            BY <1>5, <2>1, <2>2, <3>1, DeliveryKeepsJob
        <3>3. \A i \in DOMAIN jobs : j \notin Results(jobs[i]) /\ Apart(jobs[i])
            BY <2>1 DEF JoinedOnce, EndedIn
        <3>4. ASSUME NEW i \in DOMAIN jobs'
              PROVE  /\ Apart(jobs'[i])
                     /\ \A c \in Results(jobs'[i]) :
                           c \in Results(jobs[i]) \/ (c = j /\ i = Parent(j))
            BY <1>1, <3>2, <3>3, JoinTells
        <3>. QED BY <2>1, <3>1, <3>2, <3>4 DEF JoinedOnce, Gone, EndedIn
    <2>3. CASE ~(delivery[j] = "deliver" /\ IsChild(j))
        <3>1. \A i \in DOMAIN jobs' : \/ jobs'[i] = jobs[i]
                                      \/ \E state \in Ended : jobs'[i] = Fenced(jobs[i], state)
            BY <2>1, <2>3 DEF DeliveryChange, Rewrite, Without, Ended
        <3>2. \A i \in DOMAIN jobs' : i \in DOMAIN jobs /\ TellsOnly(jobs[i], jobs'[i])
            BY <1>1, <2>1, <3>1, RecordsTell
        <3>. QED BY <1>2, <3>2
    <2>. QED BY <2>2, <2>3
<1>. QED BY <1>3, <1>4, <1>5 DEF Begins

(* The next process tells what is on file.                                 *)
LEMMA RestartTells ==
    ASSUME TypeOK, JoinedOnce(disk.jobs), Restart
    PROVE  /\ JoinedOnce(jobs') /\ JoinedOnce(prev')
           /\ \A c \in Jobs : Gone(disk.jobs, c) => Gone(jobs', c) /\ Gone(prev', c)
<1>1. JoinedOnce(EmptyQueue) /\ \A c \in Jobs : Gone(EmptyQueue, c)
    BY DEF JoinedOnce, Gone, EmptyQueue
<1>2. IsList(disk.jobs)
    BY DEF TypeOK, IsList
<1>3. \A p \in DOMAIN disk.jobs : TellsOnly(disk.jobs[p], Recovered(disk.jobs)[p])
    BY <1>2, RecoveryTells
<1>4. DOMAIN Recovered(disk.jobs) = DOMAIN disk.jobs
    BY DEF Recovered
<1>5. /\ JoinedOnce(Recovered(disk.jobs))
      /\ \A c \in Jobs : Gone(disk.jobs, c) => Gone(Recovered(disk.jobs), c)
    BY <1>3, <1>4 DEF JoinedOnce, Gone, TellsOnly
<1>6. jobs' \in {EmptyQueue, Recovered(disk.jobs)} /\ prev' \in {EmptyQueue, disk.jobs}
    BY DEF Restart
<1>. QED BY <1>1, <1>5, <1>6

(* The admission of a job that is decided, and who sent it, are final.     *)
LEMMA FamilyStays ==
    ASSUME TypeOK, ListsAgree, Next, NEW c \in Jobs, Decided(c)
    PROVE  Decided(c)' /\ Parent(c)' = Parent(c)
<1>1. send'[c] = send[c] /\ ~\E t \in Turns : CaptureSend(c, t)
    BY StepOfSends DEF Decided, CaptureSend
<1>2. source'[c] = source[c]
    BY <1>1, StepOfSends
<1>. QED BY <1>1, <1>2 DEF Decided, Parent

(* No list takes back a result that is gone.                               *)
LEMMA ListsTell ==
    ASSUME TypeOK, ListsAgree, ResultsAgree, StepsAgree, Next, diskFailures' = 0,
           JoinedOnce(jobs), JoinedOnce(prev), JoinedOnce(disk.jobs)
    PROVE  /\ JoinedOnce(jobs)' /\ JoinedOnce(prev)' /\ JoinedOnce(disk.jobs)'
           /\ \A c \in Jobs : GoneEverywhere(c) => GoneEverywhere(c)'
<1>1. JoinedOnce(EmptyQueue) /\ \A c \in Jobs : Gone(EmptyQueue, c)
    BY DEF JoinedOnce, Gone, EmptyQueue
<1>2. /\ JoinedOnce(jobs') /\ JoinedOnce(prev') /\ JoinedOnce(disk'.jobs)
      /\ \A c \in Jobs : GoneEverywhere(c) => Gone(jobs', c) /\ Gone(prev', c) /\ Gone(disk'.jobs, c)
    <2>1. CASE ListsStay \/ SavesAll \/ CommitMutation(mut)
        BY <1>1, <2>1 DEF ListsStay, SavesAll, CommitMutation, Save, Snapshot, memory, GoneEverywhere
    <2>2. CASE Begins
        <3>1. prev' = jobs /\ disk' = disk
            BY <2>2 DEF Begins, BeginAdmission, BeginDelivery, BeginRunning, BeginEnd, BeginMutation
        <3>. QED BY <2>2, <3>1, BegunTells DEF GoneEverywhere
    <2>3. CASE Restart
        <3>1. disk' = disk
            BY <2>3 DEF Restart
        <3>. QED BY <2>3, <3>1, RestartTells DEF GoneEverywhere
    <2>. QED BY <2>1, <2>2, <2>3, StepWithoutFault DEF NoFaultStep
<1>3. \A c \in Jobs : Decided(c) => Decided(c)' /\ Parent(c)' = Parent(c)
    BY FamilyStays
<1>4. /\ \A p \in DOMAIN jobs' : Results(jobs'[p]) \subseteq Jobs
      /\ \A p \in DOMAIN prev' : Results(prev'[p]) \subseteq Jobs
      /\ \A p \in DOMAIN disk'.jobs : Results(disk'.jobs[p]) \subseteq Jobs
    BY TypesKept DEF TypeOK, Results, JobRecord
<1>5. JoinedOnce(jobs)' /\ JoinedOnce(prev)' /\ JoinedOnce(disk.jobs)'
    BY <1>2, <1>3, <1>4 DEF JoinedOnce
<1>. QED BY <1>2, <1>3, <1>5 DEF GoneEverywhere, Gone

(* Only a turn's message tells, and only it executes.                      *)
LEMMA StepOfTold ==
    ASSUME Next
    PROVE  UNCHANGED <<execs, told>> \/ \E a \in Agents : RunTurn(a)
BY DEF Next, Environment, SendStep, DeliveryStep, ContinuationStep, WorkerStep, TurnStep,
       CaptureSend, DenySend, DeclineJob, OtherSave, BeginDrain, BeginShutdown, Restart,
       DeriveSend, BeginAdmission, RefuseSend, AcceptSend, RollBackSend, PickJob, StopScanning,
       LeaveWorker, LeaseGranted, StartFails, BeginRunning, RunningSaved, RunningNotSaved,
       TurnEnds, BeginEnd, EndSaved, EndNotSaved, BeginDelivery, AbsorbSaved,
       FenceSaved, RemovalSaved, RestoreSaved, DeliveryNotSaved, RecordHandled, HandledSaved,
       HandledNotSaved, InjectContinuation, ContinuationFails, ContinuationEnds, RawPosted,
       RawNotPosted, RecoverySaved, RecoveryNotSaved, DeliveryOnly, WorkerOnly, history

(* A parent has one worker, and nobody else tells its children's results.  *)
LEMMA NobodyElseTells ==
    ASSUME TypeOK, StepsAgree, TellsAgree, Next, NEW a \in Agents, ~WorkerStep(a),
           worker[a].pc = "project", NEW c \in worker[a].resume
    PROVE  told'[c] = told[c]
<1>1. c \in Jobs /\ told \in [Jobs -> Nat]
    BY DEF TypeOK
<1>2. ASSUME NEW b \in Agents, RunTurn(b) PROVE c \notin worker[b].resume
    <2>1. b # a /\ worker[b].pc = "project"
        BY <1>2 DEF WorkerStep, RunTurn
    <2>2. target[worker[a].job] = a /\ target[worker[b].job] = b
        BY <2>1 DEF StepsAgree, JobAt, HasJob
    <2>3. c \in worker[b].resume => worker[b].job = worker[a].job
        BY <2>1 DEF TellsAgree, WorkerTells
    <2>. QED BY <2>1, <2>2, <2>3
<1>3. ASSUME NEW b \in Agents, RunTurn(b) PROVE told'[c] = told[c]
    BY <1>1, <1>2, <1>3 DEF RunTurn
<1>. QED BY <1>3, StepOfTold

(* What a worker will tell: from the list it has saved.                    *)
LEMMA WorkerTellsKept ==
    ASSUME TypeOK, ListsAgree, MessagesAgree, ResultsAgree, StepsAgree, TellsAgree, Next,
           diskFailures' = 0, NEW a \in Agents
    PROVE  WorkerTells(a)'
<1>1. worker \in [Agents -> [pc: WorkerStates, job: Jobs \cup {NoJob},
                              result: {"completed", "failed", "cut"}, resume: SUBSET Jobs]]
      /\ told \in [Jobs -> Nat]
    BY DEF TypeOK
<1>2. /\ JobAt(a) /\ WorkerTells(a) /\ Nobody # Worker(a)
      /\ mut = Worker(a) => worker[a].pc \in {"start", "settle", "record"}
    BY ActorsDiffer DEF StepsAgree, TellsAgree, MessagesAgree, WorkerKnows
<1>3. /\ \A c \in Jobs : GoneEverywhere(c) => GoneEverywhere(c)'
      /\ \A c \in Jobs : Decided(c) => Parent(c)' = Parent(c)
    BY ListsTell, FamilyStays DEF TellsAgree
<1>4. ASSUME worker'[a].pc \notin {"start", "project"} PROVE WorkerTells(a)'
    BY <1>4 DEF WorkerTells
<1>5. ASSUME worker'[a].pc = "start", mut' # Worker(a) PROVE WorkerTells(a)'
    BY <1>5 DEF WorkerTells
<1>6. CASE Restart
    <2>1. worker'[a].pc = "off"
        BY <1>6 DEF Restart, NoWork
    <2>. QED BY <1>4, <2>1
<1>7. CASE DeclineJob(a)
    <2>1. worker'[a].pc = "record"
        BY <1>1, <1>7 DEF DeclineJob, Goto
    <2>. QED BY <1>4, <2>1
<1>8. CASE WorkerStep(a)
    <2>1. CASE BeginRunning(a)
        <3>1. /\ worker' = worker /\ worker[a].pc = "start" /\ mut = Nobody
              /\ jobs' = Rewrite(worker[a].job, Running)
            BY <2>1 DEF BeginRunning, BeginMutation
        <3>2. HasJob(a, {"queued"}) /\ jobs[worker[a].job].resume = worker[a].resume
            BY <1>2, <3>1 DEF JobAt
        <3>3. PICK p \in DOMAIN jobs : p = worker[a].job
            BY <3>2 DEF HasJob
        <3>4. \A c \in jobs[p].resume :
                 c \notin DOMAIN jobs /\ Parent(c) = p /\ c \notin jobs[p].childOutcomes
            BY DEF TellsAgree, JoinedOnce, Results, Apart
        <3>5. DOMAIN jobs' = DOMAIN jobs /\ jobs'[p] = Running(jobs[p])
              /\ \A i \in DOMAIN jobs : i # p => jobs'[i] = jobs[i]
            BY <3>1, <3>3 DEF Rewrite
        <3>6. Results(jobs'[p]) = jobs[p].childOutcomes
            BY <3>5 DEF Results, Running, TypeOK, JobRecord
        <3>7. \A c \in jobs[p].resume, i \in DOMAIN jobs : i # p => c \notin Results(jobs[i])
            BY <3>4 DEF TellsAgree, JoinedOnce
        <3>8. \A c \in worker[a].resume : Gone(jobs', c)
            BY <3>2, <3>3, <3>4, <3>5, <3>6, <3>7 DEF Gone
        <3>. QED BY <3>1, <3>8 DEF WorkerTells, Gone
    <2>2. CASE RunningSaved(a)
        <3>1. /\ worker[a].pc = "start" /\ mut = Worker(a) /\ worker'[a].pc \in {"project", "settle"}
              /\ worker'[a].job = worker[a].job /\ worker'[a].resume = worker[a].resume
              /\ told' = told /\ jobs' = jobs /\ disk'.jobs = jobs /\ prev' = EmptyQueue
            BY <1>1, <2>2 DEF RunningSaved, CommitMutation, Save, Snapshot, memory, history
        <3>2. worker[a].job \in DOMAIN prev /\ prev[worker[a].job].resume = worker[a].resume
            BY <1>2, <3>1 DEF JobAt
        <3>3. ASSUME NEW c \in worker[a].resume
              PROVE  /\ Parent(c) = worker[a].job /\ Decided(c) /\ told[c] = 0
                     /\ Gone(jobs, c) /\ Gone(EmptyQueue, c)
            <4>1. c \in Jobs /\ c \in Results(prev[worker[a].job])
                BY <1>1, <3>2 DEF Results
            <4>2. Parent(c) = worker[a].job /\ Decided(c)
                BY <3>2, <4>1 DEF TellsAgree, JoinedOnce
            <4>3. ~(told[c] > 0)
                BY <3>2, <4>1 DEF TellsAgree, GoneEverywhere, Gone
            <4>4. Gone(jobs, c)
                BY <1>2, <3>1 DEF WorkerTells
            <4>5. Gone(EmptyQueue, c)
                BY DEF Gone, EmptyQueue
            <4>. QED BY <1>1, <4>1, <4>2, <4>3, <4>4, <4>5
        <3>4. \A c \in worker[a].resume : Decided(c)' /\ Parent(c)' = Parent(c)
            BY <1>1, <3>3, FamilyStays
        <3>5. mut' # Worker(a)
            BY <1>2, <2>2 DEF RunningSaved, CommitMutation
        <3>. QED BY <3>1, <3>3, <3>4, <3>5 DEF WorkerTells, GoneEverywhere, Gone
    <2>3. CASE LeaseGranted(a)
        <3>1. worker[a].pc = "wait" /\ mut' = mut /\ worker'[a].pc \in {"start", "scan"}
            BY <1>1, <2>3 DEF LeaseGranted, Goto, WorkerOnly, storage
        <3>. QED BY <1>2, <1>4, <1>5, <3>1
    <2>4. CASE ~(BeginRunning(a) \/ RunningSaved(a) \/ LeaseGranted(a))
        <3>1. PickJob(a) => worker'[a].pc = "wait"
            BY <1>1 DEF PickJob, NoWork
        <3>2. StopScanning(a) \/ LeaveWorker(a) => worker'[a].pc \in {"exiting", "scan", "off"}
            BY <1>1 DEF StopScanning, LeaveWorker, Goto, NoWork
        <3>3. StartFails(a) \/ RunningNotSaved(a) \/ TurnStep(a) => worker'[a].pc = "settle"
            BY <1>1 DEF StartFails, RunningNotSaved, TurnStep, TurnEnds
        <3>4. RunTurn(a) => worker'[a].pc = "turn"
            BY <1>1 DEF RunTurn, Goto
        <3>5. BeginEnd(a) => worker'[a].pc \in {"settle", "record"}
            BY DEF BeginEnd
        <3>6. EndSaved(a) \/ EndNotSaved(a) => worker'[a].pc \in {"scan", "blocked"}
            BY <1>1 DEF EndSaved, EndNotSaved, NoWork
        <3>7. worker'[a].pc \notin {"start", "project"}
            BY <1>8, <2>4, <3>1, <3>2, <3>3, <3>4, <3>5, <3>6 DEF WorkerStep
        <3>. QED BY <1>4, <3>7
    <2>. QED BY <2>1, <2>2, <2>3, <2>4
<1>9. ASSUME WorkerStays(a), worker'[a] = worker[a], ~WorkerStep(a), ~Restart PROVE WorkerTells(a)'
    <2>1. ASSUME worker[a].pc = "start", mut' = Worker(a) PROVE jobs' = jobs
        <3>1. mut = Worker(a)
            BY <1>9, <2>1 DEF WorkerStays
        <3>. QED BY <1>2, <1>9, <3>1, StepWithoutFault DEF NoFaultStep, Begins, ListsStay, SavesAll,
                  CommitMutation, BeginAdmission, BeginDelivery, BeginRunning, BeginEnd,
                  BeginMutation, memory
    <2>2. CASE worker[a].pc = "start"
        BY <1>2, <1>9, <2>1, <2>2 DEF WorkerTells, WorkerStays, Gone
    <2>3. ASSUME worker[a].pc = "project", NEW c \in worker[a].resume
          PROVE  Parent(c)' = worker[a].job /\ told'[c] = 0 /\ GoneEverywhere(c)'
        <3>1. c \in Jobs /\ Parent(c) = worker[a].job /\ told[c] = 0 /\ GoneEverywhere(c) /\ Decided(c)
            BY <1>1, <1>2, <2>3 DEF WorkerTells, GoneEverywhere
        <3>. QED BY <1>3, <1>9, <2>3, <3>1, NobodyElseTells
    <2>. QED BY <1>4, <1>9, <2>2, <2>3 DEF WorkerTells
<1>10. ASSUME WorkerStays(a), worker'[a] # worker[a] PROVE WorkerTells(a)'
    BY <1>4, <1>10 DEF WorkerStays
<1>. QED BY <1>6, <1>7, <1>8, <1>9, <1>10, StepOfWorker

(* No step breaks it.                                                      *)
LEMMA TellsAgreeKept ==
    ASSUME TypeOK, ListsAgree, MessagesAgree, ResultsAgree, StepsAgree, TellsAgree, Next,
           diskFailures' = 0
    PROVE  TellsAgree'
<1>1. /\ JoinedOnce(jobs)' /\ JoinedOnce(prev)' /\ JoinedOnce(disk.jobs)'
      /\ \A c \in Jobs : GoneEverywhere(c) => GoneEverywhere(c)'
    BY ListsTell DEF TellsAgree
<1>2. ASSUME NEW c \in Jobs PROVE (told[c] <= 1 /\ (told[c] > 0 => GoneEverywhere(c)))'
    <2>1. told[c] <= 1 /\ (told[c] > 0 => GoneEverywhere(c)) /\ told \in [Jobs -> Nat]
        BY DEF TellsAgree, TypeOK
    <2>2. CASE told'[c] = told[c]
        BY <1>1, <2>1, <2>2
    <2>3. ASSUME NEW a \in Agents, RunTurn(a), told'[c] # told[c]
          PROVE  told'[c] = 1 /\ GoneEverywhere(c)
        <3>1. worker[a].pc = "project" /\ c \in worker[a].resume /\ told'[c] = told[c] + 1
            BY <2>3 DEF RunTurn
        <3>2. told[c] = 0 /\ GoneEverywhere(c)
            BY <3>1 DEF TellsAgree, WorkerTells
        <3>. QED BY <3>1, <3>2
    <2>. QED BY <1>1, <2>1, <2>2, <2>3, StepOfTold
<1>. QED BY <1>1, <1>2, WorkerTellsKept DEF TellsAgree

(* As long as no save fails, the result of a child is in the message of at *)
(* most one turn of its parent, over crashes, drains and workers that saw  *)
(* the parent queued before the save of that list (SettleParent,           *)
(* #runTargetQueue).                                                       *)
THEOREM ToldOnce == SafetySpec => []ChildResultToldOnce
<1>1. Init => (diskFailures = 0 => TellsAgree)
    <2> SUFFICES ASSUME Init PROVE TellsAgree
        OBVIOUS
    <2>1. jobs = EmptyQueue /\ prev = EmptyQueue /\ disk.jobs = EmptyQueue
          /\ (\A c \in Jobs : told[c] = 0) /\ \A a \in Agents : worker[a].pc = "off"
        BY DEF Init, NoWork
    <2>2. JoinedOnce(EmptyQueue)
        BY DEF JoinedOnce, EmptyQueue
    <2>. QED BY <2>1, <2>2 DEF TellsAgree, WorkerTells
<1>2. ASSUME QueueIInv, diskFailures = 0 => StepsAgree, diskFailures = 0 => TellsAgree, [Next]_vars
      PROVE  (diskFailures = 0 => TellsAgree)'
    <2>1. CASE Next
        <3> SUFFICES ASSUME diskFailures' = 0 PROVE TellsAgree'
            OBVIOUS
        <3>1. StepsAgree /\ TellsAgree
            BY <1>2, <2>1, StepWithoutFault DEF QueueIInv
        <3>. QED BY <1>2, <2>1, <3>1, TellsAgreeKept DEF QueueIInv
    <2>2. CASE UNCHANGED vars
        BY <1>2, <2>2 DEF vars, memory, storage, calls, history, TellsAgree, JoinedOnce, WorkerTells,
           GoneEverywhere, Gone, Decided, Parent
    <2>. QED BY <1>2, <2>1, <2>2
<1>3. (diskFailures = 0 => TellsAgree) => ChildResultToldOnce
    BY DEF TellsAgree, ChildResultToldOnce
<1>. QED BY <1>1, <1>2, <1>3, QueueIsConsistent, StepsAlwaysAgree, PTL DEF SafetySpec

-----------------------------------------------------------------------------
(* The promise: without failed saves and restarts, every step of the queue *)
(* is a step of DelegationPromise.                                         *)

(* The results a job has been given, in whatever form it keeps them.       *)
Heard(r) == r.childOutcomes \cup r.resume \cup r.text

(* A listed job is a pending child of its listed parent.                   *)
Linked(q) ==
    \A j \in DOMAIN q : Parent(j) # NoJob => Parent(j) \in DOMAIN q /\ j \in q[Parent(j)].pending

StartedHaveChildren ==
    /\ \A p \in DOMAIN jobs : jobs[p].pending \cup Heard(jobs[p]) # {} => execs[p] > 0
    /\ \A a \in Agents :
          \/ worker[a].pc = "turn"
          \/ worker[a].pc \in {"wait", "start", "project"} /\ worker[a].resume # {}
          => execs[worker[a].job] > 0
ListedAreAccepted ==
    /\ \A j \in DOMAIN jobs : send[j] = "accepted" \/ mut = Sender(j)
    /\ \A j \in DOMAIN prev : send[j] = "accepted"
ArrivedAreOver ==
    /\ \A j \in Jobs : Arrived(j) => send[j] = "accepted"
    /\ \A j \in DOMAIN jobs : j \notin absorbed /\ (shown[j] > 0 => jobs[j].state \in Ended)
    /\ \A i \in Joins(jobs) : i \in absorbed \/ (mut = Deliverer(i) /\ i \notin DOMAIN jobs)
PromiseAgrees ==
    Linked(jobs) /\ Linked(prev) /\ StartedHaveChildren /\ ListedAreAccepted /\ ArrivedAreOver

KeepsFamily(r, n) == n.pending \subseteq r.pending /\ Heard(n) \subseteq Heard(r)

(* Only an admission adds a child, and only a delivery a result.           *)
LEMMA RecordsKeepFamily ==
    ASSUME NEW r \in JobRecord
    PROVE  /\ KeepsFamily(r, r) /\ KeepsFamily(r, ResultPending(r)) /\ KeepsFamily(r, Running(r))
           /\ KeepsFamily(r, SettleParent(r))
           /\ \A state \in Ended : KeepsFamily(r, Fenced(r, state))
           /\ \A result \in {"completed", "failed", "cut"} : KeepsFamily(r, Settled(r, result))
<1> USE DEF KeepsFamily, Heard, JobRecord
<1>1. KeepsFamily(r, ResultPending(r)) /\ KeepsFamily(r, Running(r))
    BY DEF ResultPending, Running
<1>2. \A s \in JobRecord : KeepsFamily(s, SettleParent(s))
    BY DEF SettleParent, ResultPending
<1>3. \A state \in Ended : KeepsFamily(r, Fenced(r, state))
    BY DEF Fenced
<1>4. ASSUME NEW result \in {"completed", "failed", "cut"} PROVE KeepsFamily(r, Settled(r, result))
    <2> DEFINE f == IF result = "completed" THEN r ELSE [r EXCEPT !.turnFailure = result]
    <2>1. f \in JobRecord /\ f.pending = r.pending /\ Heard(f) = Heard(r)
        BY DEF Failures
    <2>2. KeepsFamily(f, SettleParent(f))
        BY <1>2, <2>1
    <2>3. KeepsFamily(f, Waiting(f))
        BY <2>1 DEF Waiting
    <2>4. Settled(r, result) \in {ResultPending(r), Waiting(f), SettleParent(f)}
        BY DEF Settled
    <2>. HIDE DEF f
    <2>. QED BY <1>1, <2>1, <2>2, <2>3, <2>4
<1>. QED BY <1>1, <1>2, <1>3, <1>4

LEMMA JoinsHear ==
    ASSUME NEW r \in JobRecord, NEW j \in Jobs
    PROVE  Joined(r, j).pending \subseteq r.pending /\ Heard(Joined(r, j)) \subseteq Heard(r) \cup {j}
<1> DEFINE joined == [r EXCEPT !.pending = @ \ {j}, !.childOutcomes = @ \cup {j}]
<1>1. joined \in JobRecord /\ joined.pending \subseteq r.pending /\ Heard(joined) = Heard(r) \cup {j}
    BY DEF JobRecord, Heard
<1>2. Joined(r, j) \in {joined, SettleParent(joined)}
    BY DEF Joined
<1>. HIDE DEF joined
<1>3. KeepsFamily(joined, SettleParent(joined))
    BY <1>1, RecordsKeepFamily
<1>. QED BY <1>1, <1>2, <1>3 DEF KeepsFamily

(* The ties that a mutation may add to a family.                           *)
NewChild(i, c) == BeginAdmission(c) /\ i = Parent(c)
NewResult(i, c) == /\ mut' = Deliverer(c) /\ c \notin DOMAIN jobs'
                   /\ c \in DOMAIN jobs /\ i = Parent(c)
LEMMA BegunFamily ==
    ASSUME TypeOK, ListsAgree, StepsAgree, Begins, NEW i \in DOMAIN jobs'
    PROVE  /\ \A c \in jobs'[i].pending : \/ i \in DOMAIN jobs /\ c \in jobs[i].pending
                                          \/ NewChild(i, c)
           /\ \A c \in Heard(jobs'[i]) : \/ i \in DOMAIN jobs /\ c \in Heard(jobs[i])
                                         \/ NewResult(i, c)
           /\ i \notin DOMAIN jobs => BeginAdmission(i)
<1> DEFINE Goal ==
           /\ \A c \in jobs'[i].pending : \/ i \in DOMAIN jobs /\ c \in jobs[i].pending
                                          \/ NewChild(i, c)
           /\ \A c \in Heard(jobs'[i]) : \/ i \in DOMAIN jobs /\ c \in Heard(jobs[i])
                                         \/ NewResult(i, c)
           /\ i \notin DOMAIN jobs => BeginAdmission(i)
<1> SUFFICES Goal
    OBVIOUS
<1>1. i \in DOMAIN jobs => i \in Jobs /\ jobs[i] \in JobRecord
    BY DEF TypeOK
<1>2. ASSUME i \in DOMAIN jobs, KeepsFamily(jobs[i], jobs'[i]) PROVE Goal
    BY <1>2 DEF KeepsFamily
<1>3. ASSUME NEW j \in Jobs, BeginAdmission(j) PROVE Goal
    <2>1. j \notin DOMAIN jobs /\ jobs' = Admitted(j)
        BY <1>3, ActorsDiffer DEF BeginAdmission, BeginMutation, Decided, ListsAgree
    <2>2. DOMAIN jobs' = DOMAIN jobs \cup {j} /\ jobs'[j] = NewJob
        BY <2>1 DEF Admitted, With, Rewrite
    <2>3. CASE i = j
        BY <1>3, <2>1, <2>2, <2>3 DEF NewJob, Heard
    <2>4. CASE i # j
        <3>1. i \in DOMAIN jobs
            BY <2>2, <2>4
        <3>2. jobs'[i] = IF i = Parent(j) THEN [jobs[i] EXCEPT !.pending = @ \cup {j}] ELSE jobs[i]
            BY <1>3, <3>1, AdmissionKeepsJob
        <3>3. Heard(jobs'[i]) = Heard(jobs[i]) /\ jobs'[i].pending \subseteq jobs[i].pending \cup {j}
              /\ (i # Parent(j) => jobs'[i].pending = jobs[i].pending)
            BY <1>1, <3>1, <3>2 DEF Heard, JobRecord
        <3>. QED BY <1>3, <3>1, <3>3 DEF NewChild
    <2>. QED BY <2>3, <2>4
<1>4. ASSUME NEW a \in Agents, BeginRunning(a) \/ BeginEnd(a) PROVE Goal
    <2>1. worker[a].result \in {"completed", "failed", "cut"}
        BY DEF TypeOK
    <2>2. i \in DOMAIN jobs /\ jobs'[i] \in {jobs[i], Running(jobs[i]), ResultPending(jobs[i]),
                                            Settled(jobs[i], worker[a].result)}
        BY <1>4 DEF BeginRunning, BeginEnd, BeginMutation, EndOfJob, Rewrite
    <2>. QED BY <1>1, <1>2, <2>1, <2>2, RecordsKeepFamily
<1>5. ASSUME NEW j \in Jobs, BeginDelivery(j) PROVE Goal
    <2>1. /\ delivery[j] \in Mutating /\ jobs' = DeliveryChange(j) /\ mut' = Deliverer(j)
          /\ j \in DOMAIN jobs /\ DOMAIN jobs' \subseteq DOMAIN jobs
        BY <1>5, DelivererHasEnded, DeliveryFollows DEF BeginDelivery, BeginMutation, EndedIn
    <2>2. CASE delivery[j] = "deliver" /\ IsChild(j)
        <3>1. j \notin DOMAIN jobs'
            BY <2>1, <2>2 DEF DeliveryChange, Without
        <3>2. i \in DOMAIN jobs /\ i # j
              /\ jobs'[i] = IF i = Parent(j) THEN Joined(jobs[i], j) ELSE jobs[i]
            BY <1>5, <2>1, <2>2, <3>1, DeliveryKeepsJob
        <3>3. /\ Joined(jobs[i], j).pending \subseteq jobs[i].pending
              /\ Heard(Joined(jobs[i], j)) \subseteq Heard(jobs[i]) \cup {j}
            BY <1>1, <3>2, JoinsHear
        <3>. QED BY <2>1, <3>1, <3>2, <3>3 DEF NewResult
    <2>3. CASE ~(delivery[j] = "deliver" /\ IsChild(j))
        <3>1. \/ jobs'[i] = jobs[i]
              \/ \E state \in Ended : jobs'[i] = Fenced(jobs[i], state)
            BY <2>1, <2>3 DEF DeliveryChange, Rewrite, Without, Ended
        <3>. QED BY <1>1, <1>2, <2>1, <3>1, RecordsKeepFamily
    <2>. QED BY <2>2, <2>3
<1>. QED BY <1>3, <1>4, <1>5 DEF Begins

(* Only posts show a result.                                               *)
LEMMA StepOfShown ==
    ASSUME Next
    PROVE  \/ shown' = shown
           \/ \E j \in Jobs : \/ RawPosted(j)
                              \/ \E next \in {"remove", "removeShown", "fallback"} :
                                    ContinuationEnds(j, next)
BY DEF Next, Environment, SendStep, DeliveryStep, ContinuationStep, WorkerStep, TurnStep,
       CaptureSend, DenySend, DeclineJob, OtherSave, BeginDrain, BeginShutdown, Restart,
       DeriveSend, BeginAdmission, RefuseSend, AcceptSend, RollBackSend, PickJob, StopScanning,
       LeaveWorker, LeaseGranted, StartFails, BeginRunning, RunningSaved, RunningNotSaved, RunTurn,
       TurnEnds, BeginEnd, EndSaved, EndNotSaved, BeginDelivery, AbsorbSaved,
       FenceSaved, RemovalSaved, RestoreSaved, DeliveryNotSaved, RecordHandled, HandledSaved,
       HandledNotSaved, InjectContinuation, ContinuationFails,
       RawNotPosted, RecoverySaved, RecoveryNotSaved, DeliveryOnly, WorkerOnly, history

(* Only the save of an admission accepts.                                  *)
LEMMA OnlyAdmissionsAccept ==
    ASSUME TypeOK, Next, NEW j \in Jobs, send'[j] = "accepted", send[j] # "accepted"
    PROVE  AcceptSend(j)
<1>1. send \in [Jobs -> {"none", "captured", "ready", "accepted", "refused"}]
    BY DEF TypeOK
<1>2. ASSUME NEW i \in Jobs, SendStep(i) PROVE AcceptSend(j)
    <2>1. \A c \in Jobs \cup {NoJob} : ~DeriveSend(i, c)
        BY <1>1 DEF DeriveSend
    <2>2. ~BeginAdmission(i)
        BY DEF BeginAdmission, calls
    <2>3. ~RefuseSend(i) /\ ~RollBackSend(i)
        BY <1>1 DEF RefuseSend, RollBackSend
    <2>4. AcceptSend(i) => i = j
        BY <1>1 DEF AcceptSend
    <2>. QED BY <1>2, <2>1, <2>2, <2>3, <2>4 DEF SendStep
<1>3. CASE Environment
    BY <1>1, <1>3 DEF Environment, CaptureSend, DenySend, DeclineJob, OtherSave, BeginDrain,
                      BeginShutdown, Restart, WorkerOnly, calls
<1>4. ASSUME send' = send PROVE FALSE
    BY <1>4
<1>5. ASSUME NEW i \in Jobs, DeliveryStep(i) PROVE FALSE
    BY <1>4, <1>5 DEF DeliveryStep, ContinuationStep, BeginDelivery, AbsorbSaved,
       FenceSaved, RemovalSaved, RestoreSaved, DeliveryNotSaved, RecordHandled, HandledSaved,
       HandledNotSaved, InjectContinuation, ContinuationFails, ContinuationEnds, RawPosted,
       RawNotPosted, DeliveryOnly, calls
<1>6. ASSUME NEW a \in Agents, WorkerStep(a) PROVE FALSE
    BY <1>4, <1>6 DEF WorkerStep, PickJob, StopScanning, LeaveWorker, LeaseGranted, StartFails,
       BeginRunning, RunningSaved, RunningNotSaved, RunTurn, TurnStep, TurnEnds, BeginEnd, EndSaved,
       EndNotSaved, WorkerOnly, calls
<1>7. CASE RecoverySaved \/ RecoveryNotSaved
    BY <1>4, <1>7 DEF RecoverySaved, RecoveryNotSaved, calls
<1>. QED BY <1>2, <1>3, <1>5, <1>6, <1>7 DEF Next

(* Once captured, a send has its source for good.                          *)
LEMMA SourceStays ==
    ASSUME TypeOK, ListsAgree, Next, NEW j \in Jobs, send[j] # "none"
    PROVE  Parent(j)' = Parent(j)
<1>1. source'[j] = source[j]
    BY StepOfSends DEF CaptureSend
<1>. QED BY <1>1 DEF Parent

(* No save fails and the process does not restart.                         *)
NoFaults == MaxDiskFailures = 0 /\ MaxRestarts = 0

(* With no faults allowed, none happens.                                   *)
LEMMA NothingFails ==
    ASSUME NoFaults, TypeOK, TypeOK', Next
    PROVE  ~Restart /\ diskFailures = 0 /\ diskFailures' = 0
BY DEF NoFaults, TypeOK, Restart

(* Every list that is begun has been validated.                            *)
LEMMA LinkedKept ==
    ASSUME TypeOK, ListsAgree, StepsAgree, Linked(jobs), Linked(prev), Next, diskFailures' = 0, ~Restart
    PROVE  Linked(jobs)' /\ Linked(prev)'
<1>1. \A j \in Jobs : send[j] # "none" => Parent(j)' = Parent(j)
    BY SourceStays
<1>2. \A j \in Jobs : j \in DOMAIN jobs \cup DOMAIN prev => send[j] # "none"
    BY DEF ListsAgree, Decided
<1>3. DOMAIN jobs \subseteq Jobs /\ DOMAIN prev \subseteq Jobs
    BY DEF TypeOK
<1>4. (Linked(jobs) /\ Linked(prev)) /\ DOMAIN EmptyQueue = {}
    BY DEF EmptyQueue
<1>5. CASE ListsStay \/ SavesAll \/ CommitMutation(mut)
    <2>1. jobs' = jobs /\ prev' \in {prev, EmptyQueue}
        BY <1>5 DEF ListsStay, SavesAll, CommitMutation, memory
    <2>. QED BY <1>1, <1>2, <1>3, <1>4, <2>1 DEF Linked
<1>6. CASE Begins
    <2>1. prev' = jobs /\ ValidQueue(jobs')
        BY <1>6 DEF Begins, BeginAdmission, BeginDelivery, BeginRunning, BeginEnd, BeginMutation
    <2>2. \A j \in DOMAIN jobs' : Parent(j) # NoJob =>
             Parent(j) \in DOMAIN jobs' /\ j \in jobs'[Parent(j)].pending
        BY <2>1 DEF ValidQueue
    <2>3. ASSUME NEW j \in DOMAIN jobs' PROVE j \in Jobs /\ send[j] # "none"
        <3>1. j \in Jobs
            BY TypesKept DEF TypeOK
        <3>2. BeginAdmission(j) => send[j] = "ready"
            BY DEF BeginAdmission
        <3>. QED BY <1>2, <1>6, <3>1, <3>2, BegunFamily
    <2>. QED BY <1>1, <1>2, <1>3, <1>4, <2>1, <2>2, <2>3 DEF Linked
<1>. QED BY <1>5, <1>6, StepWithoutFault DEF NoFaultStep

(* A job is listed before it is accepted, by its admission alone.          *)
LEMMA ListedKeptAccepted ==
    ASSUME NoFaults, TypeOK, TypeOK', ListsAgree, StepsAgree, ListedAreAccepted, Next
    PROVE  ListedAreAccepted'
<1>1. ~Restart /\ diskFailures' = 0 /\ NoFaultStep
    BY NothingFails, StepWithoutFault
<1>2. \A j \in Jobs : send[j] = "accepted" => send'[j] = "accepted"
    BY StepOfSends DEF Decided
<1>3. ASSUME NEW j \in Jobs, mut = Sender(j), mut' # Sender(j) PROVE send'[j] = "accepted"
    <2>1. SendStep(j) /\ send[j] = "ready" /\ mut # Nobody
        BY <1>1, <1>3, MutationHasOwner, ActorsDiffer DEF ListsAgree
    <2>2. ~RollBackSend(j)
        BY DEF RollBackSend, RollBack, NoFaults, TypeOK
    <2>3. AcceptSend(j)
        BY <2>1, <2>2 DEF SendStep, DeriveSend, BeginAdmission, RefuseSend, BeginMutation
    <2>. QED BY <2>1, <2>3 DEF AcceptSend, TypeOK
<1>4. DOMAIN jobs \subseteq Jobs /\ DOMAIN prev \subseteq Jobs /\ DOMAIN EmptyQueue = {}
    BY DEF TypeOK, EmptyQueue
<1>5. ASSUME NEW j \in DOMAIN jobs PROVE send'[j] = "accepted" \/ mut' = Sender(j)
    BY <1>2, <1>3, <1>4 DEF ListedAreAccepted
<1>6. CASE ListsStay \/ SavesAll \/ CommitMutation(mut)
    <2>1. jobs' = jobs /\ prev' \in {prev, EmptyQueue}
        BY <1>6 DEF ListsStay, SavesAll, CommitMutation, memory
    <2>. QED BY <1>2, <1>4, <1>5, <2>1 DEF ListedAreAccepted
<1>7. CASE Begins
    <2>1. prev' = jobs /\ mut = Nobody
        BY <1>7 DEF Begins, BeginAdmission, BeginDelivery, BeginRunning, BeginEnd, BeginMutation
    <2>2. \A j \in DOMAIN jobs : send'[j] = "accepted"
        BY <1>2, <1>4, <2>1, ActorsDiffer DEF ListedAreAccepted
    <2>3. ASSUME NEW j \in DOMAIN jobs' PROVE send'[j] = "accepted" \/ mut' = Sender(j)
        <3>1. BeginAdmission(j) => mut' = Sender(j)
            BY DEF BeginAdmission, BeginMutation
        <3>. QED BY <1>5, <1>7, <3>1, BegunFamily
    <2>. QED BY <2>1, <2>2, <2>3 DEF ListedAreAccepted
<1>. QED BY <1>1, <1>6, <1>7 DEF NoFaultStep

(* A job that has ended is not taken up again.                             *)
LEMMA EndedStays ==
    ASSUME TypeOK, ListsAgree, StepsAgree, Next, diskFailures' = 0, ~Restart,
           NEW j \in DOMAIN jobs, jobs[j].state \in Ended, j \in DOMAIN jobs'
    PROVE  jobs'[j].state \in Ended
<1>1. CASE BeginDelivery(j)
    <2>1. delivery[j] \in Mutating /\ jobs' = DeliveryChange(j) /\ j \in Jobs
        BY <1>1 DEF BeginDelivery, BeginMutation, TypeOK
    <2>2. \/ jobs'[j] = jobs[j]
          \/ \E state \in Ended : jobs'[j] = Fenced(jobs[j], state)
          \/ jobs'[j] = Joined(jobs[j], j)
        BY <2>1 DEF DeliveryChange, Rewrite, Without, Ended
    <2>3. jobs[j] \in JobRecord /\ jobs[j].state # "waiting_for_children"
        BY DEF TypeOK, Ended
    <2>4. Joined(jobs[j], j).state = jobs[j].state
        BY <2>1, <2>3, JoinedKeeps
    <2>. QED BY <2>2, <2>3, <2>4 DEF Fenced, JobRecord
<1>2. CASE ~BeginDelivery(j)
    <2>1. \A a \in Agents : worker[a].job = j => ~BeginRunning(a) /\ ~BeginEnd(a)
        BY BeginnerHasJob DEF HasJob, Ended
    <2>2. jobs'[j].state = jobs[j].state
        BY <1>2, <2>1, OthersKeepJob DEF Ended
    <2>. QED BY <2>2
<1>. QED BY <1>1, <1>2

(* The results that are posted, and those that are saved in a parent.      *)
LEMMA PostedHasEnded ==
    ASSUME TypeOK, ResultsAgree, StepsAgree, ListedAreAccepted, NEW j \in Jobs,
           RawPosted(j) \/ \E next \in {"remove", "removeShown", "fallback"} : ContinuationEnds(j, next)
    PROVE  /\ jobs' = jobs /\ send' = send /\ source' = source /\ absorbed' = absorbed /\ execs' = execs
           /\ \A i \in Jobs : i # j => shown'[i] = shown[i]
           /\ shown'[j] \in {shown[j], shown[j] + 1}
           /\ send[j] = "accepted" /\ EndedIn(jobs, j) /\ (mut # Nobody => EndedIn(prev, j))
<1>1. /\ jobs' = jobs /\ send' = send /\ source' = source /\ absorbed' = absorbed /\ execs' = execs
      /\ delivery[j] \in {"turn", "raw", "fallback"}
      /\ \A i \in Jobs : i # j => shown'[i] = shown[i]
      /\ shown'[j] \in {shown[j], shown[j] + 1}
    BY DEF RawPosted, ContinuationEnds, memory, storage, calls, TypeOK
<1>2. Decided(j) /\ mut # Deliverer(j)
    BY <1>1 DEF ResultsAgree, DeliveryKnows, Mutating
<1>3. EndedIn(jobs, j) /\ (mut # Nobody => EndedIn(prev, j))
    BY <1>1, <1>2 DEF StepsAgree, DeliveryAt
<1>4. mut # Nobody => send[j] = "accepted"
    BY <1>3 DEF ListedAreAccepted, EndedIn
<1>5. mut = Nobody => send[j] = "accepted"
    BY <1>3, ActorsDiffer DEF ListedAreAccepted, EndedIn
<1>. QED BY <1>1, <1>3, <1>4, <1>5

LEMMA JoiningHasEnded ==
    ASSUME ResultsAgree, StepsAgree, ListedAreAccepted, NEW j \in Jobs, mut = Deliverer(j)
    PROVE  send[j] = "accepted" /\ mut # Nobody /\ EndedIn(prev, j)
<1>1. delivery[j] \in Mutating /\ mut # Nobody
    BY ActorsDiffer DEF ResultsAgree, DeliveryKnows
<1>2. EndedIn(prev, j)
    BY <1>1 DEF StepsAgree, DeliveryAt, Mutating
<1>. QED BY <1>1, <1>2 DEF ListedAreAccepted, EndedIn

(* A save absorbs at most the child of the mutation in flight.             *)
LEMMA StepOfAbsorbed ==
    ASSUME TypeOK, ArrivedAreOver, NoFaultStep, ~Restart
    PROVE  /\ absorbed \subseteq absorbed'
           /\ \A i \in absorbed' \ absorbed : i \in Jobs /\ mut = Deliverer(i) /\ i \notin DOMAIN jobs
           /\ absorbed' # absorbed => jobs' = jobs /\ absorbed' = absorbed \cup Joins(jobs)
<1>1. Joins(jobs) \subseteq Jobs
    BY DEF Joins, TypeOK, JobRecord
<1>2. absorbed' = absorbed \/ (jobs' = jobs /\ absorbed' = absorbed \cup Joins(jobs))
    BY DEF NoFaultStep, ListsStay, SavesAll, CommitMutation, Save, memory, Begins, BeginAdmission,
           BeginDelivery, BeginRunning, BeginEnd, BeginMutation
<1>. QED BY <1>1, <1>2 DEF ArrivedAreOver

(* A result that has arrived has left the list, or is being removed.       *)
LEMMA ArrivedKeptOver ==
    ASSUME NoFaults, TypeOK, TypeOK', ListsAgree, ResultsAgree, StepsAgree, ListedAreAccepted,
           ArrivedAreOver, Next
    PROVE  ArrivedAreOver'
<1>1. ~Restart /\ diskFailures' = 0 /\ NoFaultStep
    BY NothingFails, StepWithoutFault
<1>2. DOMAIN jobs \subseteq Jobs /\ shown \in [Jobs -> Nat]
    BY DEF TypeOK
<1>3. \A j \in Jobs : send[j] = "accepted" => send'[j] = "accepted"
    BY StepOfSends DEF Decided
<1>4. /\ absorbed \subseteq absorbed'
      /\ \A i \in absorbed' \ absorbed : i \in Jobs /\ mut = Deliverer(i) /\ i \notin DOMAIN jobs
      /\ absorbed' # absorbed => jobs' = jobs /\ absorbed' = absorbed \cup Joins(jobs)
    BY <1>1, StepOfAbsorbed
<1>5. ASSUME NEW j \in Jobs, shown'[j] > 0, ~(shown[j] > 0)
      PROVE  jobs' = jobs /\ send[j] = "accepted" /\ EndedIn(jobs, j)
    <2>1. shown' # shown
        BY <1>5
    <2>2. PICK i \in Jobs : \/ RawPosted(i)
                            \/ \E next \in {"remove", "removeShown", "fallback"} :
                                  ContinuationEnds(i, next)
        BY <2>1, StepOfShown
    <2>3. i = j
        BY <1>5, <2>2, PostedHasEnded
    <2>. QED BY <2>2, <2>3, PostedHasEnded
<1>6. ASSUME NEW j \in Jobs, Arrived(j)' PROVE send'[j] = "accepted"
    <2>1. CASE Arrived(j)
        BY <1>3, <2>1 DEF ArrivedAreOver
    <2>2. CASE shown'[j] > 0 /\ ~(shown[j] > 0)
        BY <1>3, <1>5, <2>2
    <2>3. CASE j \in absorbed' \ absorbed
        BY <1>3, <1>4, <2>3, JoiningHasEnded
    <2>. QED BY <1>6, <2>1, <2>2, <2>3 DEF Arrived
<1>7. ASSUME NEW j \in DOMAIN jobs'
      PROVE  j \notin absorbed' /\ (shown'[j] > 0 => jobs'[j].state \in Ended)
    <2>1. CASE j \in DOMAIN jobs
        <3>1. j \notin absorbed'
            BY <1>4, <2>1 DEF ArrivedAreOver
        <3>2. ASSUME shown'[j] > 0 PROVE jobs[j].state \in Ended
            BY <1>2, <1>5, <2>1, <3>2 DEF ArrivedAreOver, EndedIn
        <3>. QED BY <1>1, <2>1, <3>1, <3>2, EndedStays
    <2>2. CASE j \notin DOMAIN jobs
        <3>1. Begins
            BY <1>1, <1>7, <2>2 DEF NoFaultStep, ListsStay, SavesAll, CommitMutation, memory
        <3>2. BeginAdmission(j)
            BY <1>7, <2>2, <3>1, BegunFamily
        <3>3. j \in Jobs /\ send[j] = "ready" /\ absorbed' = absorbed /\ shown' = shown
            BY <1>7, <3>2 DEF BeginAdmission, BeginMutation, history, TypeOK
        <3>. QED BY <3>3 DEF ArrivedAreOver, Arrived
    <2>. QED BY <2>1, <2>2
<1>8. ASSUME NEW i \in Joins(jobs')
      PROVE  i \in absorbed' \/ (mut' = Deliverer(i) /\ i \notin DOMAIN jobs')
    <2>1. CASE Begins
        <3>1. PICK p \in DOMAIN jobs' : i \in Heard(jobs'[p])
            BY DEF Joins, Heard
        <3>2. CASE p \in DOMAIN jobs /\ i \in Heard(jobs[p])
            <4>1. i \in Joins(jobs) /\ mut = Nobody
                BY <2>1, <3>2 DEF Joins, Heard, Begins, BeginAdmission, BeginDelivery, BeginRunning,
                                  BeginEnd, BeginMutation
            <4>. QED BY <1>4, <4>1 DEF ListsAgree
        <3>. QED BY <2>1, <3>1, <3>2, BegunFamily DEF NewResult
    <2>2. CASE ~Begins
        <3>1. /\ jobs' = jobs
              /\ mut' = mut \/ absorbed' = absorbed \cup Joins(jobs)
            BY <1>1, <2>2 DEF NoFaultStep, ListsStay, SavesAll, CommitMutation, Save, memory
        <3>. QED BY <1>4, <3>1 DEF ArrivedAreOver
    <2>. QED BY <2>1, <2>2
<1>. QED BY <1>6, <1>7, <1>8 DEF ArrivedAreOver

(* Executions are counted up.                                              *)
LEMMA ExecsGrow ==
    ASSUME TypeOK, Next, NEW j \in Jobs
    PROVE  execs'[j] >= execs[j]
<1>1. execs \in [Jobs -> Nat]
    BY DEF TypeOK
<1>2. ASSUME NEW a \in Agents, RunTurn(a) PROVE execs'[j] >= execs[j]
    BY <1>1, <1>2 DEF RunTurn
<1>. QED BY <1>1, <1>2, StepOfTold

(* A worker that resumes a parent, or runs a turn, has a job that ran.     *)
LEMMA WorkersKeepStarted ==
    ASSUME TypeOK, ListsAgree, MessagesAgree, StepsAgree, StartedHaveChildren, Next,
           diskFailures' = 0, ~Restart, NEW a \in Agents,
           \/ worker'[a].pc = "turn"
           \/ worker'[a].pc \in {"wait", "start", "project"} /\ worker'[a].resume # {}
    PROVE  execs'[worker'[a].job] > 0
<1>1. worker \in [Agents -> [pc: WorkerStates, job: Jobs \cup {NoJob},
                              result: {"completed", "failed", "cut"}, resume: SUBSET Jobs]]
      /\ execs \in [Jobs -> Nat] /\ execs' \in [Jobs -> Nat] /\ DOMAIN jobs \subseteq Jobs
    BY TypesKept DEF TypeOK
<1>2. \A j \in Jobs : execs[j] > 0 => execs'[j] > 0
    BY <1>1, ExecsGrow
<1>3. worker[a].pc \in {"wait", "start", "project", "turn"} => worker[a].job \in Jobs
    BY <1>1 DEF StepsAgree, JobAt, HasJob
<1>4. \/ worker[a].pc = "turn"
      \/ worker[a].pc \in {"wait", "start", "project"} /\ worker[a].resume # {}
      => execs'[worker[a].job] > 0
    BY <1>2, <1>3 DEF StartedHaveChildren
<1>5. ASSUME worker'[a].job = worker[a].job, worker'[a].resume = worker[a].resume,
             worker[a].pc \in {"wait", "start", "project"},
             worker'[a].pc \in {"wait", "start", "project"}
      PROVE  execs'[worker'[a].job] > 0
    BY <1>4, <1>5
<1>6. CASE WorkerStep(a)
    <2>1. CASE PickJob(a)
        <3>1. /\ QueuedFor(a) # {}
              /\ LET j == Min(QueuedFor(a))
                 IN  worker'[a] = [NoWork EXCEPT !.pc = "wait", !.job = j, !.resume = jobs[j].resume]
            BY <1>1, <2>1 DEF PickJob
        <3>2. PICK j \in Jobs : j = Min(QueuedFor(a)) /\ j \in QueuedFor(a)
            <4>1. QueuedFor(a) \in SUBSET Nat /\ QueuedFor(a) \subseteq Jobs
                BY <1>1, BoundsAssumption DEF QueuedFor, Jobs
            <4>. QED BY <3>1, <4>1, MinIsElement
        <3>3. worker'[a].pc = "wait" /\ worker'[a].job = j /\ worker'[a].resume = jobs[j].resume
            BY <3>1, <3>2 DEF NoWork
        <3>4. j \in DOMAIN jobs /\ Heard(jobs[j]) # {}
            BY <3>2, <3>3 DEF QueuedFor, Heard
        <3>. QED BY <1>2, <3>2, <3>3, <3>4 DEF StartedHaveChildren
    <2>2. CASE LeaseGranted(a)
        <3>1. worker'[a].pc \in {"start", "scan"} /\ worker[a].pc = "wait"
              /\ worker'[a].job = worker[a].job /\ worker'[a].resume = worker[a].resume
            BY <1>1, <2>2 DEF LeaseGranted, Goto
        <3>. QED BY <1>5, <3>1
    <2>3. CASE BeginRunning(a)
        <3>1. worker' = worker /\ worker[a].pc = "start"
            BY <2>3 DEF BeginRunning
        <3>. QED BY <1>5, <3>1
    <2>4. CASE RunningSaved(a)
        <3>1. worker'[a].pc \in {"project", "settle"} /\ worker[a].pc = "start"
              /\ worker'[a].job = worker[a].job /\ worker'[a].resume = worker[a].resume
            BY <1>1, <2>4 DEF RunningSaved
        <3>. QED BY <1>5, <3>1
    <2>5. CASE RunTurn(a)
        <3>1. PICK j \in Jobs : j = worker[a].job
            BY <1>3, <2>5 DEF RunTurn
        <3>2. worker[a].pc = "project" /\ worker'[a].job = j
              /\ execs' = [execs EXCEPT ![j] = IF worker[a].resume = {} THEN @ + 1 ELSE @]
            BY <1>1, <2>5, <3>1 DEF RunTurn, Goto
        <3>3. worker[a].resume = {} => execs'[j] = execs[j] + 1
            BY <1>1, <3>2
        <3>. QED BY <1>1, <1>4, <3>1, <3>2, <3>3
    <2>6. CASE ~(PickJob(a) \/ LeaseGranted(a) \/ BeginRunning(a) \/ RunningSaved(a) \/ RunTurn(a))
        <3>1. StopScanning(a) \/ LeaveWorker(a) => worker'[a].pc \in {"exiting", "scan", "off"}
            BY <1>1 DEF StopScanning, LeaveWorker, Goto, NoWork
        <3>2. StartFails(a) \/ RunningNotSaved(a) \/ TurnStep(a) => worker'[a].pc = "settle"
            BY <1>1 DEF StartFails, RunningNotSaved, TurnStep, TurnEnds
        <3>3. BeginEnd(a) => worker'[a].pc \in {"settle", "record"}
            BY DEF BeginEnd
        <3>4. EndSaved(a) \/ EndNotSaved(a) => worker'[a].pc \in {"scan", "blocked"}
            BY <1>1 DEF EndSaved, EndNotSaved, NoWork
        <3>. QED BY <1>6, <2>6, <3>1, <3>2, <3>3, <3>4 DEF WorkerStep
    <2>. QED BY <2>1, <2>2, <2>3, <2>4, <2>5, <2>6
<1>7. CASE DeclineJob(a)
    <2>1. worker'[a].pc = "record"
        BY <1>1, <1>7 DEF DeclineJob, Goto
    <2>. QED BY <2>1
<1>8. CASE WorkerStays(a)
    BY <1>4, <1>8 DEF WorkerStays
<1>. QED BY <1>6, <1>7, <1>8, StepOfWorker

(* Children are sent by turns, and turns run jobs.                         *)
LEMMA StartedKept ==
    ASSUME TypeOK, TypeOK', ListsAgree, MessagesAgree, StepsAgree, SendsAreOpen, Linked(jobs),
           StartedHaveChildren, Next, diskFailures' = 0, ~Restart
    PROVE  StartedHaveChildren'
<1>1. DOMAIN jobs \subseteq Jobs /\ execs \in [Jobs -> Nat] /\ execs' \in [Jobs -> Nat]
    BY DEF TypeOK
<1>2. \A j \in Jobs : execs[j] > 0 => execs'[j] > 0
    BY <1>1, ExecsGrow
<1>3. ASSUME NEW p \in DOMAIN jobs', jobs'[p].pending \cup Heard(jobs'[p]) # {}
      PROVE  execs'[p] > 0
    <2>1. CASE p \in DOMAIN jobs /\ jobs[p].pending \cup Heard(jobs[p]) # {}
        BY <1>1, <1>2, <2>1 DEF StartedHaveChildren
    <2>2. CASE Begins
        <3>1. p \in Jobs /\ p # NoJob
            BY DEF TypeOK, Jobs, NoJob
        <3>2. PICK c : c \in jobs'[p].pending \/ c \in Heard(jobs'[p])
            BY <1>3
        <3>3. \/ p \in DOMAIN jobs /\ (c \in jobs[p].pending \/ c \in Heard(jobs[p]))
              \/ NewChild(p, c) \/ NewResult(p, c)
            BY <2>2, <3>2, BegunFamily
        <3>4. CASE NewChild(p, c)
            <4>1. send[c] = "ready" /\ source[c].kind = "job" /\ source[c].of = p
                BY <3>1, <3>4 DEF NewChild, BeginAdmission, Parent
            <4>2. c \in Jobs
                BY <1>1, <2>2, <3>2, <3>4 DEF TypeOK, JobRecord, Heard
            <4>3. TurnOpen(source[c])
                BY <4>1, <4>2 DEF SendsAreOpen, InFlight
            <4>4. worker[target[p]].pc = "turn" /\ worker[target[p]].job = p /\ target[p] \in Agents
                BY <3>1, <4>1, <4>3 DEF TurnOpen, TypeOK
            <4>. QED BY <1>2, <3>1, <4>4 DEF StartedHaveChildren
        <3>5. CASE NewResult(p, c)
            <4>1. p \in DOMAIN jobs /\ c \in jobs[p].pending
                BY <3>1, <3>5 DEF NewResult, Linked
            <4>. QED BY <2>1, <4>1
        <3>. QED BY <2>1, <3>3, <3>4, <3>5
    <2>3. CASE ~Begins
        <3>1. jobs' = jobs
            BY <2>3, StepWithoutFault DEF NoFaultStep, ListsStay, SavesAll, CommitMutation, memory
        <3>. QED BY <1>3, <2>1, <3>1
    <2>. QED BY <2>2, <2>3
<1>. QED BY <1>3, WorkersKeepStarted DEF StartedHaveChildren

(* No step without faults breaks it.                                       *)
LEMMA PromiseAgreesKept ==
    ASSUME NoFaults, QueueIInv, TypeOK', StepsAgree, FamiliesWait, PromiseAgrees, Next
    PROVE  PromiseAgrees'
<1>1. ~Restart /\ diskFailures' = 0
    BY NothingFails DEF QueueIInv
<1>. QED BY <1>1, LinkedKept, StartedKept, ListedKeptAccepted, ArrivedKeptOver
         DEF QueueIInv, FamiliesWait, PromiseAgrees

(* With the result of a job come those of the jobs it has sent.            *)
LEMMA ChildrenHaveArrived ==
    ASSUME QueueIInv, FamiliesWait, PromiseAgrees, NEW i \in Jobs,
           mut = Nobody => EndedIn(jobs, i), mut # Nobody => EndedIn(prev, i),
           NEW c \in Jobs, send[c] = "accepted", Parent(c) = i
    PROVE  Arrived(c)
<1>1. i # NoJob
    BY DEF Jobs, NoJob
<1>2. CASE mut = Nobody
    <2>1. jobs[i].pending = {} /\ i \in DOMAIN jobs
        BY <1>2 DEF EndedIn, FamiliesWait, Settles, SettledRecord
    <2>2. c \notin DOMAIN jobs
        BY <1>1, <2>1 DEF PromiseAgrees, Linked
    <2>. QED BY <1>2, <2>2, ActorsDiffer DEF QueueIInv, AcceptedIsListed
<1>3. CASE mut # Nobody
    <2>1. prev[i].pending = {} /\ i \in DOMAIN prev
        BY <1>3 DEF EndedIn, FamiliesWait, Settles, SettledRecord
    <2>2. c \notin DOMAIN prev
        BY <1>1, <2>1 DEF PromiseAgrees, Linked
    <2>. QED BY <1>3, <2>2 DEF QueueIInv, AcceptedIsListed
<1>. QED BY <1>2, <1>3

(* What the promise sees of the queue.                                     *)
Accepted == {j \in Jobs : send[j] = "accepted"}
ChildrenOf == [p \in Jobs |-> {j \in Jobs : send[j] = "accepted" /\ Parent(j) = p}]
Started == {j \in Jobs : execs[j] > 0}
Answered == {j \in Jobs : shown[j] > 0} \cup absorbed

(* An accepted job stays accepted, of the same parent.                     *)
LEMMA ParentsStay ==
    ASSUME TypeOK, ListsAgree, Next, NEW c \in Jobs, send[c] = "accepted"
    PROVE  send'[c] = "accepted" /\ Parent(c)' = Parent(c)
BY FamilyStays, StepOfSends DEF Decided

(* Every other step leaves the accepted jobs and their families.           *)
LEMMA NothingAccepted ==
    ASSUME TypeOK, ListsAgree, Next, \A j \in Jobs : ~AcceptSend(j)
    PROVE  Accepted' = Accepted /\ ChildrenOf' = ChildrenOf
<1>1. \A c \in Jobs : send'[c] = "accepted" <=> send[c] = "accepted"
    BY OnlyAdmissionsAccept, ParentsStay
<1>2. \A c \in Jobs : send[c] = "accepted" => Parent(c)' = Parent(c)
    BY ParentsStay
<1>. QED BY <1>1, <1>2 DEF Accepted, ChildrenOf

(* An answer comes after those of the children.                            *)
LEMMA AnswersFollow ==
    ASSUME QueueIInv, FamiliesWait, PromiseAgrees, NEW i \in Jobs, send[i] = "accepted",
           mut = Nobody => EndedIn(jobs, i), mut # Nobody => EndedIn(prev, i),
           Accepted' = Accepted, ChildrenOf' = ChildrenOf, Started' = Started,
           Answered' = Answered \cup {i}
    PROVE  Promise!AnswerJob(i) \/ UNCHANGED Promise!promiseVars
<1>1. ChildrenOf[i] \subseteq Answered
    BY ChildrenHaveArrived DEF ChildrenOf, Answered, Arrived
<1>2. i \in Accepted
    BY DEF Accepted
<1>3. CASE i \in Answered
    BY <1>3 DEF Promise!promiseVars, Accepted, ChildrenOf, Started, Answered
<1>4. CASE i \notin Answered
    BY <1>1, <1>2, <1>4 DEF Promise!AnswerJob, Accepted, ChildrenOf, Started, Answered
<1>. QED BY <1>3, <1>4

(* The save of an admission accepts a job, of an open turn.                *)
LEMMA AdmissionsAccept ==
    ASSUME NoFaults, QueueIInv, TypeOK', StepsAgree, FamiliesWait, PromiseAgrees, Next,
           NEW j \in Jobs, AcceptSend(j)
    PROVE  Promise!AcceptJob(j)
<1>1. TypeOK /\ ListsAgree
    BY DEF QueueIInv
<1>2. /\ mut = Sender(j) /\ send[j] = "ready" /\ j \in DOMAIN jobs /\ UNCHANGED <<source, execs, shown>>
      /\ send' = [send EXCEPT ![j] = "accepted"] /\ absorbed' = absorbed \cup Joins(jobs)
    BY <1>1 DEF AcceptSend, CommitMutation, Save, ListsAgree, history
<1>3. absorbed' = absorbed
    BY <1>2, ActorsDiffer DEF PromiseAgrees, ArrivedAreOver, Joins, TypeOK, JobRecord, QueueIInv
<1>4. send'[j] = "accepted" /\ \A c \in Jobs : c # j => send'[c] = send[c]
    BY <1>1, <1>2 DEF TypeOK
<1>5. Accepted' = Accepted \cup {j} /\ j \notin Accepted /\ Started' = Started /\ Answered' = Answered
    BY <1>2, <1>3, <1>4 DEF Accepted, Started, Answered
<1>6. \A c \in Jobs : Parent(c)' = Parent(c)
    BY <1>2 DEF Parent
<1>7. \A p \in Jobs : ChildrenOf'[p] = IF p = Parent(j) THEN ChildrenOf[p] \cup {j} ELSE ChildrenOf[p]
    BY <1>2, <1>4, <1>6 DEF ChildrenOf
<1>8. CASE Parent(j) \notin Jobs
    <2>1. ChildrenOf' = ChildrenOf
        BY <1>7, <1>8 DEF ChildrenOf
    <2>. QED BY <1>5, <2>1 DEF Promise!AcceptJob, Accepted, ChildrenOf, Started, Answered
<1>9. CASE Parent(j) \in Jobs
    <2>1. PICK p \in Jobs : p = Parent(j)
        BY <1>9
    <2>2. p \in DOMAIN jobs /\ j \in jobs[p].pending
        BY <1>2, <2>1 DEF PromiseAgrees, Linked, Jobs, NoJob
    <2>3. execs[p] > 0
        BY <2>2 DEF PromiseAgrees, StartedHaveChildren
    <2>4. jobs[p].state \notin Ended
        BY <2>2 DEF FamiliesWait, Settles, SettledRecord
    <2>5. p \in Started \ Answered
        BY <2>2, <2>3, <2>4 DEF PromiseAgrees, ArrivedAreOver, Started, Answered
    <2>6. ChildrenOf' = [ChildrenOf EXCEPT ![p] = @ \cup {j}]
        BY <1>7, <2>1 DEF ChildrenOf
    <2>. QED BY <1>5, <2>5, <2>6 DEF Promise!AcceptJob, Accepted, ChildrenOf, Started, Answered
<1>. QED BY <1>8, <1>9

(* A turn starts an accepted job, or resumes a started one.                *)
LEMMA TurnsStart ==
    ASSUME QueueIInv, StepsAgree, PromiseAgrees, Next, NEW a \in Agents, RunTurn(a)
    PROVE  (\E j \in Jobs : Promise!StartJob(j)) \/ UNCHANGED Promise!promiseVars
<1>1. TypeOK /\ ListsAgree /\ HasJob(a, {"running"})
    BY DEF QueueIInv, StepsAgree, JobAt, RunTurn
<1>2. PICK j \in DOMAIN jobs : j = worker[a].job /\ jobs[j].state = "running" /\ j \in Jobs
    BY <1>1 DEF HasJob, TypeOK
<1>3. /\ UNCHANGED <<send, source, shown, absorbed>> /\ worker[a].pc = "project"
      /\ execs' = [execs EXCEPT ![j] = IF worker[a].resume = {} THEN @ + 1 ELSE @]
      /\ execs \in [Jobs -> Nat]
    BY <1>1, <1>2 DEF RunTurn, calls, storage, TypeOK
<1>4. Accepted' = Accepted /\ ChildrenOf' = ChildrenOf /\ Answered' = Answered
    BY <1>3 DEF Accepted, ChildrenOf, Answered, Parent
<1>5. CASE worker[a].resume # {}
    <2>1. execs' = execs
        BY <1>3, <1>5
    <2>2. Started' = Started
        BY <2>1 DEF Started
    <2>. QED BY <1>4, <2>2 DEF Promise!promiseVars, Accepted, ChildrenOf, Started, Answered
<1>6. CASE worker[a].resume = {}
    <2>1. execs[j] = 0 /\ Decided(j)
        BY <1>2, <1>3, <1>6 DEF QueueIInv, MessagesAgree, WorkerKnows
    <2>2. Started' = Started \cup {j} /\ j \notin Started
        BY <1>2, <1>3, <1>6, <2>1 DEF Started
    <2>3. send[j] = "accepted"
        BY <1>1, <1>2, <2>1 DEF PromiseAgrees, ListedAreAccepted, ListsAgree, Decided
    <2>4. j \in Accepted /\ j \notin Answered
        BY <1>2, <2>3 DEF PromiseAgrees, ArrivedAreOver, Accepted, Answered, Ended
    <2>5. Promise!StartJob(j)
        BY <1>4, <2>2, <2>4 DEF Promise!StartJob, Accepted, ChildrenOf, Started, Answered
    <2>. QED BY <1>2, <2>5
<1>. QED BY <1>5, <1>6

(* Every step is a step of the promise, or none.                           *)
LEMMA QueueStepPromises ==
    ASSUME NoFaults, QueueIInv, TypeOK', StepsAgree, FamiliesWait, PromiseAgrees, Next
    PROVE  Promise!PromiseNext \/ UNCHANGED Promise!promiseVars
<1> DEFINE Goal == Promise!PromiseNext \/ UNCHANGED Promise!promiseVars
<1>1. TypeOK /\ ListsAgree /\ ResultsAgree /\ ListedAreAccepted /\ ArrivedAreOver
    BY DEF QueueIInv, PromiseAgrees
<1>2. ~Restart /\ diskFailures' = 0 /\ NoFaultStep
    BY <1>1, NothingFails, StepWithoutFault
<1>3. ASSUME NEW j \in Jobs, AcceptSend(j) PROVE Goal
    BY <1>3, AdmissionsAccept DEF Promise!PromiseNext
<1>4. ASSUME NEW a \in Agents, RunTurn(a) PROVE Goal
    BY <1>4, TurnsStart DEF Promise!PromiseNext
<1>5. ASSUME NEW j \in Jobs, RawPosted(j)
             \/ \E next \in {"remove", "removeShown", "fallback"} : ContinuationEnds(j, next)
      PROVE  Goal
    <2>1. /\ jobs' = jobs /\ send' = send /\ source' = source /\ absorbed' = absorbed /\ execs' = execs
          /\ \A i \in Jobs : i # j => shown'[i] = shown[i]
          /\ shown'[j] \in {shown[j], shown[j] + 1}
          /\ send[j] = "accepted" /\ EndedIn(jobs, j) /\ (mut # Nobody => EndedIn(prev, j))
        BY <1>1, <1>5, PostedHasEnded
    <2>2. Accepted' = Accepted /\ ChildrenOf' = ChildrenOf /\ Started' = Started
        BY <2>1 DEF Accepted, ChildrenOf, Started, Parent
    <2>3. CASE shown'[j] = shown[j]
        <3>1. Answered' = Answered
            BY <2>1, <2>3 DEF Answered
        <3>. QED BY <2>2, <3>1 DEF Promise!promiseVars, Accepted, ChildrenOf, Started, Answered
    <2>4. CASE shown'[j] = shown[j] + 1
        <3>1. shown'[j] > 0
            BY <1>1, <2>4 DEF TypeOK
        <3>2. Answered' = Answered \cup {j}
            BY <2>1, <3>1 DEF Answered
        <3>. QED BY <2>1, <2>2, <3>2, AnswersFollow DEF Promise!PromiseNext
    <2>. QED BY <2>1, <2>3, <2>4
<1>6. ASSUME \A j \in Jobs : ~AcceptSend(j), execs' = execs, shown' = shown PROVE Goal
    <2>1. Accepted' = Accepted /\ ChildrenOf' = ChildrenOf /\ Started' = Started
        BY <1>1, <1>6, NothingAccepted DEF Started
    <2>2. /\ absorbed \subseteq absorbed'
          /\ \A i \in absorbed' \ absorbed : i \in Jobs /\ mut = Deliverer(i) /\ i \notin DOMAIN jobs
        BY <1>1, <1>2, StepOfAbsorbed
    <2>3. CASE absorbed' = absorbed
        <3>1. Answered' = Answered
            BY <1>6, <2>3 DEF Answered
        <3>. QED BY <2>1, <3>1 DEF Promise!promiseVars, Accepted, ChildrenOf, Started, Answered
    <2>4. ASSUME NEW i \in absorbed' \ absorbed PROVE Goal
        <3>1. i \in Jobs /\ mut = Deliverer(i)
            BY <2>2
        <3>2. absorbed' = absorbed \cup {i}
            BY <2>2, <3>1, ActorsDiffer
        <3>3. Answered' = Answered \cup {i}
            BY <1>6, <3>2 DEF Answered
        <3>4. send[i] = "accepted" /\ mut # Nobody /\ EndedIn(prev, i)
            BY <1>1, <3>1, JoiningHasEnded
        <3>. QED BY <2>1, <3>1, <3>3, <3>4, AnswersFollow DEF Promise!PromiseNext
    <2>. QED BY <2>2, <2>3, <2>4
<1>. QED BY <1>3, <1>4, <1>5, <1>6, StepOfTold, StepOfShown

(* When no save fails and nothing restarts, and a turn waits for its sends,*)
(* every step of the queue is one that DelegationPromise allows: a job is  *)
(* run only once accepted and once, and answered only after the jobs it has*)
(* sent have been, whatever Slack or a turn does.                          *)
THEOREM QueueKeepsPromise ==
    NoFaults /\ ~LateAdmission => (SafetySpec => Promise!PromiseSafety)
<1> SUFFICES ASSUME NoFaults, ~LateAdmission PROVE SafetySpec => Promise!PromiseSafety
    OBVIOUS
<1>1. Init => Promise!PromiseInit /\ PromiseAgrees
    <2> SUFFICES ASSUME Init PROVE Promise!PromiseInit /\ PromiseAgrees
        OBVIOUS
    <2>1. /\ jobs = EmptyQueue /\ prev = EmptyQueue /\ absorbed = {}
          /\ \A j \in Jobs : send[j] = "none" /\ execs[j] = 0 /\ shown[j] = 0
          /\ \A a \in Agents : worker[a].pc = "off"
        BY DEF Init, NoWork
    <2>2. Accepted = {} /\ ChildrenOf = [p \in Jobs |-> {}] /\ Started = {} /\ Answered = {}
        BY <2>1 DEF Accepted, ChildrenOf, Started, Answered
    <2>3. Promise!PromiseInit
        BY <2>2 DEF Promise!PromiseInit, Accepted, ChildrenOf, Started, Answered
    <2>4. PromiseAgrees
        BY <2>1 DEF PromiseAgrees, Linked, StartedHaveChildren, ListedAreAccepted, ArrivedAreOver,
                    Arrived, Joins, EmptyQueue
    <2>. QED BY <2>3, <2>4
<1>2. ASSUME QueueIInv, QueueIInv', diskFailures = 0 => StepsAgree, diskFailures = 0 => FamiliesWait,
             PromiseAgrees, [Next]_vars
      PROVE  PromiseAgrees' /\ [Promise!PromiseNext]_(Promise!promiseVars)
    <2>1. CASE Next
        <3>1. StepsAgree /\ FamiliesWait /\ TypeOK'
            BY <1>2, <2>1, NothingFails DEF QueueIInv
        <3>. QED BY <1>2, <2>1, <3>1, PromiseAgreesKept, QueueStepPromises
    <2>2. CASE UNCHANGED vars
        BY <1>2, <2>2 DEF vars, memory, storage, calls, history, PromiseAgrees, Linked, Parent,
           StartedHaveChildren, ListedAreAccepted, ArrivedAreOver, Arrived, Joins, Promise!promiseVars
    <2>. QED BY <1>2, <2>1, <2>2
<1>. QED BY <1>1, <1>2, QueueIsConsistent, StepsAlwaysAgree, FamiliesAlwaysWait, PTL
         DEF SafetySpec, Promise!PromiseSafety

-----------------------------------------------------------------------------
(* DelegationPromiseProofs is about whatever the promise allows.           *)
Allowed == INSTANCE DelegationPromiseProofs WITH
    accepted <- Accepted, children <- ChildrenOf, started <- Started, answered <- Answered

(* Under the same assumptions, whoever has the result of a queued job has  *)
(* it after the results of the jobs that job has sent: what the promise    *)
(* says of a family (docs/architecture.md 477-479) holds of the queue.     *)
THEOREM FamiliesAreAnsweredFirst ==
    NoFaults /\ ~LateAdmission => (SafetySpec => []Promise!AnswerIsComplete)
<1> USE DEF Accepted, ChildrenOf, Started, Answered
<1>1. Promise!PromiseInit => Allowed!PromiseInit
    BY DEF Promise!PromiseInit, Allowed!PromiseInit
<1>2. [Promise!PromiseNext]_(Promise!promiseVars) => [Allowed!PromiseNext]_(Allowed!promiseVars)
    BY DEF Promise!PromiseNext, Allowed!PromiseNext, Promise!promiseVars, Allowed!promiseVars,
           Promise!AcceptJob, Promise!StartJob, Promise!AnswerJob,
           Allowed!AcceptJob, Allowed!StartJob, Allowed!AnswerJob
<1>3. Allowed!AnswerIsComplete => Promise!AnswerIsComplete
    BY DEF Allowed!AnswerIsComplete, Promise!AnswerIsComplete
<1>4. Allowed!PromiseSafety => []Allowed!AnswerIsComplete
    BY Allowed!FamilyIsAnsweredFirst
<1>. QED BY QueueKeepsPromise, <1>1, <1>2, <1>3, <1>4, PTL
         DEF Promise!PromiseSafety, Allowed!PromiseSafety
=============================================================================

----------------------- MODULE DelegationQueueProofs ------------------------
(***************************************************************************)
(* A message and a result are given at most once, no accepted job is lost, *)
(* and no result is mistaken for a handled one, for any numbers of Koe,    *)
(* jobs, failed saves and restarts.                                        *)
(***************************************************************************)
EXTENDS DelegationQueue, WellFoundedInduction, TLAPS

IsList(q) == DOMAIN q \subseteq Jobs /\ \A j \in DOMAIN q : q[j] \in JobRecord

(* The admission of j is over.                                             *)
Decided(j) == send[j] \in {"accepted", "refused"}

(* A list says of j that its message may be out: nobody gives it again.    *)
Ran(q, j) ==
    j \in DOMAIN q => q[j].bound /\ (q[j].state = "queued" => q[j].resume # {})
RanEverywhere(j) == Ran(jobs, j) /\ Ran(prev, j) /\ Ran(disk.jobs, j)

(* A list says of j that its result may be out: nobody injects it again.   *)
FencedIn(q, j) == j \in DOMAIN q => q[j].fenced
FencedEverywhere(j) == FencedIn(jobs, j) /\ FencedIn(prev, j) /\ FencedIn(disk.jobs, j)

HasParents(q) == \A j \in DOMAIN q : Parent(j) # NoJob => Parent(j) \in DOMAIN q

(* The list, the one to put back and the one on disk, between them.        *)
ListsAgree ==
    /\ \A j \in Jobs :
        /\ j \in DOMAIN jobs \cup DOMAIN disk.jobs => Decided(j) \/ mut = Sender(j)
        /\ j \in DOMAIN prev => Decided(j)
        /\ mut = Sender(j) => send[j] = "ready" /\ j \in DOMAIN jobs
        /\ Parent(j) # j
    /\ HasParents(jobs) /\ HasParents(prev) /\ HasParents(disk.jobs)
    /\ Joins(prev) \subseteq absorbed /\ Joins(disk.jobs) \subseteq absorbed
    /\ mut = Nobody => Joins(jobs) \subseteq absorbed

(* A worker that is about to give a message has seen that nobody did, and  *)
(* every list says that it may be out.                                     *)
WorkerKnows(a) ==
    LET j == worker[a].job
    IN  /\ mut = Worker(a) => worker[a].pc \in {"start", "settle", "record"}
        /\ worker[a].pc \in {"wait", "start", "project"} =>
              j \in Jobs /\ target[j] = a /\ (worker[a].resume = {} => execs[j] = 0)
        /\ worker[a].pc = "start" /\ mut = Worker(a) => Ran(jobs, j)
        /\ worker[a].pc = "project" => Decided(j) /\ RanEverywhere(j)

MessagesAgree ==
    /\ \A j \in Jobs : execs[j] <= 1 /\ (execs[j] > 0 => Decided(j) /\ RanEverywhere(j))
    /\ \A a \in Agents : WorkerKnows(a)

(* A delivery that is about to inject a result has seen that nobody did,   *)
(* and every list and the handled ids say that it may be out.              *)
DeliveryKnows(j) ==
    /\ delivery[j] \notin {"off", "blocked"} =>
          /\ Decided(j)
          /\ mut # Deliverer(j) => j \in DOMAIN jobs
          /\ mut # Nobody => j \in DOMAIN prev
    /\ mut = Deliverer(j) => delivery[j] \in Mutating
    /\ mut = Deliverer(j) /\ delivery[j] = "deliver" /\ ~IsChild(j) =>
          j \in DOMAIN jobs /\ FencedIn(jobs, j)
    /\ delivery[j] \in {"accept", "save", "inject"} => conts[j] = 0 /\ FencedEverywhere(j)
    /\ delivery[j] = "accept" => j \notin handled
    /\ delivery[j] = "save" => j \in handled
    /\ delivery[j] = "inject" => j \in handled /\ j \in disk.handled
    /\ delivery[j] \in {"remove", "removeShown", "removeFallback"} => shown[j] > 0

ResultsAgree ==
    /\ \A j \in Jobs :
        /\ conts[j] <= 1
        /\ conts[j] > 0 => j \in handled /\ j \in disk.handled
        /\ j \in handled \cup disk.handled => Decided(j) /\ FencedEverywhere(j)
    /\ \A j \in Jobs : DeliveryKnows(j)

(* What has been accepted is in every list, or its result has arrived.     *)
Arrived(j) == shown[j] > 0 \/ j \in absorbed
AcceptedIsListed ==
    \A j \in Jobs : send[j] = "accepted" =>
        /\ j \in DOMAIN disk.jobs \/ Arrived(j)
        /\ mut # Nobody => j \in DOMAIN prev \/ Arrived(j)
        /\ j \in DOMAIN jobs \/ Arrived(j) \/ (mut = Deliverer(j) /\ j \in Joins(jobs))

QueueIInv == TypeOK /\ ListsAgree /\ MessagesAgree /\ ResultsAgree /\ AcceptedIsListed

-----------------------------------------------------------------------------
(* What a mutation may do to a job, and to the list.                       *)

Follows(r, s) ==
    /\ r.bound => s.bound
    /\ r.fenced => s.fenced
    /\ s.state = "queued" /\ s.resume = {} => r.state = "queued" /\ r.resume = {}
ListFollows(q, n) == IsList(n) /\ \A j \in DOMAIN q \cap DOMAIN n : Follows(q[j], n[j])

LEMMA MinIsElement ==
    ASSUME NEW S \in SUBSET Nat, S # {}
    PROVE  Min(S) \in S
<1>1. OpToRel(<, Nat) = {p \in Nat \X Nat : p[1] < p[2]}
    BY DEF OpToRel
<1>2. PICK x \in S : \A y \in S : ~(<<y, x>> \in OpToRel(<, Nat))
    BY NatLessThanWellFounded, WFMin
<1>3. \A y \in S : x =< y
    <2>1. SUFFICES ASSUME NEW y \in S PROVE x =< y
        OBVIOUS
    <2>2. <<y, x>> \notin {p \in Nat \X Nat : p[1] < p[2]}
        BY <1>1, <1>2
    <2>. QED BY <2>2
<1>. QED BY <1>3 DEF Min

LEMMA TransitionsFollow ==
    ASSUME NEW r \in JobRecord
    PROVE  /\ ResultPending(r) \in JobRecord /\ Follows(r, ResultPending(r))
           /\ Waiting(r) \in JobRecord /\ Follows(r, Waiting(r))
           /\ Running(r) \in JobRecord /\ Follows(r, Running(r))
           /\ \A s \in {"delivering", "result_pending"} :
                 Fenced(r, s) \in JobRecord /\ Follows(r, Fenced(r, s))
           /\ \A j \in Jobs : LET admits == [r EXCEPT !.pending = @ \cup {j}]
                             IN  admits \in JobRecord /\ Follows(r, admits)
BY DEF JobRecord, JobStates, Failures, Follows, ResultPending, Waiting, Running, Fenced

LEMMA SettleParentFollows ==
    ASSUME NEW r \in JobRecord
    PROVE  SettleParent(r) \in JobRecord /\ Follows(r, SettleParent(r))
BY DEF JobRecord, JobStates, Failures, Follows, SettleParent, ResultPending

LEMMA SettledFollows ==
    ASSUME NEW r \in JobRecord, NEW result \in {"completed", "failed", "cut"}
    PROVE  Settled(r, result) \in JobRecord /\ Follows(r, Settled(r, result))
<1> DEFINE f == IF result = "completed" THEN r ELSE [r EXCEPT !.turnFailure = result]
<1>1. f \in JobRecord /\ Follows(r, f)
    BY DEF JobRecord, JobStates, Failures, Follows
<1>2. /\ SettleParent(f) \in JobRecord /\ Follows(f, SettleParent(f))
      /\ Waiting(f) \in JobRecord /\ Follows(f, Waiting(f))
    BY <1>1, SettleParentFollows, TransitionsFollow
<1>3. /\ ResultPending(r) \in JobRecord /\ Follows(r, ResultPending(r))
    BY TransitionsFollow
<1>4. Settled(r, result) \in {ResultPending(r), Waiting(f), SettleParent(f)}
    BY DEF Settled
<1>. HIDE DEF f
<1>. QED BY <1>1, <1>2, <1>3, <1>4 DEF Follows

LEMMA JoinedFollows ==
    ASSUME NEW r \in JobRecord, NEW j \in Jobs
    PROVE  /\ Joined(r, j) \in JobRecord /\ Follows(r, Joined(r, j))
           /\ j \in Joined(r, j).childOutcomes \cup Joined(r, j).resume \cup Joined(r, j).text
<1> DEFINE joined == [r EXCEPT !.pending = @ \ {j}, !.childOutcomes = @ \cup {j}]
<1>1. joined \in JobRecord /\ Follows(r, joined) /\ j \in joined.childOutcomes
    BY DEF JobRecord, JobStates, Failures, Follows
<1>2. SettleParent(joined) \in JobRecord /\ Follows(joined, SettleParent(joined))
    BY <1>1, SettleParentFollows
<1>3. j \in SettleParent(joined).childOutcomes \cup SettleParent(joined).resume
            \cup SettleParent(joined).text
    BY <1>1 DEF SettleParent, ResultPending, JobRecord
<1>4. Joined(r, j) \in {joined, SettleParent(joined)}
    BY DEF Joined
<1>. HIDE DEF joined
<1>. QED BY <1>1, <1>2, <1>3, <1>4 DEF Follows

LEMMA AdmissionFollows ==
    ASSUME TypeOK, NEW j \in Jobs, j \notin DOMAIN jobs
    PROVE  ListFollows(jobs, Admitted(j)) /\ DOMAIN Admitted(j) = DOMAIN jobs \cup {j}
<1> USE DEF TypeOK
<1> DEFINE p == Parent(j)
           with == IF p \in DOMAIN jobs
                   THEN Rewrite(p, LAMBDA r : [r EXCEPT !.pending = @ \cup {j}]) ELSE jobs
<1>1. /\ DOMAIN with = DOMAIN jobs
      /\ \A i \in DOMAIN jobs : with[i] \in JobRecord /\ Follows(jobs[i], with[i])
    <2>1. \A i \in DOMAIN jobs : Follows(jobs[i], jobs[i])
        BY DEF Follows
    <2>2. \A i \in DOMAIN jobs : with[i] = jobs[i] \/ with[i] = [jobs[i] EXCEPT !.pending = @ \cup {j}]
        BY DEF Rewrite
    <2>3. DOMAIN with = DOMAIN jobs
        BY DEF Rewrite
    <2>4. \A i \in DOMAIN jobs : jobs[i] \in JobRecord
        OBVIOUS
    <2>5. \A i \in DOMAIN jobs : [jobs[i] EXCEPT !.pending = @ \cup {j}] \in JobRecord
                                /\ Follows(jobs[i], [jobs[i] EXCEPT !.pending = @ \cup {j}])
        BY <2>4, TransitionsFollow
    <2>. HIDE DEF with, TypeOK
    <2>. QED BY <2>1, <2>2, <2>3, <2>4, <2>5
<1>2. NewJob \in JobRecord
    BY DEF NewJob, JobRecord, JobStates, Failures
<1>3. Admitted(j) = With(with, j, NewJob)
    BY DEF Admitted
<1>. HIDE DEF with
<1>. QED BY <1>1, <1>2, <1>3 DEF With, ListFollows, IsList

LEMMA RunningFollows ==
    ASSUME TypeOK, NEW a \in Agents
    PROVE  LET next == Rewrite(worker[a].job, Running)
           IN  ListFollows(jobs, next) /\ DOMAIN next = DOMAIN jobs /\ Ran(next, worker[a].job)
<1>1. \A i \in DOMAIN jobs : Follows(jobs[i], jobs[i])
    BY DEF Follows
<1>2. \A i \in DOMAIN jobs : Running(jobs[i]).bound /\ Running(jobs[i]).state # "queued"
    BY DEF TypeOK, Running, JobRecord
<1>. QED BY <1>1, <1>2, TransitionsFollow DEF TypeOK, Rewrite, ListFollows, IsList, Ran

LEMMA EndFollows ==
    ASSUME TypeOK, NEW a \in Agents
    PROVE  ListFollows(jobs, EndOfJob(a)) /\ DOMAIN EndOfJob(a) = DOMAIN jobs
<1>1. \A i \in DOMAIN jobs : Follows(jobs[i], jobs[i])
    BY DEF Follows
<1>2. worker[a].result \in {"completed", "failed", "cut"}
    BY DEF TypeOK
<1>3. \A i \in DOMAIN jobs :
          EndOfJob(a)[i] \in {jobs[i], Settled(jobs[i], worker[a].result), ResultPending(jobs[i])}
    BY DEF EndOfJob, Rewrite
<1>4. DOMAIN EndOfJob(a) = DOMAIN jobs
    BY DEF EndOfJob, Rewrite
<1>5. \A i \in DOMAIN jobs : i \in Jobs /\ jobs[i] \in JobRecord
    BY DEF TypeOK
<1>6. \A i \in DOMAIN jobs :
          /\ ResultPending(jobs[i]) \in JobRecord /\ Follows(jobs[i], ResultPending(jobs[i]))
          /\ Settled(jobs[i], worker[a].result) \in JobRecord
          /\ Follows(jobs[i], Settled(jobs[i], worker[a].result))
    BY <1>2, <1>5, TransitionsFollow, SettledFollows
<1>7. \A i \in DOMAIN jobs : EndOfJob(a)[i] \in JobRecord /\ Follows(jobs[i], EndOfJob(a)[i])
    BY <1>1, <1>3, <1>5, <1>6
<1>. QED BY <1>4, <1>5, <1>7 DEF ListFollows, IsList

LEMMA DeliveryFollows ==
    ASSUME TypeOK, NEW j \in Jobs, delivery[j] \in Mutating
    PROVE  LET next == DeliveryChange(j)
           IN  /\ ListFollows(jobs, next)
               /\ DOMAIN next \subseteq DOMAIN jobs /\ DOMAIN jobs \ {j} \subseteq DOMAIN next
               /\ delivery[j] = "deliver" /\ ~IsChild(j) => FencedIn(next, j)
               /\ delivery[j] = "restore" \/ (delivery[j] = "deliver" /\ ~IsChild(j))
                     => DOMAIN next = DOMAIN jobs
<1>1. \A i \in DOMAIN jobs : i \in Jobs /\ jobs[i] \in JobRecord /\ Follows(jobs[i], jobs[i])
    BY DEF Follows, TypeOK
<1>2. CASE delivery[j] = "deliver" /\ IsChild(j)
    <2> DEFINE with == Rewrite(Parent(j), LAMBDA r : Joined(r, j))
    <2>1. DOMAIN with = DOMAIN jobs
        BY DEF Rewrite
    <2>2. \A i \in DOMAIN jobs : with[i] \in {jobs[i], Joined(jobs[i], j)}
        BY DEF Rewrite
    <2>3. DeliveryChange(j) = Without(with, j)
        BY <1>2 DEF DeliveryChange
    <2>4. \A i \in DOMAIN jobs : Joined(jobs[i], j) \in JobRecord
                                /\ Follows(jobs[i], Joined(jobs[i], j))
        BY <1>1, JoinedFollows
    <2>. HIDE DEF with
    <2>. QED BY <1>1, <1>2, <2>1, <2>2, <2>3, <2>4 DEF Without, ListFollows, IsList
<1>3. CASE delivery[j] = "deliver" /\ ~IsChild(j)
    <2> DEFINE with == Rewrite(j, LAMBDA r : Fenced(r, "delivering"))
    <2>1. DOMAIN with = DOMAIN jobs
        BY DEF Rewrite
    <2>2. \A i \in DOMAIN jobs : with[i] = IF i = j THEN Fenced(jobs[i], "delivering") ELSE jobs[i]
        BY DEF Rewrite
    <2>3. DeliveryChange(j) = with
        BY <1>3 DEF DeliveryChange
    <2>4. \A i \in DOMAIN jobs : Fenced(jobs[i], "delivering").fenced
        BY <1>1 DEF Fenced, JobRecord
    <2>5. \A i \in DOMAIN jobs : Fenced(jobs[i], "delivering") \in JobRecord
                                /\ Follows(jobs[i], Fenced(jobs[i], "delivering"))
        BY <1>1, TransitionsFollow
    <2>. HIDE DEF with
    <2>. QED BY <1>1, <1>3, <2>1, <2>2, <2>3, <2>4, <2>5 DEF ListFollows, IsList, FencedIn
<1>4. CASE delivery[j] = "restore"
    <2> DEFINE with == Rewrite(j, LAMBDA r : Fenced(r, "result_pending"))
    <2>1. DOMAIN with = DOMAIN jobs
        BY DEF Rewrite
    <2>2. \A i \in DOMAIN jobs : with[i] = IF i = j THEN Fenced(jobs[i], "result_pending") ELSE jobs[i]
        BY DEF Rewrite
    <2>3. DeliveryChange(j) = with
        BY <1>4 DEF DeliveryChange
    <2>4. \A i \in DOMAIN jobs : Fenced(jobs[i], "result_pending") \in JobRecord
                                /\ Follows(jobs[i], Fenced(jobs[i], "result_pending"))
        BY <1>1, TransitionsFollow
    <2>. HIDE DEF with
    <2>. QED BY <1>1, <1>4, <2>1, <2>2, <2>3, <2>4 DEF ListFollows, IsList
<1>5. CASE delivery[j] \in {"remove", "removeShown", "removeFallback"}
    <2>1. DeliveryChange(j) = Without(jobs, j)
        BY <1>5 DEF DeliveryChange
    <2>. QED BY <1>1, <1>5, <2>1 DEF Without, ListFollows, IsList
<1>. QED BY <1>2, <1>3, <1>4, <1>5 DEF Mutating

LEMMA JoinsItsParent ==
    ASSUME TypeOK, NEW j \in Jobs, delivery[j] = "deliver", IsChild(j),
           Parent(j) \in DOMAIN jobs, Parent(j) # j
    PROVE  j \in Joins(DeliveryChange(j))
<1>1. PICK p : p = Parent(j)
    OBVIOUS
<1>2. PICK next : next = DeliveryChange(j)
    OBVIOUS
<1>3. next = Without(Rewrite(p, LAMBDA r : Joined(r, j)), j)
    BY <1>1, <1>2 DEF DeliveryChange
<1>4. p \in DOMAIN next /\ next[p] = Joined(jobs[p], j)
    BY <1>1, <1>3 DEF Without, Rewrite
<1>5. jobs[p] \in JobRecord
    BY <1>1 DEF TypeOK
<1>6. j \in next[p].childOutcomes \cup next[p].resume \cup next[p].text
    BY <1>4, <1>5, JoinedFollows
<1>7. j \in Joins(next)
    BY <1>4, <1>6 DEF Joins
<1>. QED BY <1>2, <1>7

LEMMA RecoveryFollows ==
    ASSUME NEW q, IsList(q)
    PROVE  ListFollows(q, Recovered(q)) /\ DOMAIN Recovered(q) = DOMAIN q
<1>1. \A r \in JobRecord : [r EXCEPT !.turnFailure = "cut"] \in JobRecord
                           /\ Follows(r, [r EXCEPT !.turnFailure = "cut"]) /\ Follows(r, r)
    BY DEF JobRecord, JobStates, Failures, Follows
<1>2. \A r \in JobRecord : LET cut == Waiting([r EXCEPT !.turnFailure = "cut"])
                           IN  cut \in JobRecord /\ Follows(r, cut)
    BY <1>1, TransitionsFollow DEF Follows
<1>3. DOMAIN Recovered(q) = DOMAIN q
    BY DEF Recovered
<1>4. \A i \in DOMAIN q : Recovered(q)[i] \in {Waiting([q[i] EXCEPT !.turnFailure = "cut"]),
          ResultPending(q[i]), Fenced(q[i], "result_pending"), q[i]}
    BY DEF Recovered
<1>. QED BY <1>1, <1>2, <1>3, <1>4, TransitionsFollow DEF IsList, ListFollows

-----------------------------------------------------------------------------
(* What a step does to the lists.                                          *)

ListsStay == UNCHANGED <<jobs, mut, prev, disk, absorbed>>
ListBegun ==
    /\ mut = Nobody /\ prev' = jobs /\ UNCHANGED <<disk, absorbed>>
    /\ ListFollows(jobs, jobs') /\ HasParents(jobs')
    /\ \/ \E j \in Jobs : BeginAdmission(j) /\ DOMAIN jobs' = DOMAIN jobs \cup {j}
       \/ \E a \in Agents : (BeginRunning(a) \/ BeginEnd(a)) /\ DOMAIN jobs' = DOMAIN jobs
       \/ \E j \in Jobs :
            /\ BeginDelivery(j)
            /\ DOMAIN jobs' \subseteq DOMAIN jobs /\ DOMAIN jobs \ {j} \subseteq DOMAIN jobs'
ListWritten ==
    /\ jobs' = jobs /\ disk' = Snapshot /\ absorbed' = absorbed \cup Joins(jobs)
    /\ UNCHANGED <<mut, prev>> \/ (mut' = Nobody /\ prev' = EmptyQueue)
ListPutBack ==
    /\ mut # Nobody
    /\ jobs' = prev /\ mut' = Nobody /\ prev' = EmptyQueue
    /\ UNCHANGED <<disk, absorbed>>

LEMMA ActorsDiffer ==
    /\ \A i, j \in Jobs : /\ Sender(i) = Sender(j) => i = j
                          /\ Deliverer(i) = Deliverer(j) => i = j
                          /\ Sender(i) # Deliverer(j)
    /\ \A a, b \in Agents : Worker(a) = Worker(b) => a = b
    /\ \A a \in Agents, j \in Jobs : Worker(a) # Sender(j) /\ Worker(a) # Deliverer(j)
    /\ \A j \in Jobs : /\ Sender(j) # Nobody /\ Deliverer(j) # Nobody
                       /\ Sender(j) # Recoverer /\ Deliverer(j) # Recoverer
    /\ \A a \in Agents : Worker(a) # Nobody /\ Worker(a) # Recoverer
    /\ Recoverer # Nobody
BY DEF Sender, Worker, Deliverer, Nobody, Recoverer

LEMMA BegunIsValid ==
    ASSUME NEW actor, NEW next, BeginMutation(actor, next)
    PROVE  /\ mut = Nobody /\ mut' = actor /\ prev' = jobs /\ jobs' = next
           /\ UNCHANGED <<disk, absorbed>> /\ HasParents(next)
BY DEF BeginMutation, ValidQueue, HasParents

LEMMA StepOfLists ==
    ASSUME TypeOK, ListsAgree, Next
    PROVE  ListsStay \/ ListBegun \/ ListWritten \/ ListPutBack \/ Restart
<1> DEFINE Goal == ListsStay \/ ListBegun \/ ListWritten \/ ListPutBack \/ Restart
<1> SUFFICES Goal
    OBVIOUS
<1>1. ASSUME NEW j \in Jobs, BeginAdmission(j) PROVE Goal
    <2>1. j \notin DOMAIN jobs
        BY <1>1, ActorsDiffer DEF BeginAdmission, BeginMutation, ListsAgree, Decided
    <2>2. BeginMutation(Sender(j), Admitted(j))
        BY <1>1 DEF BeginAdmission
    <2>3. ListFollows(jobs, Admitted(j)) /\ DOMAIN Admitted(j) = DOMAIN jobs \cup {j}
        BY <2>1, AdmissionFollows
    <2>. QED BY <1>1, <2>2, <2>3, BegunIsValid DEF ListBegun
<1>2. ASSUME NEW a \in Agents, BeginRunning(a) PROVE Goal
    <2>1. BeginMutation(Worker(a), Rewrite(worker[a].job, Running))
        BY <1>2 DEF BeginRunning
    <2>. QED BY <1>2, <2>1, RunningFollows, BegunIsValid DEF ListBegun
<1>3. ASSUME NEW a \in Agents, BeginEnd(a) PROVE Goal
    <2>1. BeginMutation(Worker(a), EndOfJob(a))
        BY <1>3 DEF BeginEnd
    <2>. QED BY <1>3, <2>1, EndFollows, BegunIsValid DEF ListBegun
<1>4. ASSUME NEW j \in Jobs, BeginDelivery(j) PROVE Goal
    <2>1. BeginMutation(Deliverer(j), DeliveryChange(j)) /\ delivery[j] \in Mutating
        BY <1>4 DEF BeginDelivery
    <2>. QED BY <1>4, <2>1, DeliveryFollows, BegunIsValid DEF ListBegun
<1>5. ASSUME NEW actor, CommitMutation(actor) PROVE Goal
    BY <1>5 DEF CommitMutation, Save, memory, ListWritten
<1>6. ASSUME NEW actor, actor # Nobody, RollBack(actor) PROVE Goal
    BY <1>6 DEF RollBack, ListPutBack
<1>7. ASSUME OtherSave \/ \E j \in Jobs : HandledSaved(j) PROVE Goal
    BY <1>7 DEF OtherSave, HandledSaved, Save, memory, ListWritten
<1>8. ASSUME UNCHANGED storage /\ UNCHANGED jobs PROVE Goal
    BY <1>8 DEF storage, ListsStay
<1>9. ASSUME NEW j \in Jobs, SendStep(j) PROVE Goal
    <2>1. ASSUME NEW c \in Jobs \cup {NoJob}, DeriveSend(j, c) PROVE Goal
        BY <1>8, <2>1 DEF DeriveSend, memory
    <2>2. ASSUME RefuseSend(j) PROVE Goal
        BY <1>8, <2>2 DEF RefuseSend, memory
    <2>3. ASSUME AcceptSend(j) PROVE Goal
        BY <1>5, <2>3 DEF AcceptSend
    <2>4. ASSUME RollBackSend(j) PROVE Goal
        BY <1>6, <2>4, ActorsDiffer DEF RollBackSend
    <2>. QED BY <1>1, <1>9, <2>1, <2>2, <2>3, <2>4 DEF SendStep
<1>10. ASSUME NEW a \in Agents, WorkerStep(a) PROVE Goal
    <2>1. ASSUME PickJob(a) \/ StopScanning(a) \/ LeaveWorker(a) \/ LeaseGranted(a)
                 \/ StartFails(a) \/ TurnStep(a) PROVE Goal
        <3>1. WorkerOnly
            BY <2>1 DEF PickJob, StopScanning, LeaveWorker, LeaseGranted, StartFails, TurnStep,
                        TurnEnds
        <3>. QED BY <1>8, <3>1 DEF WorkerOnly, memory
    <2>2. ASSUME RunTurn(a) PROVE Goal
        BY <1>8, <2>2 DEF RunTurn, memory
    <2>3. ASSUME RunningSaved(a) \/ EndSaved(a) PROVE Goal
        BY <1>5, <2>3 DEF RunningSaved, EndSaved
    <2>4. ASSUME RunningNotSaved(a) \/ EndNotSaved(a) PROVE Goal
        <3>1. CASE RollBack(Worker(a))
            BY <1>6, <3>1, ActorsDiffer
        <3>2. CASE \E next : Refuse(next)
            BY <1>8, <3>2 DEF Refuse
        <3>. QED BY <2>4, <3>1, <3>2 DEF RunningNotSaved, EndNotSaved
    <2>. QED BY <1>2, <1>3, <1>10, <2>1, <2>2, <2>3, <2>4 DEF WorkerStep
<1>11. ASSUME NEW j \in Jobs, DeliveryStep(j) PROVE Goal
    <2>1. ASSUME AbsorbSaved(j) \/ FenceSaved(j) \/ RemovalSaved(j) \/ RestoreSaved(j) PROVE Goal
        BY <1>5, <2>1 DEF AbsorbSaved, FenceSaved, RemovalSaved, RestoreSaved
    <2>2. ASSUME DeliveryNotSaved(j) PROVE Goal
        <3>1. CASE RollBack(Deliverer(j))
            BY <1>6, <3>1, ActorsDiffer
        <3>2. CASE Refuse(DeliveryChange(j))
            BY <1>8, <3>2 DEF Refuse
        <3>. QED BY <2>2, <3>1, <3>2 DEF DeliveryNotSaved
    <2>3. ASSUME RecordHandled(j) PROVE Goal
        BY <1>8, <2>3 DEF RecordHandled
    <2>4. ASSUME HandledNotSaved(j) PROVE Goal
        BY <2>4 DEF HandledNotSaved, ListsStay
    <2>5. ASSUME InjectContinuation(j) \/ ContinuationFails(j) \/ RawPosted(j) \/ RawNotPosted(j)
          PROVE Goal
        BY <1>8, <2>5 DEF InjectContinuation, ContinuationFails, RawPosted, RawNotPosted,
                          DeliveryOnly, memory
    <2>6. ASSUME NEW next, ContinuationEnds(j, next) PROVE Goal
        BY <1>8, <2>6 DEF ContinuationEnds, memory
    <2>. QED BY <1>4, <1>7, <1>11, <2>1, <2>2, <2>3, <2>4, <2>5, <2>6
             DEF DeliveryStep, ContinuationStep
<1>12. ASSUME Environment PROVE Goal
    <2>1. ASSUME NEW j \in Jobs, NEW t \in Turns, CaptureSend(j, t) PROVE Goal
        BY <1>8, <2>1 DEF CaptureSend, memory
    <2>2. ASSUME NEW j \in Jobs, DenySend(j) PROVE Goal
        BY <1>8, <2>2 DEF DenySend, memory
    <2>3. ASSUME NEW a \in Agents, DeclineJob(a) PROVE Goal
        BY <1>8, <2>3 DEF DeclineJob, WorkerOnly, memory
    <2>4. ASSUME BeginDrain \/ BeginShutdown PROVE Goal
        BY <1>8, <2>4 DEF BeginDrain, BeginShutdown, memory
    <2>. QED BY <1>7, <1>12, <2>1, <2>2, <2>3, <2>4 DEF Environment
<1>13. ASSUME RecoverySaved \/ RecoveryNotSaved PROVE Goal
    BY <1>5, <1>6, <1>13, ActorsDiffer DEF RecoverySaved, RecoveryNotSaved
<1>. QED BY <1>9, <1>10, <1>11, <1>12, <1>13 DEF Next

(* What a step does to the admission of j.                                 *)
LEMMA StepOfSends ==
    ASSUME TypeOK, ListsAgree, Next, NEW j \in Jobs
    PROVE  /\ Decided(j) => send'[j] = send[j]
           /\ mut = Sender(j) => IF mut' = Sender(j) THEN send'[j] = send[j]
                                                     ELSE send'[j] \in {"accepted", "refused"}
           /\ mut' = Sender(j) => mut = Sender(j) \/ BeginAdmission(j)
           /\ source'[j] = source[j] \/ \E t \in Turns : CaptureSend(j, t)
           /\ send'[j] = "accepted" => send[j] = "accepted" \/ AcceptSend(j)
<1> DEFINE Goal ==
           /\ Decided(j) => send'[j] = send[j]
           /\ mut = Sender(j) => IF mut' = Sender(j) THEN send'[j] = send[j]
                                                     ELSE send'[j] \in {"accepted", "refused"}
           /\ mut' = Sender(j) => mut = Sender(j) \/ BeginAdmission(j)
           /\ source'[j] = source[j] \/ \E t \in Turns : CaptureSend(j, t)
           /\ send'[j] = "accepted" => send[j] = "accepted" \/ AcceptSend(j)
<1> SUFFICES Goal
    OBVIOUS
<1>1. send \in [Jobs -> {"none", "captured", "ready", "accepted", "refused"}]
      /\ source \in [Jobs -> [kind: {"none", "slack", "job"}, of: Jobs \cup {NoJob}]]
    BY DEF TypeOK
<1>2. mut = Sender(j) => send[j] = "ready"
    BY DEF ListsAgree
<1>3. ASSUME UNCHANGED <<send, source>>, mut' = mut PROVE Goal
    BY <1>3
<1>4. ASSUME UNCHANGED <<send, source>>, NEW actor, actor # Sender(j),
             (mut' = actor /\ mut = Nobody) \/ (mut = actor /\ mut' = Nobody) PROVE Goal
    BY <1>4, ActorsDiffer
<1>5. ASSUME NEW i \in Jobs, SendStep(i) PROVE Goal
    <2>1. ASSUME NEW c \in Jobs \cup {NoJob}, DeriveSend(i, c) PROVE Goal
        BY <1>1, <1>2, <2>1 DEF DeriveSend, Decided, storage
    <2>2. ASSUME BeginAdmission(i) PROVE Goal
        BY <1>1, <2>2, ActorsDiffer DEF BeginAdmission, BeginMutation, calls
    <2>3. ASSUME RefuseSend(i) PROVE Goal
        BY <1>1, <2>3, ActorsDiffer DEF RefuseSend, Decided, storage
    <2>4. ASSUME AcceptSend(i) PROVE Goal
        BY <1>1, <1>2, <2>4, ActorsDiffer DEF AcceptSend, CommitMutation, Decided, ListsAgree
    <2>5. ASSUME RollBackSend(i) PROVE Goal
        BY <1>1, <1>2, <2>5, ActorsDiffer DEF RollBackSend, RollBack, Decided, ListsAgree
    <2>. QED BY <1>5, <2>1, <2>2, <2>3, <2>4, <2>5 DEF SendStep
<1>6. ASSUME NEW a \in Agents, WorkerStep(a) PROVE Goal
    <2>1. ASSUME PickJob(a) \/ StopScanning(a) \/ LeaveWorker(a) \/ LeaseGranted(a)
                 \/ StartFails(a) \/ TurnStep(a) PROVE Goal
        <3>1. WorkerOnly
            BY <2>1 DEF PickJob, StopScanning, LeaveWorker, LeaseGranted, StartFails, TurnStep,
                        TurnEnds
        <3>. QED BY <1>3, <3>1 DEF WorkerOnly, calls, storage
    <2>2. ASSUME RunTurn(a) PROVE Goal
        BY <1>3, <2>2 DEF RunTurn, calls, storage
    <2>3. ASSUME BeginRunning(a) \/ BeginEnd(a) PROVE Goal
        BY <1>4, <2>3, ActorsDiffer DEF BeginRunning, BeginEnd, BeginMutation, calls
    <2>4. ASSUME RunningSaved(a) \/ EndSaved(a) PROVE Goal
        <3>1. CommitMutation(Worker(a)) /\ UNCHANGED <<send, source>>
            BY <2>4 DEF RunningSaved, EndSaved, calls
        <3>. QED BY <1>4, <3>1, ActorsDiffer DEF CommitMutation
    <2>5. ASSUME RunningNotSaved(a) \/ EndNotSaved(a) PROVE Goal
        <3>1. UNCHANGED <<send, source>>
            BY <2>5 DEF RunningNotSaved, EndNotSaved, calls
        <3>2. CASE RollBack(Worker(a))
            BY <1>4, <3>1, <3>2, ActorsDiffer DEF RollBack
        <3>3. CASE \E next : Refuse(next)
            BY <1>3, <3>1, <3>3 DEF Refuse, storage
        <3>. QED BY <2>5, <3>2, <3>3 DEF RunningNotSaved, EndNotSaved
    <2>. QED BY <1>6, <2>1, <2>2, <2>3, <2>4, <2>5 DEF WorkerStep
<1>7. ASSUME NEW i \in Jobs, DeliveryStep(i) PROVE Goal
    <2>1. UNCHANGED <<send, source>>
        BY <1>7 DEF DeliveryStep, ContinuationStep, BeginDelivery, AbsorbSaved, FenceSaved,
                    RemovalSaved, RestoreSaved, DeliveryNotSaved, RecordHandled, HandledSaved,
                    HandledNotSaved, InjectContinuation, ContinuationFails, ContinuationEnds,
                    RawPosted, RawNotPosted, DeliveryOnly, calls
    <2>2. ASSUME BeginDelivery(i) PROVE Goal
        BY <1>4, <2>1, <2>2, ActorsDiffer DEF BeginDelivery, BeginMutation
    <2>3. ASSUME AbsorbSaved(i) \/ FenceSaved(i) \/ RemovalSaved(i) \/ RestoreSaved(i) PROVE Goal
        <3>1. CommitMutation(Deliverer(i))
            BY <2>3 DEF AbsorbSaved, FenceSaved, RemovalSaved, RestoreSaved
        <3>. QED BY <1>4, <2>1, <3>1, ActorsDiffer DEF CommitMutation
    <2>4. ASSUME DeliveryNotSaved(i) PROVE Goal
        <3>1. CASE RollBack(Deliverer(i))
            BY <1>4, <2>1, <3>1, ActorsDiffer DEF RollBack
        <3>2. CASE Refuse(DeliveryChange(i))
            BY <1>3, <2>1, <3>2 DEF Refuse, storage
        <3>. QED BY <2>4, <3>1, <3>2 DEF DeliveryNotSaved
    <2>5. ASSUME ContinuationStep(i) PROVE Goal
        <3>1. mut' = mut
            BY <2>5 DEF ContinuationStep, RecordHandled, HandledSaved, HandledNotSaved,
                        InjectContinuation, ContinuationFails, ContinuationEnds, RawPosted,
                        RawNotPosted, DeliveryOnly, storage
        <3>. QED BY <1>3, <2>1, <3>1
    <2>. QED BY <1>7, <2>2, <2>3, <2>4, <2>5 DEF DeliveryStep
<1>8. ASSUME Environment PROVE Goal
    <2>1. ASSUME NEW i \in Jobs, NEW t \in Turns, CaptureSend(i, t) PROVE Goal
        BY <1>1, <1>2, <2>1 DEF CaptureSend, Decided, storage
    <2>2. ASSUME NEW i \in Jobs, DenySend(i) PROVE Goal
        BY <1>1, <1>2, <2>2 DEF DenySend, Decided, storage
    <2>3. ASSUME NEW a \in Agents, DeclineJob(a) PROVE Goal
        BY <1>3, <2>3 DEF DeclineJob, WorkerOnly, calls, storage
    <2>4. ASSUME BeginDrain \/ BeginShutdown \/ OtherSave PROVE Goal
        BY <1>3, <2>4 DEF BeginDrain, BeginShutdown, OtherSave, calls, storage
    <2>5. ASSUME Restart PROVE Goal
        <3>1. mut' \in {Nobody, Recoverer} /\ source' = source
            BY <2>5 DEF Restart
        <3>2. send'[j] = IF send[j] \in {"captured", "ready"} THEN "refused" ELSE send[j]
            BY <2>5 DEF Restart, InFlight
        <3>. QED BY <1>2, <3>1, <3>2, ActorsDiffer DEF Decided
    <2>. QED BY <1>8, <2>1, <2>2, <2>3, <2>4, <2>5 DEF Environment
<1>9. ASSUME RecoverySaved \/ RecoveryNotSaved PROVE Goal
    <2>1. UNCHANGED <<send, source>> /\ mut = Recoverer /\ mut' = Nobody
        BY <1>9 DEF RecoverySaved, RecoveryNotSaved, CommitMutation, RollBack, calls
    <2>. QED BY <1>4, <2>1, ActorsDiffer
<1>. QED BY <1>5, <1>6, <1>7, <1>8, <1>9 DEF Next

-----------------------------------------------------------------------------
(* What a step of others does to the worker of a, and to the delivery of j.*)

WorkerStays(a) ==
    /\ \/ worker'[a] = worker[a]
       \/ worker'[a].pc \in {"off", "scan"} /\ mut' # Worker(a)
    /\ mut' = Worker(a) => mut = Worker(a)
    /\ \A j \in Jobs : execs'[j] = execs[j] \/ target[j] # a

LEMMA StepOfWorker ==
    ASSUME TypeOK, MessagesAgree, Next, NEW a \in Agents
    PROVE  WorkerStays(a) \/ WorkerStep(a) \/ DeclineJob(a)
<1> DEFINE Goal == WorkerStays(a) \/ WorkerStep(a) \/ DeclineJob(a)
           Moves == worker'[a] = worker[a] \/ worker'[a].pc \in {"off", "scan"}
<1> SUFFICES Goal
    OBVIOUS
<1>1. worker \in [Agents -> [pc: WorkerStates, job: Jobs \cup {NoJob},
                             result: {"completed", "failed", "cut"}, resume: SUBSET Jobs]]
      /\ target \in [Jobs -> Agents] /\ execs \in [Jobs -> Nat]
    BY DEF TypeOK
<1>2. ASSUME UNCHANGED execs, worker'[a] = worker[a], mut' = mut PROVE Goal
    BY <1>2 DEF WorkerStays
<1>3. ASSUME UNCHANGED execs, Moves, NEW actor, actor # Worker(a),
             mut' = Nobody \/ mut' = actor PROVE Goal
    BY <1>3, ActorsDiffer DEF WorkerStays
<1>4. \A b \in Agents : WakeWorker(worker, b)[a] = worker[a]
                        \/ WakeWorker(worker, b)[a].pc = "scan"
    BY <1>1 DEF WakeWorker
<1>5. Nobody # Worker(a) /\ Recoverer # Worker(a)
    BY ActorsDiffer
<1>6. ASSUME NEW j \in Jobs, SendStep(j) PROVE Goal
    <2>1. UNCHANGED execs
        BY <1>6 DEF SendStep, DeriveSend, BeginAdmission, RefuseSend, AcceptSend, RollBackSend, history
    <2>2. ASSUME AcceptSend(j) PROVE Goal
        <3>1. worker' = WakeWorker(worker, target[j]) /\ mut' = Nobody
            BY <2>2 DEF AcceptSend, CommitMutation
        <3>. QED BY <1>1, <1>3, <1>4, <1>5, <2>1, <3>1
    <2>3. ASSUME BeginAdmission(j) \/ RollBackSend(j) PROVE Goal
        <3>1. worker' = worker /\ mut' \in {Sender(j), Nobody}
            BY <2>3 DEF BeginAdmission, BeginMutation, RollBackSend, RollBack
        <3>. QED BY <1>3, <2>1, <3>1, ActorsDiffer
    <2>4. ASSUME RefuseSend(j) \/ \E c \in Jobs \cup {NoJob} : DeriveSend(j, c) PROVE Goal
        <3>1. worker' = worker /\ mut' = mut
            BY <2>4 DEF RefuseSend, DeriveSend, storage
        <3>. QED BY <1>2, <2>1, <3>1
    <2>. QED BY <1>6, <2>2, <2>3, <2>4 DEF SendStep
<1>7. ASSUME NEW b \in Agents, b # a, WorkerStep(b) PROVE Goal
    <2>1. worker'[a] = worker[a]
        BY <1>1, <1>7 DEF WorkerStep, PickJob, StopScanning, LeaveWorker, LeaseGranted, StartFails,
                  BeginRunning, RunningSaved, RunningNotSaved, RunTurn, TurnStep, TurnEnds, BeginEnd,
                  EndSaved, EndNotSaved, Goto
    <2>2. mut' \in {mut, Nobody, Worker(b)}
        BY <1>7 DEF WorkerStep, PickJob, StopScanning, LeaveWorker, LeaseGranted, StartFails,
                  BeginRunning, RunningSaved, RunningNotSaved, RunTurn, TurnStep, TurnEnds, BeginEnd,
                  EndSaved, EndNotSaved, WorkerOnly, storage, BeginMutation, CommitMutation,
                  RollBack, Refuse
    <2>3. \A j \in Jobs : execs'[j] = execs[j] \/ target[j] # a
        <3>1. CASE RunTurn(b)
            <4>1. target[worker[b].job] = b
                BY <3>1 DEF RunTurn, MessagesAgree, WorkerKnows
            <4>2. \A j \in Jobs : j # worker[b].job => execs'[j] = execs[j]
                BY <1>1, <3>1 DEF RunTurn
            <4>. QED BY <1>7, <4>1, <4>2
        <3>2. CASE ~RunTurn(b)
            BY <1>7, <3>2 DEF WorkerStep, PickJob, StopScanning, LeaveWorker, LeaseGranted,
                  StartFails, BeginRunning, RunningSaved, RunningNotSaved, TurnStep, TurnEnds,
                  BeginEnd, EndSaved, EndNotSaved, WorkerOnly, history
        <3>. QED BY <3>1, <3>2
    <2>4. mut' = Worker(a) => mut = Worker(a)
        BY <1>7, <2>2, ActorsDiffer
    <2>. QED BY <2>1, <2>3, <2>4 DEF WorkerStays
<1>8. ASSUME NEW j \in Jobs, DeliveryStep(j) PROVE Goal
    <2>1. UNCHANGED execs
        BY <1>8 DEF DeliveryStep, ContinuationStep, BeginDelivery, AbsorbSaved, FenceSaved,
                    RemovalSaved, RestoreSaved, DeliveryNotSaved, RecordHandled, HandledSaved,
                    HandledNotSaved, InjectContinuation, ContinuationFails, ContinuationEnds,
                    RawPosted, RawNotPosted, DeliveryOnly, history
    <2>2. ASSUME AbsorbSaved(j) PROVE Goal
        <3>1. worker' = ScheduledWorkers(worker, Parent(j)) /\ mut' = Nobody
            BY <2>2 DEF AbsorbSaved, CommitMutation
        <3>2. Parent(j) \in DOMAIN jobs => target[Parent(j)] \in Agents
            BY DEF TypeOK
        <3>. QED BY <1>3, <1>4, <1>5, <2>1, <3>1, <3>2 DEF ScheduledWorkers
    <2>3. ASSUME ~AbsorbSaved(j) PROVE Goal
        <3>1. worker' = worker
            BY <1>8, <2>3 DEF DeliveryStep, ContinuationStep, BeginDelivery, FenceSaved,
                    RemovalSaved, RestoreSaved, DeliveryNotSaved, RecordHandled, HandledSaved,
                    HandledNotSaved, InjectContinuation, ContinuationFails, ContinuationEnds,
                    RawPosted, RawNotPosted, DeliveryOnly
        <3>2. mut' \in {mut, Nobody, Deliverer(j)}
            BY <1>8, <2>3 DEF DeliveryStep, ContinuationStep, BeginDelivery, FenceSaved,
                    RemovalSaved, RestoreSaved, DeliveryNotSaved, RecordHandled, HandledSaved,
                    HandledNotSaved, InjectContinuation, ContinuationFails, ContinuationEnds,
                    RawPosted, RawNotPosted, DeliveryOnly, storage, BeginMutation, CommitMutation,
                    RollBack, Refuse
        <3>3. CASE mut' = mut
            BY <1>2, <2>1, <3>1, <3>3
        <3>4. CASE mut' \in {Nobody, Deliverer(j)}
            BY <1>3, <2>1, <3>1, <3>4, ActorsDiffer
        <3>. QED BY <3>2, <3>3, <3>4
    <2>. QED BY <2>2, <2>3
<1>9. ASSUME Environment PROVE Goal
    <2>1. ASSUME NEW j \in Jobs, NEW t \in Turns, CaptureSend(j, t) PROVE Goal
        BY <1>2, <2>1 DEF CaptureSend, storage, history
    <2>2. ASSUME NEW j \in Jobs, DenySend(j) PROVE Goal
        BY <1>2, <2>2 DEF DenySend, storage, history
    <2>3. ASSUME NEW b \in Agents, b # a, DeclineJob(b) PROVE Goal
        BY <1>1, <1>2, <2>3 DEF DeclineJob, Goto, WorkerOnly, storage, history
    <2>4. ASSUME BeginDrain \/ BeginShutdown \/ OtherSave PROVE Goal
        BY <1>2, <2>4 DEF BeginDrain, BeginShutdown, OtherSave, storage, history
    <2>5. ASSUME Restart PROVE Goal
        <3>1. mut' \in {Nobody, Recoverer} /\ worker'[a] = NoWork /\ UNCHANGED execs
            BY <2>5 DEF Restart, history
        <3>. QED BY <1>3, <1>5, <3>1 DEF NoWork
    <2>. QED BY <1>9, <2>1, <2>2, <2>3, <2>4, <2>5 DEF Environment
<1>10. ASSUME RecoverySaved \/ RecoveryNotSaved PROVE Goal
    <2>1. mut' = Nobody /\ UNCHANGED execs
        BY <1>10 DEF RecoverySaved, RecoveryNotSaved, CommitMutation, RollBack, history
    <2>2. worker'[a] \in {worker[a], [NoWork EXCEPT !.pc = "scan"]}
        BY <1>1, <1>10 DEF RecoverySaved, RecoveryNotSaved
    <2>. QED BY <1>3, <1>5, <2>1, <2>2 DEF NoWork
<1>. QED BY <1>6, <1>7, <1>8, <1>9, <1>10 DEF Next

DeliveryStays(j) ==
    /\ \/ delivery'[j] = delivery[j]
       \/ /\ delivery[j] = "off" /\ delivery'[j] = "deliver" /\ mut' = Nobody
          /\ jobs' = jobs /\ j \in DOMAIN jobs
       \/ delivery'[j] = "off" /\ Restart
    /\ Restart => delivery'[j] = "off"
    /\ mut' = Deliverer(j) => mut = Deliverer(j)
    /\ mut = Deliverer(j) => mut' = Deliverer(j) \/ Restart
    /\ UNCHANGED <<conts[j], shown[j]>>
    /\ j \in handled' => j \in handled \cup disk.handled
    /\ j \in disk'.handled => j \in handled \cup disk.handled
    /\ j \in handled /\ j \in disk.handled => j \in handled' /\ j \in disk'.handled
    /\ j \in handled /\ ~Restart => j \in handled'
    /\ j \notin handled /\ ~Restart => j \notin handled'

LEMMA StepOfDelivery ==
    ASSUME TypeOK, Next, NEW j \in Jobs
    PROVE  DeliveryStays(j) \/ DeliveryStep(j)
<1> DEFINE Goal == DeliveryStays(j) \/ DeliveryStep(j)
           Wakes == \/ delivery'[j] = delivery[j]
                    \/ /\ delivery[j] = "off" /\ delivery'[j] = "deliver" /\ mut' = Nobody
                       /\ jobs' = jobs /\ j \in DOMAIN jobs
           Others == /\ mut' = Deliverer(j) <=> mut = Deliverer(j)
                     /\ UNCHANGED <<conts[j], shown[j]>>
                     /\ j \in handled' <=> j \in handled
           Written == UNCHANGED disk \/ disk' = Snapshot
<1> SUFFICES Goal
    OBVIOUS
<1>1. /\ delivery \in [Jobs -> DeliveryStates]
      /\ conts \in [Jobs -> Nat] /\ shown \in [Jobs -> Nat]
    BY DEF TypeOK
<1>2. ASSUME Wakes, Others, Written PROVE Goal
    <2>1. Restart => delivery'[j] = "off"
        BY DEF Restart
    <2>. QED BY <1>2, <2>1 DEF DeliveryStays, Snapshot
<1>3. \A i \in Jobs, d \in [Jobs -> DeliveryStates] :
          ScheduledDeliveries(d, i)[j] = d[j]
          \/ (d[j] = "off" /\ ScheduledDeliveries(d, i)[j] = "deliver" /\ j \in DOMAIN jobs)
    BY DEF ScheduledDeliveries, WakeDelivery
<1>4. Nobody # Deliverer(j) /\ Recoverer # Deliverer(j)
    BY ActorsDiffer
<1>5. ASSUME NEW i \in Jobs, SendStep(i) PROVE Goal
    <2>1. UNCHANGED <<delivery, handled, conts, shown>>
        BY <1>5 DEF SendStep, DeriveSend, BeginAdmission, RefuseSend, AcceptSend, RollBackSend,
                    CommitMutation, memory, history
    <2>2. Written
        BY <1>5 DEF SendStep, DeriveSend, BeginAdmission, RefuseSend, AcceptSend, RollBackSend,
                    BeginMutation, CommitMutation, RollBack, Save, storage
    <2>3. mut' = mut \/ (mut' = Nobody /\ mut = Sender(i)) \/ (mut = Nobody /\ mut' = Sender(i))
        BY <1>5 DEF SendStep, DeriveSend, BeginAdmission, RefuseSend, AcceptSend, RollBackSend,
                    BeginMutation, CommitMutation, RollBack, storage
    <2>. QED BY <1>2, <1>4, <2>1, <2>2, <2>3, ActorsDiffer
<1>6. ASSUME NEW a \in Agents, WorkerStep(a) PROVE Goal
    <2>1. UNCHANGED <<handled, conts, shown>>
        BY <1>6 DEF WorkerStep, PickJob, StopScanning, LeaveWorker, LeaseGranted, StartFails,
                  BeginRunning, RunningSaved, RunningNotSaved, RunTurn, TurnStep, TurnEnds, BeginEnd,
                  EndSaved, EndNotSaved, WorkerOnly, CommitMutation, memory, history
    <2>2. mut' = mut \/ (mut' = Nobody /\ mut = Worker(a)) \/ (mut = Nobody /\ mut' = Worker(a))
        BY <1>6 DEF WorkerStep, PickJob, StopScanning, LeaveWorker, LeaseGranted, StartFails,
                  BeginRunning, RunningSaved, RunningNotSaved, RunTurn, TurnStep, TurnEnds, BeginEnd,
                  EndSaved, EndNotSaved, WorkerOnly, storage, BeginMutation, CommitMutation,
                  RollBack, Refuse
    <2>3. Written
        BY <1>6 DEF WorkerStep, PickJob, StopScanning, LeaveWorker, LeaseGranted, StartFails,
                  BeginRunning, RunningSaved, RunningNotSaved, RunTurn, TurnStep, TurnEnds, BeginEnd,
                  EndSaved, EndNotSaved, WorkerOnly, storage, BeginMutation, CommitMutation,
                  RollBack, Refuse, Save
    <2>4. Wakes
        <3>1. CASE EndSaved(a)
            <4>1. delivery' = ScheduledDeliveries(delivery, worker[a].job)
                BY <3>1 DEF EndSaved
            <4>2. mut' = Nobody /\ jobs' = jobs
                BY <3>1 DEF EndSaved, CommitMutation, memory
            <4>3. CASE worker[a].job \in Jobs
                BY <1>1, <1>3, <4>1, <4>2, <4>3
            <4>4. CASE worker[a].job \notin Jobs
                BY <4>1, <4>4 DEF ScheduledDeliveries, TypeOK
            <4>. QED BY <4>3, <4>4
        <3>2. CASE ~EndSaved(a)
            BY <1>6, <3>2 DEF WorkerStep, PickJob, StopScanning, LeaveWorker, LeaseGranted,
                  StartFails, BeginRunning, RunningSaved, RunningNotSaved, RunTurn, TurnStep,
                  TurnEnds, BeginEnd, EndNotSaved, WorkerOnly
        <3>. QED BY <3>1, <3>2
    <2>. QED BY <1>2, <1>4, <2>1, <2>2, <2>3, <2>4, ActorsDiffer
<1>7. ASSUME NEW i \in Jobs, i # j, DeliveryStep(i) PROVE Goal
    <2>1. UNCHANGED <<conts[j], shown[j]>>
        BY <1>1, <1>7 DEF DeliveryStep, ContinuationStep, BeginDelivery, AbsorbSaved, FenceSaved,
                    RemovalSaved, RestoreSaved, DeliveryNotSaved, RecordHandled, HandledSaved,
                    HandledNotSaved, InjectContinuation, ContinuationFails, ContinuationEnds,
                    RawPosted, RawNotPosted, DeliveryOnly, history
    <2>2. j \in handled' <=> j \in handled
        BY <1>7 DEF DeliveryStep, ContinuationStep, BeginDelivery, AbsorbSaved, FenceSaved,
                    RemovalSaved, RestoreSaved, DeliveryNotSaved, RecordHandled, HandledSaved,
                    HandledNotSaved, InjectContinuation, ContinuationFails, ContinuationEnds,
                    RawPosted, RawNotPosted, DeliveryOnly, CommitMutation, memory
    <2>3. mut' = mut \/ (mut' = Nobody /\ mut = Deliverer(i)) \/ (mut = Nobody /\ mut' = Deliverer(i))
        BY <1>7 DEF DeliveryStep, ContinuationStep, BeginDelivery, AbsorbSaved, FenceSaved,
                    RemovalSaved, RestoreSaved, DeliveryNotSaved, RecordHandled, HandledSaved,
                    HandledNotSaved, InjectContinuation, ContinuationFails, ContinuationEnds,
                    RawPosted, RawNotPosted, DeliveryOnly, storage, BeginMutation, CommitMutation,
                    RollBack, Refuse
    <2>4. Written
        BY <1>7 DEF DeliveryStep, ContinuationStep, BeginDelivery, AbsorbSaved, FenceSaved,
                    RemovalSaved, RestoreSaved, DeliveryNotSaved, RecordHandled, HandledSaved,
                    HandledNotSaved, InjectContinuation, ContinuationFails, ContinuationEnds,
                    RawPosted, RawNotPosted, DeliveryOnly, storage, BeginMutation, CommitMutation,
                    RollBack, Refuse, Save
    <2>5. Wakes
        <3>1. CASE AbsorbSaved(i)
            <4>1. PICK d \in [Jobs -> DeliveryStates] : d = [delivery EXCEPT ![i] = "off"]
                BY <1>1 DEF DeliveryStates
            <4>2. delivery' = ScheduledDeliveries(d, Parent(i)) /\ mut' = Nobody /\ jobs' = jobs
                BY <3>1, <4>1 DEF AbsorbSaved, CommitMutation, memory
            <4>3. d[j] = delivery[j]
                BY <1>1, <1>7, <4>1
            <4>4. CASE Parent(i) \in Jobs
                BY <1>3, <4>2, <4>3, <4>4
            <4>5. CASE Parent(i) \notin Jobs
                BY <4>2, <4>3, <4>5 DEF ScheduledDeliveries, TypeOK
            <4>. QED BY <4>4, <4>5
        <3>2. CASE ~AbsorbSaved(i)
            BY <1>1, <1>7, <3>2 DEF DeliveryStep, ContinuationStep, BeginDelivery, FenceSaved,
                    RemovalSaved, RestoreSaved, DeliveryNotSaved, RecordHandled, HandledSaved,
                    HandledNotSaved, InjectContinuation, ContinuationFails, ContinuationEnds,
                    RawPosted, RawNotPosted, DeliveryOnly, Deliver
        <3>. QED BY <3>1, <3>2
    <2>. QED BY <1>2, <1>4, <1>7, <2>1, <2>2, <2>3, <2>4, <2>5, ActorsDiffer
<1>8. ASSUME Environment, ~Restart PROVE Goal
    <2>1. UNCHANGED <<delivery, handled, conts, shown, mut>>
        BY <1>8 DEF Environment, CaptureSend, DenySend, DeclineJob, OtherSave, BeginDrain,
                    BeginShutdown, WorkerOnly, memory, storage, history
    <2>2. Written
        BY <1>8 DEF Environment, CaptureSend, DenySend, DeclineJob, OtherSave, BeginDrain,
                    BeginShutdown, WorkerOnly, storage, Save
    <2>. QED BY <1>2, <2>1, <2>2
<1>9. ASSUME Restart PROVE Goal
    <2>1. delivery'[j] = "off" /\ UNCHANGED <<disk, conts, shown>> /\ handled' = disk.handled
        BY <1>9 DEF Restart, history
    <2>2. mut' # Deliverer(j)
        BY <1>4, <1>9 DEF Restart
    <2>. QED BY <1>9, <2>1, <2>2 DEF DeliveryStays
<1>10. ASSUME RecoverySaved \/ RecoveryNotSaved PROVE Goal
    <2>1. UNCHANGED <<handled, conts, shown>> /\ mut' = Nobody /\ mut = Recoverer
        BY <1>10 DEF RecoverySaved, RecoveryNotSaved, CommitMutation, RollBack, memory, history
    <2>2. Written
        BY <1>10 DEF RecoverySaved, RecoveryNotSaved, CommitMutation, RollBack, Save
    <2>3. CASE RecoverySaved
        <3>1. delivery'[j] = ScheduledDeliveries(delivery, j)[j] /\ jobs' = jobs
            BY <2>3 DEF RecoverySaved, CommitMutation, memory
        <3>2. Wakes
            BY <1>1, <1>3, <2>1, <3>1
        <3>. QED BY <1>2, <1>4, <2>1, <2>2, <3>2
    <2>4. CASE RecoveryNotSaved
        BY <1>2, <1>4, <2>1, <2>2, <2>4 DEF RecoveryNotSaved
    <2>. QED BY <1>10, <2>3, <2>4
<1>. QED BY <1>5, <1>6, <1>7, <1>8, <1>9, <1>10 DEF Next

-----------------------------------------------------------------------------
(* Types.                                                                  *)

LEMMA ListTypesKept ==
    ASSUME TypeOK, ListsAgree, Next
    PROVE  /\ IsList(jobs') /\ IsList(prev') /\ IsList(disk'.jobs)
           /\ handled' \subseteq Jobs /\ disk'.handled \subseteq Jobs
           /\ used' \subseteq Jobs /\ disk'.used \subseteq Jobs
           /\ absorbed' \subseteq Jobs
<1>1. IsList(jobs) /\ IsList(prev) /\ IsList(disk.jobs) /\ IsList(EmptyQueue)
    BY DEF TypeOK, IsList, EmptyQueue
<1>2. Joins(jobs) \subseteq Jobs
    <2>1. \A p \in DOMAIN jobs : jobs[p].childOutcomes \cup jobs[p].resume \cup jobs[p].text \subseteq Jobs
        BY DEF TypeOK, JobRecord
    <2>. QED BY <2>1 DEF Joins
<1>3. IsList(jobs') /\ IsList(prev') /\ IsList(disk'.jobs) /\ absorbed' \subseteq Jobs
    <2>1. CASE ListsStay
        BY <1>1, <2>1 DEF ListsStay, TypeOK
    <2>2. CASE ListBegun
        BY <1>1, <2>2 DEF ListBegun, ListFollows, TypeOK
    <2>3. CASE ListWritten
        BY <1>1, <1>2, <2>3 DEF ListWritten, Snapshot, TypeOK
    <2>4. CASE ListPutBack
        BY <1>1, <2>4 DEF ListPutBack, TypeOK
    <2>5. CASE Restart
        BY <1>1, <2>5, RecoveryFollows DEF Restart, ListFollows, TypeOK
    <2>. QED BY <2>1, <2>2, <2>3, <2>4, <2>5, StepOfLists
<1>4. handled' \subseteq Jobs /\ disk'.handled \subseteq Jobs
    <2>1. ASSUME NEW j \in Jobs, DeliveryStep(j) PROVE handled' \subseteq Jobs /\ disk'.handled \subseteq Jobs
        <3>1. handled' \subseteq Jobs
            BY <2>1 DEF DeliveryStep, ContinuationStep, BeginDelivery, AbsorbSaved, FenceSaved,
                    RemovalSaved, RestoreSaved, DeliveryNotSaved, RecordHandled, HandledSaved,
                    HandledNotSaved, InjectContinuation, ContinuationFails, ContinuationEnds,
                    RawPosted, RawNotPosted, DeliveryOnly, CommitMutation, memory, TypeOK
        <3>2. disk' = disk \/ disk' = Snapshot
            BY <2>1 DEF DeliveryStep, ContinuationStep, BeginDelivery, AbsorbSaved, FenceSaved,
                    RemovalSaved, RestoreSaved, DeliveryNotSaved, RecordHandled, HandledSaved,
                    HandledNotSaved, InjectContinuation, ContinuationFails, ContinuationEnds,
                    RawPosted, RawNotPosted, DeliveryOnly, storage, BeginMutation, CommitMutation,
                    RollBack, Refuse, Save
        <3>. QED BY <3>1, <3>2 DEF Snapshot, TypeOK
    <2>2. ASSUME \A j \in Jobs : ~DeliveryStep(j)
          PROVE  handled' \in {handled, disk.handled} /\ (disk' = disk \/ disk' = Snapshot)
        <3>1. CASE Environment
            BY <3>1 DEF Environment, CaptureSend, DenySend, DeclineJob, OtherSave, BeginDrain,
                    BeginShutdown, Restart, WorkerOnly, Save, memory, storage
        <3>2. CASE \E j \in Jobs : SendStep(j)
            BY <3>2 DEF SendStep, DeriveSend, BeginAdmission, RefuseSend, AcceptSend,
                    RollBackSend, BeginMutation, CommitMutation, RollBack, Save, storage, memory
        <3>3. ASSUME NEW a \in Agents, WorkerStep(a)
              PROVE  handled' \in {handled, disk.handled} /\ (disk' = disk \/ disk' = Snapshot)
            BY <3>3 DEF WorkerStep, PickJob, StopScanning, LeaveWorker, LeaseGranted, StartFails,
                  BeginRunning, RunningSaved, RunningNotSaved, RunTurn, TurnStep, TurnEnds, BeginEnd,
                  EndSaved, EndNotSaved, WorkerOnly, storage, memory, BeginMutation, CommitMutation,
                  RollBack, Refuse, Save
        <3>4. CASE RecoverySaved \/ RecoveryNotSaved
            BY <3>4 DEF RecoverySaved, RecoveryNotSaved, CommitMutation, RollBack, Save, memory
        <3>. QED BY <2>2, <3>1, <3>2, <3>3, <3>4 DEF Next
    <2>. QED BY <2>1, <2>2 DEF Snapshot, TypeOK
<1>5. used' \subseteq Jobs /\ disk'.used \subseteq Jobs
    <2>1. used' \subseteq Jobs
        <3>1. CASE Environment
            BY <3>1 DEF Environment, CaptureSend, DenySend, DeclineJob, OtherSave, BeginDrain,
                    BeginShutdown, Restart, WorkerOnly, memory, TypeOK
        <3>2. ASSUME NEW j \in Jobs, SendStep(j) PROVE used' \subseteq Jobs
            <4>1. derived[j] \in Jobs \cup {NoJob}
                BY DEF TypeOK
            <4>. QED BY <3>2, <4>1 DEF SendStep, DeriveSend, BeginAdmission, RefuseSend, AcceptSend,
                    RollBackSend, CommitMutation, memory, TypeOK
        <3>3. CASE \E j \in Jobs : DeliveryStep(j)
            BY <3>3 DEF DeliveryStep, ContinuationStep, BeginDelivery, AbsorbSaved, FenceSaved,
                    RemovalSaved, RestoreSaved, DeliveryNotSaved, RecordHandled, HandledSaved,
                    HandledNotSaved, InjectContinuation, ContinuationFails, ContinuationEnds,
                    RawPosted, RawNotPosted, DeliveryOnly, CommitMutation, memory, TypeOK
        <3>4. CASE \E a \in Agents : WorkerStep(a)
            BY <3>4 DEF WorkerStep, PickJob, StopScanning, LeaveWorker, LeaseGranted, StartFails,
                  BeginRunning, RunningSaved, RunningNotSaved, RunTurn, TurnStep, TurnEnds, BeginEnd,
                  EndSaved, EndNotSaved, WorkerOnly, memory, CommitMutation, TypeOK
        <3>5. CASE RecoverySaved \/ RecoveryNotSaved
            BY <3>5 DEF RecoverySaved, RecoveryNotSaved, CommitMutation, memory, TypeOK
        <3>. QED BY <3>1, <3>2, <3>3, <3>4, <3>5 DEF Next
    <2>2. CASE ListWritten
        BY <2>1, <2>2 DEF ListWritten, Snapshot, TypeOK
    <2>3. CASE disk' = disk
        BY <2>1, <2>3 DEF TypeOK
    <2>. QED BY <2>2, <2>3, StepOfLists DEF ListsStay, ListBegun, ListPutBack, Restart
<1>. QED BY <1>3, <1>4, <1>5

CallTypes ==
    /\ phase \in {"up", "draining", "stopping"}
    /\ send \in [Jobs -> {"none", "captured", "ready", "accepted", "refused"}]
    /\ target \in [Jobs -> Agents]
    /\ source \in [Jobs -> [kind: {"none", "slack", "job"}, of: Jobs \cup {NoJob}]]
    /\ derived \in [Jobs -> Jobs \cup {NoJob}]
    /\ diskFailures \in 0 .. MaxDiskFailures
    /\ restarts \in 0 .. MaxRestarts
WorkTypes ==
    /\ worker \in [Agents -> [pc: WorkerStates, job: Jobs \cup {NoJob},
                              result: {"completed", "failed", "cut"}, resume: SUBSET Jobs]]
    /\ delivery \in [Jobs -> DeliveryStates]
HistoryTypes ==
    /\ execs \in [Jobs -> Nat] /\ conts \in [Jobs -> Nat]
    /\ shown \in [Jobs -> Nat] /\ told \in [Jobs -> Nat]

LEMMA CallTypesKept ==
    ASSUME TypeOK, Next
    PROVE  CallTypes'
<1> USE BoundsAssumption
<1>1. CallTypes
    BY DEF TypeOK, CallTypes
<1>2. ASSUME UNCHANGED <<phase, calls, restarts>>,
             diskFailures' = diskFailures \/ diskFailures' \in 0 .. MaxDiskFailures
      PROVE  CallTypes'
    BY <1>1, <1>2 DEF CallTypes, calls
<1>3. ASSUME NEW actor, RollBack(actor) PROVE diskFailures' \in 0 .. MaxDiskFailures
    BY <1>1, <1>3 DEF RollBack, CallTypes
<1>4. ASSUME NEW j \in Jobs, SendStep(j) PROVE CallTypes'
    <2>1. UNCHANGED <<phase, restarts, target, source>>
        BY <1>4 DEF SendStep, DeriveSend, BeginAdmission, RefuseSend, AcceptSend, RollBackSend, calls
    <2>2. diskFailures' = diskFailures \/ diskFailures' \in 0 .. MaxDiskFailures
        BY <1>3, <1>4 DEF SendStep, DeriveSend, BeginAdmission, RefuseSend, AcceptSend,
                    RollBackSend, BeginMutation, CommitMutation, storage
    <2>3. \/ send' = send
          \/ \E x \in {"ready", "accepted", "refused"} : send' = [send EXCEPT ![j] = x]
        BY <1>4 DEF SendStep, DeriveSend, BeginAdmission, RefuseSend, AcceptSend, RollBackSend, calls
    <2>4. \/ derived' = derived
          \/ \E c \in Jobs \cup {NoJob} : derived' = [derived EXCEPT ![j] = c]
        BY <1>4 DEF SendStep, DeriveSend, BeginAdmission, RefuseSend, AcceptSend, RollBackSend, calls
    <2>5. /\ send' \in [Jobs -> {"none", "captured", "ready", "accepted", "refused"}]
          /\ derived' \in [Jobs -> Jobs \cup {NoJob}]
        BY <1>1, <2>3, <2>4 DEF CallTypes
    <2>. QED BY <1>1, <2>1, <2>2, <2>5 DEF CallTypes
<1>5. ASSUME NEW a \in Agents, WorkerStep(a) PROVE CallTypes'
    <2>1. UNCHANGED <<phase, calls, restarts>>
        BY <1>5 DEF WorkerStep, PickJob, StopScanning, LeaveWorker, LeaseGranted, StartFails,
                  BeginRunning, RunningSaved, RunningNotSaved, RunTurn, TurnStep, TurnEnds, BeginEnd,
                  EndSaved, EndNotSaved, WorkerOnly
    <2>2. diskFailures' = diskFailures \/ diskFailures' \in 0 .. MaxDiskFailures
        BY <1>3, <1>5 DEF WorkerStep, PickJob, StopScanning, LeaveWorker, LeaseGranted, StartFails,
                  BeginRunning, RunningSaved, RunningNotSaved, RunTurn, TurnStep, TurnEnds, BeginEnd,
                  EndSaved, EndNotSaved, WorkerOnly, storage, BeginMutation, CommitMutation, Refuse
    <2>. QED BY <1>2, <2>1, <2>2
<1>6. ASSUME NEW j \in Jobs, DeliveryStep(j) PROVE CallTypes'
    <2>1. UNCHANGED <<phase, calls, restarts>>
        BY <1>6 DEF DeliveryStep, ContinuationStep, BeginDelivery, AbsorbSaved, FenceSaved,
                    RemovalSaved, RestoreSaved, DeliveryNotSaved, RecordHandled, HandledSaved,
                    HandledNotSaved, InjectContinuation, ContinuationFails, ContinuationEnds,
                    RawPosted, RawNotPosted, DeliveryOnly
    <2>2. CASE HandledNotSaved(j)
        <3>1. diskFailures' \in 0 .. MaxDiskFailures
            BY <1>1, <2>2 DEF HandledNotSaved, CallTypes
        <3>. QED BY <1>2, <2>1, <3>1
    <2>3. CASE ~HandledNotSaved(j)
        <3>1. diskFailures' = diskFailures \/ diskFailures' \in 0 .. MaxDiskFailures
            BY <1>3, <1>6, <2>3 DEF DeliveryStep, ContinuationStep, BeginDelivery, AbsorbSaved,
                    FenceSaved, RemovalSaved, RestoreSaved, DeliveryNotSaved, RecordHandled,
                    HandledSaved, InjectContinuation, ContinuationFails, ContinuationEnds,
                    RawPosted, RawNotPosted, DeliveryOnly, storage, BeginMutation, CommitMutation,
                    Refuse
        <3>. QED BY <1>2, <2>1, <3>1
    <2>. QED BY <2>2, <2>3
<1>7. ASSUME Environment PROVE CallTypes'
    <2>1. ASSUME NEW j \in Jobs, NEW t \in Turns, CaptureSend(j, t) PROVE CallTypes'
        <3>1. t \in [kind: {"none", "slack", "job"}, of: Jobs \cup {NoJob}]
            BY DEF Turns, SlackTurn, JobTurn
        <3>. QED BY <1>1, <2>1, <3>1 DEF CaptureSend, CallTypes, storage
    <2>2. ASSUME NEW j \in Jobs, DenySend(j) PROVE CallTypes'
        BY <1>1, <2>2 DEF DenySend, CallTypes, storage
    <2>3. ASSUME OtherSave \/ \E a \in Agents : DeclineJob(a) PROVE CallTypes'
        BY <1>2, <2>3 DEF OtherSave, DeclineJob, WorkerOnly, storage
    <2>4. ASSUME BeginDrain \/ BeginShutdown PROVE CallTypes'
        BY <1>1, <2>4 DEF BeginDrain, BeginShutdown, CallTypes, calls, storage
    <2>5. ASSUME Restart PROVE CallTypes'
        BY <1>1, <2>5 DEF Restart, CallTypes
    <2>. QED BY <1>7, <2>1, <2>2, <2>3, <2>4, <2>5 DEF Environment
<1>8. ASSUME RecoverySaved \/ RecoveryNotSaved PROVE CallTypes'
    BY <1>2, <1>3, <1>8 DEF RecoverySaved, RecoveryNotSaved, CommitMutation
<1>. QED BY <1>4, <1>5, <1>6, <1>7, <1>8 DEF Next

LEMMA WorkerTypeKept ==
    ASSUME TypeOK, Next
    PROVE  worker' \in [Agents -> [pc: WorkerStates, job: Jobs \cup {NoJob},
                                   result: {"completed", "failed", "cut"}, resume: SUBSET Jobs]]
<1> DEFINE Works == [pc: WorkerStates, job: Jobs \cup {NoJob},
                     result: {"completed", "failed", "cut"}, resume: SUBSET Jobs]
<1> SUFFICES worker' \in [Agents -> Works]
    OBVIOUS
<1>1. worker \in [Agents -> Works] /\ target \in [Jobs -> Agents]
    BY DEF TypeOK
<1>2. NoWork \in Works /\ \A pc \in WorkerStates : [NoWork EXCEPT !.pc = pc] \in Works
    BY DEF NoWork, WorkerStates
<1>3. \A w \in Works, pc \in WorkerStates : [w EXCEPT !.pc = pc] \in Works
    OBVIOUS
<1> HIDE DEF Works
<1>4. ASSUME NEW a \in Agents PROVE WakeWorker(worker, a) \in [Agents -> Works]
    <2>1. [worker[a] EXCEPT !.pc = "scan"] \in Works
        BY <1>1, <1>3 DEF WorkerStates
    <2>2. [worker EXCEPT ![a].pc = "scan"] \in [Agents -> Works]
        BY <1>1, <2>1
    <2>. QED BY <1>1, <2>2 DEF WakeWorker
<1>5. ASSUME NEW j \in Jobs, SendStep(j) PROVE worker' \in [Agents -> Works]
    <2>1. worker' \in {worker, WakeWorker(worker, target[j])}
        BY <1>5 DEF SendStep, DeriveSend, BeginAdmission, RefuseSend, AcceptSend, RollBackSend
    <2>. QED BY <1>1, <1>4, <2>1
<1>6. ASSUME NEW a \in Agents, WorkerStep(a) \/ DeclineJob(a) PROVE worker' \in [Agents -> Works]
    <2>1. ASSUME NEW w \in Works, worker' = [worker EXCEPT ![a] = w]
          PROVE  worker' \in [Agents -> Works]
        BY <1>1, <2>1
    <2>2. ASSUME NEW pc \in WorkerStates, Goto(a, pc) PROVE worker' \in [Agents -> Works]
        <3>1. [worker[a] EXCEPT !.pc = pc] \in Works
            BY <1>1, <1>3
        <3>2. worker' = [worker EXCEPT ![a] = [worker[a] EXCEPT !.pc = pc]]
            BY <1>1, <2>2 DEF Goto
        <3>. QED BY <2>1, <3>1, <3>2
    <2>3. CASE UNCHANGED worker
        BY <1>1, <2>3
    <2>4. CASE PickJob(a)
        <3>1. PICK j : j = Min(QueuedFor(a))
            OBVIOUS
        <3>2. QueuedFor(a) \in SUBSET Nat /\ QueuedFor(a) # {}
            BY <2>4 DEF PickJob, QueuedFor, TypeOK, Jobs
        <3>3. j \in DOMAIN jobs
            BY <3>1, <3>2, MinIsElement DEF QueuedFor
        <3>4. jobs[j].resume \in SUBSET Jobs /\ j \in Jobs
            BY <3>3 DEF TypeOK, JobRecord
        <3>5. worker' = [worker EXCEPT ![a] = [NoWork EXCEPT !.pc = "wait", !.job = j,
                                                             !.resume = jobs[j].resume]]
            BY <2>4, <3>1 DEF PickJob
        <3>6. [NoWork EXCEPT !.pc = "wait", !.job = j, !.resume = jobs[j].resume] \in Works
            BY <3>4 DEF NoWork, WorkerStates, Works
        <3>. QED BY <2>1, <3>5, <3>6
    <2>5. CASE StopScanning(a) \/ EndSaved(a) \/ EndNotSaved(a)
        <3>1. \E pc \in WorkerStates : worker' = [worker EXCEPT ![a] = [NoWork EXCEPT !.pc = pc]]
            BY <2>5 DEF StopScanning, EndSaved, EndNotSaved, WorkerStates
        <3>. QED BY <1>2, <2>1, <3>1
    <2>6. CASE LeaveWorker(a) \/ LeaseGranted(a) \/ RunTurn(a) \/ DeclineJob(a)
        BY <2>2, <2>6 DEF LeaveWorker, LeaseGranted, RunTurn, DeclineJob, WorkerStates
    <2>7. CASE StartFails(a) \/ RunningNotSaved(a) \/ RunningSaved(a) \/ TurnStep(a)
        <3>1. ASSUME NEW pc \in {"settle", "project"}, NEW result \in {"completed", "failed", "cut"},
                     worker' = [worker EXCEPT ![a].pc = pc, ![a].result = result]
              PROVE  worker' \in [Agents -> Works]
            <4>1. [worker[a] EXCEPT !.pc = pc, !.result = result] \in Works
                BY <1>1 DEF Works, WorkerStates
            <4>2. worker' = [worker EXCEPT ![a] = [worker[a] EXCEPT !.pc = pc, !.result = result]]
                BY <1>1, <3>1
            <4>. QED BY <2>1, <4>1, <4>2
        <3>2. PICK cut \in {"failed", "cut"} : cut = IF phase = "stopping" THEN "cut" ELSE "failed"
            OBVIOUS
        <3>3. CASE StartFails(a)
            BY <3>1, <3>2, <3>3 DEF StartFails
        <3>4. CASE RunningNotSaved(a)
            BY <3>1, <3>2, <3>4 DEF RunningNotSaved
        <3>5. CASE TurnStep(a)
            BY <3>1, <3>5 DEF TurnStep, TurnEnds
        <3>6. CASE RunningSaved(a)
            <4>1. PICK pc \in {"settle", "project"} :
                      pc = IF worker[a].job \in DOMAIN jobs THEN "project" ELSE "settle"
                OBVIOUS
            <4>2. PICK result \in {"completed", "failed", "cut"} :
                      result = IF worker[a].job \in DOMAIN jobs THEN worker[a].result ELSE "failed"
                BY <1>1 DEF Works
            <4>3. worker' = [worker EXCEPT ![a].pc = pc, ![a].result = result]
                BY <1>1, <3>6, <4>1, <4>2 DEF RunningSaved, Works
            <4>. QED BY <3>1, <4>3
        <3>. QED BY <2>7, <3>3, <3>4, <3>5, <3>6
    <2>8. CASE BeginRunning(a) \/ BeginEnd(a)
        BY <2>3, <2>8 DEF BeginRunning, BeginEnd
    <2>. QED BY <1>6, <2>4, <2>5, <2>6, <2>7, <2>8 DEF WorkerStep
<1>7. ASSUME NEW j \in Jobs, DeliveryStep(j) PROVE worker' \in [Agents -> Works]
    <2>1. worker' \in {worker, ScheduledWorkers(worker, Parent(j))}
        BY <1>7 DEF DeliveryStep, ContinuationStep, BeginDelivery, AbsorbSaved, FenceSaved,
                    RemovalSaved, RestoreSaved, DeliveryNotSaved, RecordHandled, HandledSaved,
                    HandledNotSaved, InjectContinuation, ContinuationFails, ContinuationEnds,
                    RawPosted, RawNotPosted, DeliveryOnly
    <2>2. Parent(j) \in DOMAIN jobs => target[Parent(j)] \in Agents
        BY DEF TypeOK
    <2>. QED BY <1>1, <1>4, <2>1, <2>2 DEF ScheduledWorkers
<1>8. ASSUME Environment, \A a \in Agents : ~DeclineJob(a) PROVE worker' \in [Agents -> Works]
    BY <1>1, <1>2, <1>8 DEF Environment, CaptureSend, DenySend, OtherSave, BeginDrain,
                            BeginShutdown, Restart
<1>9. ASSUME RecoverySaved \/ RecoveryNotSaved PROVE worker' \in [Agents -> Works]
    <2>1. [NoWork EXCEPT !.pc = "scan"] \in Works
        BY <1>2 DEF WorkerStates
    <2>2. CASE RecoverySaved
        BY <1>1, <2>1, <2>2 DEF RecoverySaved
    <2>3. CASE RecoveryNotSaved
        BY <1>1, <2>3 DEF RecoveryNotSaved
    <2>. QED BY <1>9, <2>2, <2>3
<1>. QED BY <1>5, <1>6, <1>7, <1>8, <1>9 DEF Next

LEMMA DeliveryTypeKept ==
    ASSUME TypeOK, Next
    PROVE  delivery' \in [Jobs -> DeliveryStates]
<1>1. delivery \in [Jobs -> DeliveryStates]
    BY DEF TypeOK
<1>2. \A d \in [Jobs -> DeliveryStates] : \A i : i \in Jobs \/ i \notin DOMAIN jobs =>
          ScheduledDeliveries(d, i) \in [Jobs -> DeliveryStates]
    BY DEF ScheduledDeliveries, WakeDelivery, DeliveryStates
<1>3. \A d \in [Jobs -> DeliveryStates] : \A i :
          ScheduledDeliveries(d, i) \in [Jobs -> DeliveryStates]
    BY <1>2 DEF TypeOK
<1>4. ASSUME NEW j \in Jobs, SendStep(j) PROVE delivery' = delivery
    BY <1>4 DEF SendStep, DeriveSend, BeginAdmission, RefuseSend, AcceptSend, RollBackSend
<1>5. ASSUME NEW a \in Agents, WorkerStep(a)
      PROVE  delivery' \in {delivery, ScheduledDeliveries(delivery, worker[a].job)}
    BY <1>5 DEF WorkerStep, PickJob, StopScanning, LeaveWorker, LeaseGranted, StartFails,
                  BeginRunning, RunningSaved, RunningNotSaved, RunTurn, TurnStep, TurnEnds, BeginEnd,
                  EndSaved, EndNotSaved, WorkerOnly
<1>6. ASSUME NEW j \in Jobs, DeliveryStep(j) PROVE delivery' \in [Jobs -> DeliveryStates]
    <2>1. CASE AbsorbSaved(j)
        <3>1. [delivery EXCEPT ![j] = "off"] \in [Jobs -> DeliveryStates]
            BY <1>1 DEF DeliveryStates
        <3>. QED BY <1>3, <2>1, <3>1 DEF AbsorbSaved
    <2>2. CASE ~AbsorbSaved(j)
        <3>1. UNCHANGED delivery \/ \E pc \in DeliveryStates : Deliver(j, pc)
            BY <1>6, <2>2 DEF DeliveryStep, ContinuationStep, BeginDelivery, FenceSaved,
                    RemovalSaved, RestoreSaved, DeliveryNotSaved, RecordHandled, HandledSaved,
                    HandledNotSaved, InjectContinuation, ContinuationFails, ContinuationEnds,
                    RawPosted, RawNotPosted, DeliveryStates
        <3>. QED BY <1>1, <3>1 DEF Deliver
    <2>. QED BY <2>1, <2>2
<1>7. ASSUME Environment PROVE delivery' \in [Jobs -> DeliveryStates]
    BY <1>1, <1>7 DEF Environment, CaptureSend, DenySend, DeclineJob, OtherSave, BeginDrain,
                      BeginShutdown, Restart, WorkerOnly, DeliveryStates
<1>8. ASSUME RecoverySaved \/ RecoveryNotSaved PROVE delivery' \in [Jobs -> DeliveryStates]
    BY <1>1, <1>3, <1>8 DEF RecoverySaved, RecoveryNotSaved
<1>. QED BY <1>1, <1>3, <1>4, <1>5, <1>6, <1>7, <1>8 DEF Next

LEMMA HistoryTypesKept ==
    ASSUME TypeOK, Next
    PROVE  HistoryTypes'
<1>1. HistoryTypes
    BY DEF TypeOK, HistoryTypes
<1>2. ASSUME UNCHANGED history PROVE HistoryTypes'
    BY <1>1, <1>2 DEF HistoryTypes, history
<1>3. ASSUME NEW a \in Agents, WorkerStep(a) PROVE HistoryTypes'
    <2>1. CASE RunTurn(a)
        <3>1. execs' \in [Jobs -> Nat]
            <4>1. PICK j : j = worker[a].job
                OBVIOUS
            <4>2. execs' \in {[execs EXCEPT ![j] = execs[j] + 1], [execs EXCEPT ![j] = execs[j]]}
                BY <2>1, <4>1 DEF RunTurn
            <4>. QED BY <1>1, <4>2 DEF HistoryTypes
        <3>2. told' \in [Jobs -> Nat]
            BY <1>1, <2>1 DEF RunTurn, HistoryTypes
        <3>. QED BY <1>1, <2>1, <3>1, <3>2 DEF RunTurn, HistoryTypes
    <2>2. CASE ~RunTurn(a)
        BY <1>2, <1>3, <2>2 DEF WorkerStep, PickJob, StopScanning, LeaveWorker, LeaseGranted,
                  StartFails, BeginRunning, RunningSaved, RunningNotSaved, TurnStep, TurnEnds,
                  BeginEnd, EndSaved, EndNotSaved, WorkerOnly
    <2>. QED BY <2>1, <2>2
<1>4. ASSUME NEW j \in Jobs, DeliveryStep(j) PROVE HistoryTypes'
    <2>1. CASE InjectContinuation(j) \/ RawPosted(j)
        BY <1>1, <2>1 DEF InjectContinuation, RawPosted, HistoryTypes
    <2>2. ASSUME NEW next, ContinuationEnds(j, next) PROVE HistoryTypes'
        BY <1>1, <2>2 DEF ContinuationEnds, HistoryTypes
    <2>3. CASE ~InjectContinuation(j) /\ ~RawPosted(j) /\ \A next : ~ContinuationEnds(j, next)
        BY <1>2, <1>4, <2>3 DEF DeliveryStep, ContinuationStep, BeginDelivery, AbsorbSaved,
                    FenceSaved, RemovalSaved, RestoreSaved, DeliveryNotSaved, RecordHandled,
                    HandledSaved, HandledNotSaved, ContinuationFails, RawNotPosted, DeliveryOnly
    <2>. QED BY <2>1, <2>2, <2>3
<1>5. ASSUME NEW j \in Jobs, SendStep(j) PROVE HistoryTypes'
    BY <1>2, <1>5 DEF SendStep, DeriveSend, BeginAdmission, RefuseSend, AcceptSend, RollBackSend
<1>6. ASSUME Environment PROVE HistoryTypes'
    BY <1>2, <1>6 DEF Environment, CaptureSend, DenySend, DeclineJob, OtherSave, BeginDrain,
                      BeginShutdown, Restart, WorkerOnly
<1>7. ASSUME RecoverySaved \/ RecoveryNotSaved PROVE HistoryTypes'
    BY <1>2, <1>7 DEF RecoverySaved, RecoveryNotSaved
<1>. QED BY <1>3, <1>4, <1>5, <1>6, <1>7 DEF Next

LEMMA TypesKept ==
    ASSUME TypeOK, ListsAgree, Next
    PROVE  TypeOK'
BY ListTypesKept, CallTypesKept, WorkerTypeKept, DeliveryTypeKept, HistoryTypesKept
   DEF TypeOK, IsList, CallTypes, HistoryTypes

-----------------------------------------------------------------------------
(* The lists go on agreeing.                                               *)

LEMMA ListsAgreeKept ==
    ASSUME TypeOK, ListsAgree, Next
    PROVE  ListsAgree'
<1>1. /\ DOMAIN jobs \subseteq Jobs /\ DOMAIN prev \subseteq Jobs /\ DOMAIN disk.jobs \subseteq Jobs
      /\ source \in [Jobs -> [kind: {"none", "slack", "job"}, of: Jobs \cup {NoJob}]]
      /\ send \in [Jobs -> {"none", "captured", "ready", "accepted", "refused"}]
    BY DEF TypeOK
<1>2. \A j \in Jobs : j \in DOMAIN jobs \cup DOMAIN prev \cup DOMAIN disk.jobs => send[j] # "none"
    BY DEF ListsAgree, Decided
<1>3. \A j \in Jobs : send[j] # "none" => source'[j] = source[j] /\ Parent(j)' = Parent(j)
    <2>1. ASSUME NEW j \in Jobs, send[j] # "none" PROVE source'[j] = source[j]
        BY <2>1, StepOfSends DEF CaptureSend
    <2>. QED BY <2>1 DEF Parent
<1>4. ASSUME NEW j \in Jobs PROVE (Parent(j) # j)'
    <2>1. CASE source'[j] = source[j]
        BY <2>1 DEF ListsAgree, Parent
    <2>2. ASSUME NEW t \in Turns, CaptureSend(j, t) PROVE (Parent(j) # j)'
        <3>1. source'[j] = t /\ send[j] = "none" /\ TurnOpen(t)
            BY <1>1, <2>2 DEF CaptureSend
        <3>2. t.kind = "job" => t.of \in DOMAIN jobs
            BY <3>1 DEF TurnOpen
        <3>3. t.kind = "job" => t.of # j
            BY <1>1, <1>2, <3>1, <3>2
        <3>4. j # NoJob
            BY BoundsAssumption DEF Jobs, NoJob
        <3>. QED BY <3>1, <3>3, <3>4 DEF Parent
    <2>. QED BY <2>1, <2>2, StepOfSends
<1>5. ASSUME NEW q, HasParents(q), DOMAIN q \subseteq Jobs, \A j \in DOMAIN q : send[j] # "none"
      PROVE  \A j \in DOMAIN q : Parent(j)' # NoJob => Parent(j)' \in DOMAIN q
    BY <1>3, <1>5 DEF HasParents
<1>6. ASSUME NEW j \in Jobs, Decided(j) PROVE Decided(j)' /\ send'[j] = send[j]
    BY <1>6, StepOfSends DEF Decided
<1>7. ASSUME NEW j \in Jobs, mut = Sender(j) PROVE Decided(j)' \/ mut' = Sender(j)
    BY <1>7, StepOfSends DEF Decided
<1>8. ASSUME NEW j \in Jobs, j \in DOMAIN jobs \cup DOMAIN disk.jobs
      PROVE  Decided(j)' \/ mut' = Sender(j)
    BY <1>6, <1>7, <1>8 DEF ListsAgree
<1>9. Joins(EmptyQueue) = {} /\ DOMAIN EmptyQueue = {}
    BY DEF Joins, EmptyQueue
<1>10. CASE ListsStay
    <2>1. jobs' = jobs /\ prev' = prev /\ disk' = disk /\ mut' = mut /\ absorbed' = absorbed
        BY <1>10 DEF ListsStay
    <2>2. HasParents(jobs)' /\ HasParents(prev)' /\ HasParents(disk.jobs)'
        BY <1>1, <1>2, <1>5, <2>1 DEF ListsAgree, HasParents
    <2>3. Joins(prev)' = Joins(prev) /\ Joins(disk.jobs)' = Joins(disk.jobs) /\ Joins(jobs)' = Joins(jobs)
        BY <2>1
    <2>4. \A j \in Jobs :
            /\ (j \in DOMAIN jobs \cup DOMAIN disk.jobs => Decided(j) \/ mut = Sender(j))'
            /\ (j \in DOMAIN prev => Decided(j))'
        BY <1>6, <1>8, <2>1 DEF ListsAgree
    <2>5. \A j \in Jobs : (mut = Sender(j) => send[j] = "ready" /\ j \in DOMAIN jobs)'
        <3>1. \A j \in Jobs : mut = Sender(j) => send'[j] = send[j]
            BY <2>1, StepOfSends
        <3>. QED BY <2>1, <3>1 DEF ListsAgree, Sender
    <2>. QED BY <1>4, <2>1, <2>2, <2>3, <2>4, <2>5 DEF ListsAgree
<1>11. CASE ListBegun
    <2>1. mut = Nobody /\ prev' = jobs /\ disk' = disk /\ absorbed' = absorbed /\ HasParents(jobs')
        BY <1>11 DEF ListBegun
    <2>2. \A j \in DOMAIN jobs \cup DOMAIN disk.jobs : Decided(j)
        BY <1>1, <2>1, ActorsDiffer DEF ListsAgree
    <2>3. \A j \in Jobs : j \in DOMAIN jobs' => j \in DOMAIN jobs \/ BeginAdmission(j)
        BY <1>11 DEF ListBegun
    <2>4. \A j \in Jobs : BeginAdmission(j) => send[j] = "ready" /\ send' = send /\ mut' = Sender(j)
        BY DEF BeginAdmission, BeginMutation, calls
    <2>5. \A j \in Jobs :
            /\ (j \in DOMAIN jobs \cup DOMAIN disk.jobs => Decided(j) \/ mut = Sender(j))'
            /\ (j \in DOMAIN prev => Decided(j))'
        BY <1>6, <2>1, <2>2, <2>3, <2>4
    <2>6. ASSUME NEW j \in Jobs, mut' = Sender(j) PROVE send'[j] = "ready" /\ j \in DOMAIN jobs'
        <3>1. BeginAdmission(j)
            BY <2>1, <2>6, StepOfSends, ActorsDiffer
        <3>2. \A a \in Agents : ~BeginRunning(a) /\ ~BeginEnd(a)
            BY <2>6, ActorsDiffer DEF BeginRunning, BeginEnd, BeginMutation
        <3>3. \A i \in Jobs : ~BeginDelivery(i)
            BY <2>6, ActorsDiffer DEF BeginDelivery, BeginMutation
        <3>4. PICK i \in Jobs : BeginAdmission(i) /\ DOMAIN jobs' = DOMAIN jobs \cup {i}
            BY <1>11, <3>2, <3>3 DEF ListBegun
        <3>5. i = j
            BY <2>4, <2>6, <3>4, ActorsDiffer
        <3>. QED BY <2>4, <3>1, <3>4, <3>5
    <2>7. \A j \in DOMAIN jobs' : j \in Jobs /\ send[j] # "none"
        BY <1>2, <1>11, <2>3, <2>4 DEF ListBegun, ListFollows, IsList
    <2>8. HasParents(jobs)'
        BY <1>5, <2>1, <2>7 DEF HasParents
    <2>9. HasParents(prev)' /\ HasParents(disk.jobs)'
        BY <1>1, <1>2, <1>5, <2>1 DEF ListsAgree, HasParents
    <2>10. Joins(prev)' \subseteq absorbed' /\ Joins(disk.jobs)' \subseteq absorbed'
        BY <2>1 DEF ListsAgree
    <2>11. mut' # Nobody
        BY <1>11, ActorsDiffer DEF ListBegun, BeginAdmission, BeginRunning, BeginEnd, BeginDelivery,
                                   BeginMutation
    <2>. QED BY <1>4, <2>5, <2>6, <2>8, <2>9, <2>10, <2>11 DEF ListsAgree
<1>12. CASE ListWritten
    <2>1. /\ jobs' = jobs /\ disk'.jobs = jobs /\ absorbed' = absorbed \cup Joins(jobs)
          /\ (mut' = mut /\ prev' = prev) \/ (mut' = Nobody /\ prev' = EmptyQueue)
        BY <1>12 DEF ListWritten, Snapshot
    <2>2. HasParents(jobs)' /\ HasParents(disk.jobs)'
        BY <1>1, <1>2, <1>5, <2>1 DEF ListsAgree, HasParents
    <2>3. HasParents(prev)'
        BY <1>1, <1>2, <1>5, <1>9, <2>1 DEF ListsAgree, HasParents
    <2>4. Joins(jobs)' = Joins(jobs) /\ Joins(disk.jobs)' = Joins(jobs)
          /\ Joins(prev)' \in {Joins(prev), {}}
        BY <1>9, <2>1
    <2>5. \A j \in Jobs :
            /\ (j \in DOMAIN jobs \cup DOMAIN disk.jobs => Decided(j) \/ mut = Sender(j))'
            /\ (j \in DOMAIN prev => Decided(j))'
        BY <1>6, <1>8, <1>9, <2>1 DEF ListsAgree
    <2>6. \A j \in Jobs : (mut = Sender(j) => send[j] = "ready" /\ j \in DOMAIN jobs)'
        <3>1. \A j \in Jobs : mut' = Sender(j) => mut = Sender(j)
            BY <2>1, ActorsDiffer
        <3>2. \A j \in Jobs : mut = Sender(j) /\ mut' = Sender(j) => send'[j] = send[j]
            BY StepOfSends
        <3>. QED BY <2>1, <3>1, <3>2 DEF ListsAgree, Sender
    <2>. QED BY <1>4, <2>1, <2>2, <2>3, <2>4, <2>5, <2>6 DEF ListsAgree
<1>13. CASE ListPutBack
    <2>1. jobs' = prev /\ disk' = disk /\ absorbed' = absorbed /\ mut' = Nobody /\ prev' = EmptyQueue
        BY <1>13 DEF ListPutBack
    <2>2. HasParents(jobs)' /\ HasParents(disk.jobs)' /\ HasParents(prev)'
        BY <1>1, <1>2, <1>5, <1>9, <2>1 DEF ListsAgree, HasParents
    <2>3. Joins(jobs)' = Joins(prev) /\ Joins(disk.jobs)' = Joins(disk.jobs) /\ Joins(prev)' = {}
        BY <1>9, <2>1
    <2>4. \A j \in Jobs :
            /\ (j \in DOMAIN jobs \cup DOMAIN disk.jobs => Decided(j) \/ mut = Sender(j))'
            /\ (j \in DOMAIN prev => Decided(j))'
        BY <1>6, <1>8, <1>9, <2>1 DEF ListsAgree
    <2>5. \A j \in Jobs : mut' # Sender(j)
        BY <2>1, ActorsDiffer
    <2>. QED BY <1>4, <2>1, <2>2, <2>3, <2>4, <2>5 DEF ListsAgree
<1>14. CASE Restart
    <2>1. /\ disk' = disk /\ absorbed' = absorbed /\ mut' \in {Nobody, Recoverer}
          /\ DOMAIN jobs' = DOMAIN disk.jobs
          /\ prev' \in {EmptyQueue, disk.jobs}
          /\ mut' = Nobody => jobs' = EmptyQueue
        BY <1>9, <1>14, ActorsDiffer DEF Restart, Recovered
    <2>2. HasParents(jobs)' /\ HasParents(disk.jobs)' /\ HasParents(prev)'
        BY <1>1, <1>2, <1>5, <1>9, <2>1 DEF ListsAgree, HasParents
    <2>3. Joins(disk.jobs)' = Joins(disk.jobs) /\ Joins(prev)' \in {{}, Joins(disk.jobs)}
          /\ (mut' = Nobody => Joins(jobs)' = {})
        BY <1>9, <2>1
    <2>4. \A j \in Jobs : mut' # Sender(j)
        BY <2>1, ActorsDiffer
    <2>5. \A j \in Jobs :
            /\ (j \in DOMAIN jobs \cup DOMAIN disk.jobs => Decided(j) \/ mut = Sender(j))'
            /\ (j \in DOMAIN prev => Decided(j))'
        BY <1>8, <1>9, <2>1, <2>4
    <2>. QED BY <1>4, <2>1, <2>2, <2>3, <2>4, <2>5 DEF ListsAgree
<1>. QED BY <1>10, <1>11, <1>12, <1>13, <1>14, StepOfLists

(* What every list says of a job whose admission is over, it goes on       *)
(* saying: that its message is out, that its result is out.                *)
LEMMA ListsCarry ==
    ASSUME TypeOK, ListsAgree, Next, NEW j \in Jobs, Decided(j)
    PROVE  /\ RanEverywhere(j) => RanEverywhere(j)'
           /\ FencedEverywhere(j) => FencedEverywhere(j)'
<1>1. \A q, n : ListFollows(q, n) /\ (j \in DOMAIN n => j \in DOMAIN q) =>
          (Ran(q, j) => Ran(n, j)) /\ (FencedIn(q, j) => FencedIn(n, j))
    BY DEF ListFollows, Follows, Ran, FencedIn
<1>2. Ran(EmptyQueue, j) /\ FencedIn(EmptyQueue, j)
    BY DEF Ran, FencedIn, EmptyQueue
<1>3. CASE ListsStay
    BY <1>3 DEF ListsStay, RanEverywhere, FencedEverywhere, Ran, FencedIn
<1>4. CASE ListBegun
    <2>1. ~BeginAdmission(j)
        BY DEF BeginAdmission, Decided
    <2>2. j \in DOMAIN jobs' => j \in DOMAIN jobs
        BY <1>4, <2>1 DEF ListBegun
    <2>3. (Ran(jobs, j) => Ran(jobs', j)) /\ (FencedIn(jobs, j) => FencedIn(jobs', j))
        BY <1>1, <1>4, <2>2 DEF ListBegun
    <2>. QED BY <1>4, <2>3 DEF ListBegun, RanEverywhere, FencedEverywhere, Ran, FencedIn
<1>5. CASE ListWritten
    BY <1>2, <1>5 DEF ListWritten, Snapshot, RanEverywhere, FencedEverywhere, Ran, FencedIn
<1>6. CASE ListPutBack
    BY <1>2, <1>6 DEF ListPutBack, RanEverywhere, FencedEverywhere, Ran, FencedIn
<1>7. CASE Restart
    <2>1. ListFollows(disk.jobs, Recovered(disk.jobs))
          /\ DOMAIN Recovered(disk.jobs) = DOMAIN disk.jobs
        BY RecoveryFollows DEF TypeOK, IsList
    <2>2. jobs' \in {EmptyQueue, Recovered(disk.jobs)} /\ prev' \in {EmptyQueue, disk.jobs}
          /\ disk' = disk
        BY <1>7 DEF Restart
    <2>3. (Ran(disk.jobs, j) => Ran(Recovered(disk.jobs), j))
          /\ (FencedIn(disk.jobs, j) => FencedIn(Recovered(disk.jobs), j))
        BY <1>1, <2>1
    <2>. QED BY <1>2, <2>2, <2>3 DEF RanEverywhere, FencedEverywhere, Ran, FencedIn
<1>. QED BY <1>3, <1>4, <1>5, <1>6, <1>7, StepOfLists

-----------------------------------------------------------------------------
(* A message is given once.                                                *)

LEMMA MessagesAgreeKept ==
    ASSUME TypeOK, ListsAgree, MessagesAgree, Next
    PROVE  MessagesAgree'
<1>1. /\ worker \in [Agents -> [pc: WorkerStates, job: Jobs \cup {NoJob},
                                result: {"completed", "failed", "cut"}, resume: SUBSET Jobs]]
      /\ target \in [Jobs -> Agents] /\ execs \in [Jobs -> Nat]
    BY DEF TypeOK
<1>2. target' = target
    BY DEF Next, Environment, SendStep, DeliveryStep, ContinuationStep, WorkerStep, TurnStep,
           CaptureSend, DenySend, DeclineJob, OtherSave, BeginDrain, BeginShutdown, Restart,
           DeriveSend, BeginAdmission, RefuseSend, AcceptSend, RollBackSend, PickJob, StopScanning,
           LeaveWorker, LeaseGranted, StartFails, BeginRunning, RunningSaved, RunningNotSaved,
           RunTurn, TurnEnds, BeginEnd, EndSaved, EndNotSaved, BeginDelivery, AbsorbSaved,
           FenceSaved, RemovalSaved, RestoreSaved, DeliveryNotSaved, RecordHandled, HandledSaved,
           HandledNotSaved, InjectContinuation, ContinuationFails, ContinuationEnds, RawPosted,
           RawNotPosted, RecoverySaved, RecoveryNotSaved, DeliveryOnly, WorkerOnly, calls
<1>3. ASSUME NEW j \in Jobs, Decided(j), RanEverywhere(j) PROVE Decided(j)' /\ RanEverywhere(j)'
    BY <1>3, ListsCarry, StepOfSends DEF Decided
<1>4. ASSUME NEW a \in Agents, RunTurn(a)
      PROVE  LET j == worker[a].job
             IN  /\ worker[a].pc = "project" /\ j \in Jobs /\ Decided(j) /\ RanEverywhere(j)
                 /\ \A i \in Jobs : i # j => execs'[i] = execs[i]
                 /\ execs'[j] = IF worker[a].resume = {} THEN 1 ELSE execs[j]
    <2>1. worker[a].pc = "project" /\ WorkerKnows(a)
        BY <1>4 DEF RunTurn, MessagesAgree
    <2>2. PICK j \in Jobs : j = worker[a].job
        BY <2>1 DEF WorkerKnows
    <2>3. execs' = [execs EXCEPT ![j] = IF worker[a].resume = {} THEN execs[j] + 1 ELSE execs[j]]
        BY <1>4, <2>2 DEF RunTurn
    <2>4. Decided(j) /\ RanEverywhere(j) /\ (worker[a].resume = {} => execs[j] = 0)
        BY <2>1, <2>2 DEF WorkerKnows
    <2>. QED BY <1>1, <2>1, <2>2, <2>3, <2>4
<1>5. ASSUME \A a \in Agents : ~RunTurn(a) PROVE execs' = execs
    BY <1>5 DEF Next, Environment, SendStep, DeliveryStep, ContinuationStep, WorkerStep, TurnStep,
           CaptureSend, DenySend, DeclineJob, OtherSave, BeginDrain, BeginShutdown, Restart,
           DeriveSend, BeginAdmission, RefuseSend, AcceptSend, RollBackSend, PickJob, StopScanning,
           LeaveWorker, LeaseGranted, StartFails, BeginRunning, RunningSaved, RunningNotSaved,
           TurnEnds, BeginEnd, EndSaved, EndNotSaved, BeginDelivery, AbsorbSaved,
           FenceSaved, RemovalSaved, RestoreSaved, DeliveryNotSaved, RecordHandled, HandledSaved,
           HandledNotSaved, InjectContinuation, ContinuationFails, ContinuationEnds, RawPosted,
           RawNotPosted, RecoverySaved, RecoveryNotSaved, DeliveryOnly, WorkerOnly, history
<1>6. ASSUME NEW j \in Jobs
      PROVE  execs'[j] <= 1 /\ (execs'[j] > 0 => Decided(j)' /\ RanEverywhere(j)')
    <2>1. execs[j] <= 1 /\ (execs[j] > 0 => Decided(j)' /\ RanEverywhere(j)')
        BY <1>3 DEF MessagesAgree
    <2>2. CASE \A a \in Agents : ~RunTurn(a)
        BY <1>5, <2>1, <2>2
    <2>3. ASSUME NEW a \in Agents, RunTurn(a)
          PROVE  execs'[j] <= 1 /\ (execs'[j] > 0 => Decided(j)' /\ RanEverywhere(j)')
        <3>1. CASE j # worker[a].job
            BY <1>4, <2>1, <2>3, <3>1
        <3>2. CASE j = worker[a].job
            <4>1. Decided(j)' /\ RanEverywhere(j)' /\ execs'[j] \in {1, execs[j]}
                BY <1>3, <1>4, <2>3, <3>2
            <4>. QED BY <2>1, <4>1
        <3>. QED BY <3>1, <3>2
    <2>. QED BY <2>2, <2>3
<1>7. ASSUME NEW a \in Agents, mut = Worker(a), mut' = Worker(a) PROVE jobs' = jobs
    <2>1. ~Restart
        BY <1>7, ActorsDiffer DEF Restart
    <2>. QED BY <1>7, <2>1, StepOfLists, ActorsDiffer DEF ListsStay, ListBegun, ListWritten, ListPutBack
<1>8. ASSUME NEW a \in Agents, WorkerStays(a) PROVE WorkerKnows(a)'
    <2>1. CASE worker'[a].pc \in {"off", "scan"} /\ mut' # Worker(a)
        BY <2>1 DEF WorkerKnows, Worker
    <2>2. CASE worker'[a] = worker[a]
        <3>1. WorkerKnows(a) /\ (mut' = Worker(a) => mut = Worker(a))
            BY <1>8 DEF MessagesAgree, WorkerStays
        <3>2. PICK j : j = worker[a].job
            OBVIOUS
        <3>3. mut' = Worker(a) => worker[a].pc \in {"start", "settle", "record"}
            BY <3>1 DEF WorkerKnows
        <3>4. worker[a].pc \in {"wait", "start", "project"} =>
                j \in Jobs /\ target[j] = a /\ (worker[a].resume = {} => execs'[j] = 0)
            BY <1>8, <3>1, <3>2 DEF WorkerKnows, WorkerStays
        <3>5. worker[a].pc = "start" /\ mut' = Worker(a) => Ran(jobs', j)
            BY <1>7, <3>1, <3>2 DEF WorkerKnows
        <3>6. worker[a].pc = "project" => Decided(j)' /\ RanEverywhere(j)'
            <4>1. worker[a].pc = "project" => j \in Jobs /\ Decided(j) /\ RanEverywhere(j)
                BY <3>1, <3>2 DEF WorkerKnows
            <4>. QED BY <1>3, <4>1
        <3>7. worker'[a].job = j
            BY <2>2, <3>2
        <3>. QED BY <1>2, <2>2, <3>3, <3>4, <3>5, <3>6, <3>7 DEF WorkerKnows, Worker, Ran, RanEverywhere, Decided
    <2>. QED BY <1>8, <2>1, <2>2 DEF WorkerStays
<1>9. ASSUME NEW a \in Agents, worker'[a].pc \notin {"wait", "start", "project"}, mut' # Worker(a)
      PROVE  WorkerKnows(a)'
    BY <1>9 DEF WorkerKnows, Worker
<1>10. ASSUME NEW a \in Agents, worker[a].pc \notin {"start", "settle", "record"}, mut' = mut
       PROVE  mut' # Worker(a)
    BY <1>10 DEF MessagesAgree, WorkerKnows
<1>11. ASSUME NEW a \in Agents, WorkerStep(a) \/ DeclineJob(a) PROVE WorkerKnows(a)'
    <2>0. WorkerKnows(a) /\ Worker(a) # Nobody
        BY ActorsDiffer DEF MessagesAgree
    <2>1. CASE PickJob(a)
        <3>1. PICK j : j = Min(QueuedFor(a))
            OBVIOUS
        <3>2. QueuedFor(a) \in SUBSET Nat /\ QueuedFor(a) # {}
            BY <2>1 DEF PickJob, QueuedFor, TypeOK, Jobs
        <3>3. j \in DOMAIN jobs /\ target[j] = a /\ jobs[j].state = "queued"
            BY <3>1, <3>2, MinIsElement DEF QueuedFor
        <3>4. j \in Jobs /\ execs[j] \in Nat
            BY <1>1, <3>3 DEF TypeOK
        <3>5. jobs[j].resume = {} => execs[j] = 0
            BY <3>3, <3>4 DEF MessagesAgree, RanEverywhere, Ran
        <3>6. /\ worker'[a].pc = "wait" /\ worker'[a].job = j /\ worker'[a].resume = jobs[j].resume
              /\ execs' = execs /\ mut' = mut
            BY <1>1, <2>1, <3>1 DEF PickJob, WorkerOnly, storage, history, NoWork
        <3>7. mut' # Worker(a)
            BY <1>10, <2>1, <3>6 DEF PickJob
        <3>. QED BY <1>2, <3>3, <3>4, <3>5, <3>6, <3>7 DEF WorkerKnows, Worker
    <2>2. CASE StopScanning(a) \/ LeaveWorker(a) \/ TurnStep(a) \/ DeclineJob(a)
        <3>1. mut' = mut /\ worker[a].pc \notin {"start", "settle", "record"}
            BY <2>2 DEF StopScanning, LeaveWorker, TurnStep, TurnEnds, DeclineJob, WorkerOnly, storage
        <3>2. worker'[a].pc \in {"exiting", "scan", "off", "settle", "record"}
            BY <1>1, <2>2 DEF StopScanning, LeaveWorker, TurnStep, TurnEnds, DeclineJob, Goto, NoWork
        <3>. QED BY <1>9, <1>10, <3>1, <3>2
    <2>3. CASE LeaseGranted(a)
        <3>1. /\ worker[a].pc = "wait" /\ mut' = mut /\ execs' = execs
              /\ worker'[a].pc \in {"start", "scan"} /\ worker'[a].job = worker[a].job
              /\ worker'[a].resume = worker[a].resume
            BY <1>1, <2>3 DEF LeaseGranted, Goto, WorkerOnly, storage, history
        <3>2. mut' # Worker(a)
            BY <1>10, <3>1
        <3>. QED BY <1>2, <2>0, <3>1, <3>2 DEF WorkerKnows, Worker
    <2>4. CASE StartFails(a)
        <3>1. mut' = mut /\ mut # Worker(a) /\ worker'[a].pc = "settle"
            BY <1>1, <1>10, <2>4 DEF StartFails, WorkerOnly, storage
        <3>. QED BY <1>9, <3>1
    <2>5. CASE BeginRunning(a)
        <3>1. /\ worker[a].pc = "start" /\ worker' = worker /\ execs' = execs
              /\ jobs' = Rewrite(worker[a].job, Running)
            BY <2>5 DEF BeginRunning, BeginMutation, history
        <3>2. Ran(Rewrite(worker[a].job, Running), worker[a].job)
            BY RunningFollows
        <3>3. Ran(jobs, worker[a].job)'
            BY <3>1, <3>2 DEF Ran
        <3>. QED BY <1>2, <2>0, <3>1, <3>3 DEF WorkerKnows
    <2>6. CASE RunningSaved(a)
        <3>1. PICK j \in Jobs : j = worker[a].job
            BY <2>0, <2>6 DEF RunningSaved, WorkerKnows
        <3>2. /\ worker[a].pc = "start" /\ mut = Worker(a) /\ mut' = Nobody /\ execs' = execs
              /\ prev' = EmptyQueue /\ disk'.jobs = jobs /\ jobs' = jobs /\ send' = send
            BY <2>6 DEF RunningSaved, CommitMutation, Save, Snapshot, memory, history, calls
        <3>3. /\ worker'[a].pc = IF j \in DOMAIN jobs THEN "project" ELSE "settle"
              /\ worker'[a].job = j /\ worker'[a].resume = worker[a].resume
            BY <1>1, <2>6, <3>1 DEF RunningSaved
        <3>4. Ran(jobs, j) /\ target[j] = a /\ (worker[a].resume = {} => execs[j] = 0)
            BY <2>0, <3>1, <3>2 DEF WorkerKnows
        <3>5. j \in DOMAIN jobs => Decided(j)'
            BY <3>2, ActorsDiffer DEF ListsAgree, Decided
        <3>6. RanEverywhere(j)'
            BY <3>2, <3>4 DEF RanEverywhere, Ran, EmptyQueue
        <3>7. mut' # Worker(a)
            BY <2>0, <3>2
        <3>8. worker'[a].pc \in {"wait", "start", "project"} =>
                 j \in Jobs /\ target'[j] = a /\ (worker'[a].resume = {} => execs'[j] = 0)
            BY <1>2, <3>2, <3>3, <3>4
        <3>9. worker'[a].pc = "project" => Decided(j)' /\ RanEverywhere(j)'
            BY <3>3, <3>5, <3>6
        <3>. QED BY <3>3, <3>7, <3>8, <3>9 DEF WorkerKnows, Worker, Decided, RanEverywhere, Ran
    <2>7. CASE RunningNotSaved(a)
        <3>1. worker'[a].pc = "settle"
            BY <1>1, <2>7 DEF RunningNotSaved
        <3>2. mut' = Nobody
            BY <2>7 DEF RunningNotSaved, RollBack, Refuse, storage
        <3>. QED BY <1>9, <2>0, <3>1, <3>2
    <2>8. CASE RunTurn(a)
        <3>1. worker'[a].pc = "turn" /\ mut' = mut /\ worker[a].pc = "project"
            BY <1>1, <2>8 DEF RunTurn, Goto, storage
        <3>. QED BY <1>9, <1>10, <3>1
    <2>9. CASE BeginEnd(a)
        <3>1. worker' = worker /\ worker[a].pc \in {"settle", "record"}
            BY <2>9 DEF BeginEnd
        <3>. QED BY <3>1 DEF WorkerKnows
    <2>10. CASE EndSaved(a) \/ EndNotSaved(a)
        <3>1. worker'[a].pc \in {"scan", "blocked"}
            BY <1>1, <2>10 DEF EndSaved, EndNotSaved, NoWork
        <3>2. mut' = Nobody
            BY <2>10 DEF EndSaved, EndNotSaved, CommitMutation, RollBack, Refuse, storage
        <3>. QED BY <1>9, <2>0, <3>1, <3>2
    <2>. QED BY <1>11, <2>1, <2>2, <2>3, <2>4, <2>5, <2>6, <2>7, <2>8, <2>9, <2>10 DEF WorkerStep
<1>12. \A a \in Agents : WorkerKnows(a)'
    BY <1>8, <1>11, StepOfWorker
<1>. QED BY <1>6, <1>12 DEF MessagesAgree

-----------------------------------------------------------------------------
(* A result is injected once, and never taken for a handled one.           *)

Working(j) == delivery[j] \notin {"off", "blocked"}
Listed(j) ==
    /\ Decided(j)
    /\ mut # Deliverer(j) => j \in DOMAIN jobs
    /\ mut # Nobody => j \in DOMAIN prev

(* A delivery that others leave at work is still listed.                   *)
LEMMA ListedKept ==
    ASSUME TypeOK, ListsAgree, ResultsAgree, Next, NEW j \in Jobs, Working(j),
           mut' = Deliverer(j) <=> mut = Deliverer(j), ~Restart
    PROVE  Listed(j)'
<1>1. Listed(j)
    BY DEF ResultsAgree, DeliveryKnows, Working, Listed
<1>2. Decided(j)'
    BY <1>1, StepOfSends DEF Listed, Decided
<1>3. (mut' # Deliverer(j) => j \in DOMAIN jobs') /\ (mut' # Nobody => j \in DOMAIN prev')
    <2>1. CASE ListsStay
        BY <1>1, <2>1 DEF ListsStay, Listed
    <2>2. CASE ListBegun
        <3>1. j \in DOMAIN jobs /\ prev' = jobs
            BY <1>1, <2>2, ActorsDiffer DEF ListBegun, Listed
        <3>2. ~BeginDelivery(j)
            BY <2>2, ActorsDiffer DEF ListBegun, BeginDelivery, BeginMutation
        <3>3. j \in DOMAIN jobs'
            BY <2>2, <3>1, <3>2 DEF ListBegun
        <3>. QED BY <3>1, <3>3
    <2>3. CASE ListWritten
        BY <1>1, <2>3 DEF ListWritten, Listed
    <2>4. CASE ListPutBack
        BY <1>1, <2>4 DEF ListPutBack, Listed
    <2>. QED BY <2>1, <2>2, <2>3, <2>4, StepOfLists
<1>. QED BY <1>2, <1>3 DEF Listed, Decided, Deliverer, Nobody

LEMMA FencedKept ==
    ASSUME TypeOK, ListsAgree, Next, NEW j \in Jobs, Decided(j), FencedEverywhere(j)
    PROVE  Decided(j)' /\ FencedEverywhere(j)'
BY ListsCarry, StepOfSends DEF Decided

(* What is true of the ids of handled results.                             *)
HandledKnows(j) ==
    /\ conts[j] <= 1
    /\ conts[j] > 0 => j \in handled /\ j \in disk.handled
    /\ j \in handled \cup disk.handled => Decided(j) /\ FencedEverywhere(j)

LEMMA OthersKeepDelivery ==
    ASSUME TypeOK, ListsAgree, ListsAgree', ResultsAgree, Next, NEW j \in Jobs, DeliveryStays(j)
    PROVE  HandledKnows(j)' /\ DeliveryKnows(j)'
<1>1. HandledKnows(j) /\ DeliveryKnows(j)
    BY DEF ResultsAgree, HandledKnows
<1>2. HandledKnows(j)'
    <2>1. conts'[j] = conts[j]
          /\ (j \in handled /\ j \in disk.handled => j \in handled' /\ j \in disk'.handled)
        BY DEF DeliveryStays
    <2>2. j \in handled' \cup disk'.handled => j \in handled \cup disk.handled
        BY DEF DeliveryStays
    <2>3. j \in handled' \cup disk'.handled => Decided(j)' /\ FencedEverywhere(j)'
        BY <1>1, <2>2, FencedKept DEF HandledKnows
    <2>. QED BY <1>1, <2>1, <2>3 DEF HandledKnows
<1>3. CASE delivery'[j] = "off" /\ Restart
    <2>1. mut' # Deliverer(j)
        BY <1>3, ActorsDiffer DEF Restart
    <2>. QED BY <1>2, <1>3, <2>1 DEF DeliveryKnows, Deliverer
<1>4. CASE /\ delivery[j] = "off" /\ delivery'[j] = "deliver" /\ mut' = Nobody
           /\ jobs' = jobs /\ j \in DOMAIN jobs
    <2>1. Decided(j)'
        BY <1>4, ActorsDiffer DEF ListsAgree, Sender
    <2>2. mut' # Deliverer(j)
        BY <1>4, ActorsDiffer
    <2>. QED BY <1>2, <1>4, <2>1, <2>2 DEF DeliveryKnows, Deliverer, Nobody
<1>5. CASE delivery'[j] = delivery[j] /\ ~Restart
    <2>1. mut' = Deliverer(j) <=> mut = Deliverer(j)
        BY <1>5 DEF DeliveryStays
    <2>2. Working(j) => Listed(j)'
        BY <1>5, <2>1, ListedKept
    <2>3. mut' = Deliverer(j) => delivery'[j] \in Mutating
        BY <1>1, <1>5, <2>1 DEF DeliveryKnows
    <2>4. mut' = Deliverer(j) /\ delivery'[j] = "deliver" /\ ~IsChild(j)' =>
              j \in DOMAIN jobs' /\ FencedIn(jobs', j)
        <3>1. SUFFICES ASSUME mut' = Deliverer(j), delivery'[j] = "deliver", ~IsChild(j)'
                       PROVE  j \in DOMAIN jobs' /\ FencedIn(jobs', j)
            OBVIOUS
        <3>2. Decided(j)
            BY <1>1, <1>5, <3>1 DEF DeliveryKnows
        <3>3. IsChild(j)' = IsChild(j)
            BY <3>2, StepOfSends DEF CaptureSend, Decided, IsChild, Parent
        <3>4. jobs' = jobs
            BY <1>5, <2>1, <3>1, StepOfLists, ActorsDiffer
               DEF ListsStay, ListBegun, ListWritten, ListPutBack
        <3>. QED BY <1>1, <1>5, <2>1, <3>1, <3>3, <3>4 DEF DeliveryKnows
    <2>5. delivery'[j] \in {"accept", "save", "inject"} => conts'[j] = 0 /\ FencedEverywhere(j)'
        BY <1>1, <1>5, FencedKept DEF DeliveryKnows, DeliveryStays
    <2>6. /\ delivery'[j] = "accept" => j \notin handled'
          /\ delivery'[j] = "save" => j \in handled'
          /\ delivery'[j] = "inject" => j \in handled' /\ j \in disk'.handled
          /\ delivery'[j] \in {"remove", "removeShown", "removeFallback"} => shown'[j] > 0
        BY <1>1, <1>5 DEF DeliveryKnows, DeliveryStays
    <2>7. delivery'[j] \notin {"off", "blocked"} => Listed(j)'
        BY <1>5, <2>2 DEF Working
    <2>8. DeliveryKnows(j)'
        BY <2>3, <2>4, <2>5, <2>6, <2>7
           DEF DeliveryKnows, Listed, Decided, Deliverer, FencedIn, FencedEverywhere, Mutating, Nobody
    <2>. QED BY <1>2, <2>8
<1>. QED BY <1>3, <1>4, <1>5 DEF DeliveryStays

LEMMA DeliveryKeeps ==
    ASSUME TypeOK, ListsAgree, ResultsAgree, Next, NEW j \in Jobs, DeliveryStep(j)
    PROVE  HandledKnows(j)' /\ DeliveryKnows(j)'
<1> DEFINE Goal == HandledKnows(j)' /\ DeliveryKnows(j)'
<1> SUFFICES Goal
    OBVIOUS
<1>1. /\ delivery \in [Jobs -> DeliveryStates]
      /\ conts \in [Jobs -> Nat] /\ shown \in [Jobs -> Nat]
    BY DEF TypeOK
<1>2. HandledKnows(j) /\ DeliveryKnows(j)
    BY DEF ResultsAgree, HandledKnows
<1>3. Nobody # Deliverer(j)
    BY ActorsDiffer
<1>4. ~Restart
    <2>1. restarts' = restarts
        BY DEF DeliveryStep, ContinuationStep, BeginDelivery, AbsorbSaved, FenceSaved,
               RemovalSaved, RestoreSaved, DeliveryNotSaved, RecordHandled, HandledSaved,
               HandledNotSaved, InjectContinuation, ContinuationFails, ContinuationEnds,
               RawPosted, RawNotPosted, DeliveryOnly
    <2>2. restarts \in 0 .. MaxRestarts
        BY DEF TypeOK
    <2>. QED BY <2>1, <2>2 DEF Restart
<1>5. Decided(j) /\ FencedEverywhere(j) => Decided(j)' /\ FencedEverywhere(j)'
    BY FencedKept
(* A step that leaves the handled ids and this result alone.               *)
<1>6. ASSUME conts'[j] = conts[j], handled' = handled, disk' = disk \/ disk' = Snapshot
      PROVE  HandledKnows(j)'
    <2>1. j \in handled' \cup disk'.handled => j \in handled \cup disk.handled
        BY <1>6 DEF Snapshot
    <2>2. j \in handled' \cup disk'.handled => Decided(j)' /\ FencedEverywhere(j)'
        BY <1>2, <1>5, <2>1 DEF HandledKnows
    <2>3. conts'[j] > 0 => j \in handled' /\ j \in disk'.handled
        BY <1>2, <1>6 DEF HandledKnows, Snapshot
    <2>. QED BY <1>2, <1>6, <2>2, <2>3 DEF HandledKnows
<1>7. ASSUME HandledKnows(j)', delivery'[j] \in {"off", "blocked"}, mut' # Deliverer(j) PROVE Goal
    BY <1>7 DEF DeliveryKnows, Deliverer
<1>8. ASSUME HandledKnows(j)', Listed(j)', mut' # Deliverer(j),
             delivery'[j] \in {"fallback", "restore", "raw", "turn"} PROVE Goal
    BY <1>8 DEF DeliveryKnows, Listed, Decided, Deliverer, Nobody
<1>9. ASSUME HandledKnows(j)', Listed(j)', mut' # Deliverer(j),
             delivery'[j] \in {"remove", "removeShown", "removeFallback"}, shown'[j] > 0 PROVE Goal
    BY <1>9 DEF DeliveryKnows, Listed, Decided, Deliverer, Nobody
<1>10. ASSUME Working(j), mut' = mut, mut # Deliverer(j)
       PROVE  Listed(j)' /\ mut' # Deliverer(j)
    BY <1>4, <1>10, ListedKept
<1>11. delivery[j] \notin Mutating => mut # Deliverer(j)
    BY <1>2 DEF DeliveryKnows
<1>12. CASE BeginDelivery(j)
    <2>1. /\ delivery[j] \in Mutating /\ mut = Nobody /\ mut' = Deliverer(j) /\ prev' = jobs
          /\ jobs' = DeliveryChange(j) /\ disk' = disk /\ UNCHANGED <<delivery, handled, history, calls>>
        BY <1>12 DEF BeginDelivery, BeginMutation
    <2>2. HandledKnows(j)'
        BY <1>6, <2>1 DEF history
    <2>3. Decided(j) /\ j \in DOMAIN jobs
        BY <1>2, <1>3, <2>1 DEF DeliveryKnows, Mutating
    <2>4. delivery[j] = "deliver" /\ ~IsChild(j) => j \in DOMAIN jobs' /\ FencedIn(jobs', j)
        BY <2>1, <2>3, DeliveryFollows
    <2>5. Decided(j)' /\ (IsChild(j)' <=> IsChild(j))
        BY <2>1, <2>3 DEF calls, Decided, IsChild, Parent
    <2>6. DeliveryKnows(j)'
        BY <1>2, <2>1, <2>3, <2>4, <2>5
           DEF DeliveryKnows, Mutating, Deliverer, Decided, FencedIn, history
    <2>. QED BY <2>2, <2>6
<1>13. CASE AbsorbSaved(j)
    <2>1. mut' = Nobody /\ disk' = Snapshot /\ handled' = handled /\ conts' = conts
        BY <1>13 DEF AbsorbSaved, CommitMutation, Save, memory, history
    <2>2. Parent(j) # j
        BY DEF ListsAgree
    <2>3. delivery'[j] = "off"
        BY <1>1, <1>13, <2>2 DEF AbsorbSaved, ScheduledDeliveries, WakeDelivery
    <2>. QED BY <1>3, <1>6, <1>7, <2>1, <2>3
<1>14. CASE FenceSaved(j)
    <2>1. /\ mut = Deliverer(j) /\ mut' = Nobody /\ prev' = EmptyQueue /\ disk' = Snapshot
          /\ delivery[j] = "deliver" /\ ~IsChild(j)
          /\ UNCHANGED <<jobs, handled, conts, shown, send>>
        BY <1>14 DEF FenceSaved, CommitMutation, Save, memory, history, calls
    <2>2. delivery'[j] = IF prev[j].fenced THEN "fallback" ELSE "accept"
        BY <1>1, <1>14 DEF FenceSaved, Deliver
    <2>3. j \in DOMAIN jobs /\ FencedIn(jobs, j) /\ Decided(j) /\ j \in DOMAIN prev
        BY <1>2, <1>3, <2>1 DEF DeliveryKnows
    <2>4. HandledKnows(j)'
        BY <1>6, <2>1
    <2>5. Listed(j)' /\ mut' # Deliverer(j)
        BY <1>3, <2>1, <2>3 DEF Listed, Decided, Nobody
    <2>6. CASE prev[j].fenced
        BY <1>8, <2>2, <2>4, <2>5, <2>6
    <2>7. CASE ~prev[j].fenced
        <3>1. ~FencedEverywhere(j)
            BY <2>3, <2>7 DEF FencedEverywhere, FencedIn
        <3>2. j \notin handled /\ ~(conts[j] > 0)
            BY <1>2, <3>1 DEF HandledKnows
        <3>3. conts'[j] = 0 /\ j \notin handled'
            BY <1>1, <2>1, <3>2
        <3>4. FencedEverywhere(j)'
            BY <2>1, <2>3 DEF FencedEverywhere, FencedIn, EmptyQueue, Snapshot
        <3>5. delivery'[j] = "accept"
            BY <2>2, <2>7
        <3>6. DeliveryKnows(j)'
            BY <2>5, <3>3, <3>4, <3>5 DEF DeliveryKnows, Listed, Decided, Deliverer, Nobody
        <3>. QED BY <2>4, <3>6
    <2>. QED BY <2>6, <2>7
<1>15. CASE RemovalSaved(j) \/ RestoreSaved(j)
    <2>1. mut' = Nobody /\ disk' = Snapshot /\ handled' = handled /\ conts' = conts
        BY <1>15 DEF RemovalSaved, RestoreSaved, CommitMutation, Save, memory, history
    <2>2. delivery'[j] \in {"off", "blocked"}
        BY <1>1, <1>15 DEF RemovalSaved, RestoreSaved, Deliver
    <2>. QED BY <1>3, <1>6, <1>7, <2>1, <2>2
<1>16. CASE DeliveryNotSaved(j)
    <2>1. /\ delivery[j] \in Mutating
          /\ delivery'[j] \in {"fallback", "restore", "blocked"}
          /\ UNCHANGED <<handled, conts, send>>
        BY <1>1, <1>16 DEF DeliveryNotSaved, Deliver, history, calls
    <2>2. mut' = Nobody /\ disk' = disk
        BY <1>16 DEF DeliveryNotSaved, RollBack, Refuse, storage
    <2>3. HandledKnows(j)' /\ mut' # Deliverer(j)
        BY <1>3, <1>6, <2>1, <2>2
    <2>4. Decided(j)'
        BY <1>2, <2>1 DEF DeliveryKnows, Decided, Mutating
    <2>5. j \in DOMAIN jobs'
        <3>1. CASE RollBack(Deliverer(j))
            BY <1>2, <1>3, <2>1, <3>1 DEF RollBack, DeliveryKnows, Mutating
        <3>2. CASE Refuse(DeliveryChange(j))
            BY <1>2, <1>3, <2>1, <3>2 DEF Refuse, DeliveryKnows, Mutating
        <3>. QED BY <1>16, <3>1, <3>2 DEF DeliveryNotSaved
    <2>6. Listed(j)'
        BY <2>2, <2>4, <2>5 DEF Listed, Decided, Nobody
    <2>. QED BY <1>7, <1>8, <2>1, <2>3, <2>6
<1>17. CASE RecordHandled(j)
    <2>1. /\ delivery[j] = "accept" /\ delivery'[j] = "save" /\ handled' = handled \cup {j}
          /\ disk' = disk /\ mut' = mut /\ conts' = conts
        BY <1>1, <1>17 DEF RecordHandled, Deliver, storage, history
    <2>2. Decided(j) /\ FencedEverywhere(j) /\ conts[j] = 0
        BY <1>2, <2>1 DEF DeliveryKnows
    <2>3. Decided(j)' /\ FencedEverywhere(j)'
        BY <1>5, <2>2
    <2>4. Listed(j)' /\ mut' # Deliverer(j)
        BY <1>10, <1>11, <2>1 DEF Working, Mutating
    <2>5. HandledKnows(j)'
        BY <2>1, <2>2, <2>3 DEF HandledKnows
    <2>6. DeliveryKnows(j)'
        BY <2>1, <2>2, <2>3, <2>4 DEF DeliveryKnows, Listed, Decided, Deliverer, Nobody
    <2>. QED BY <2>5, <2>6
<1>18. CASE HandledSaved(j)
    <2>1. /\ delivery[j] = "save" /\ delivery'[j] = "inject" /\ handled' = handled
          /\ disk' = Snapshot /\ mut' = mut /\ conts' = conts
        BY <1>1, <1>18 DEF HandledSaved, Deliver, Save, memory, history
    <2>2. Decided(j) /\ FencedEverywhere(j) /\ conts[j] = 0 /\ j \in handled
        BY <1>2, <2>1 DEF DeliveryKnows
    <2>3. FencedEverywhere(j)' /\ j \in disk'.handled
        BY <1>5, <2>1, <2>2 DEF Snapshot
    <2>4. Listed(j)' /\ mut' # Deliverer(j)
        BY <1>10, <1>11, <2>1 DEF Working, Mutating
    <2>5. HandledKnows(j)'
        BY <1>6, <2>1
    <2>6. DeliveryKnows(j)'
        BY <2>1, <2>2, <2>3, <2>4 DEF DeliveryKnows, Listed, Decided, Deliverer, Nobody
    <2>. QED BY <2>5, <2>6
<1>19. CASE HandledNotSaved(j)
    <2>1. /\ delivery[j] = "save" /\ delivery'[j] = "raw" /\ handled' = handled \ {j}
          /\ disk' = disk /\ mut' = mut /\ conts' = conts
        BY <1>1, <1>19 DEF HandledNotSaved, Deliver, history
    <2>2. Decided(j) /\ FencedEverywhere(j) /\ conts[j] = 0
        BY <1>2, <2>1 DEF DeliveryKnows
    <2>3. Decided(j)' /\ FencedEverywhere(j)'
        BY <1>5, <2>2
    <2>4. Listed(j)' /\ mut' # Deliverer(j)
        BY <1>10, <1>11, <2>1 DEF Working, Mutating
    <2>5. HandledKnows(j)'
        BY <2>1, <2>2, <2>3 DEF HandledKnows
    <2>. QED BY <1>8, <2>1, <2>4, <2>5
<1>20. CASE InjectContinuation(j)
    <2>1. /\ delivery[j] = "inject" /\ delivery'[j] = "turn" /\ handled' = handled
          /\ disk' = disk /\ mut' = mut /\ conts'[j] = conts[j] + 1
        BY <1>1, <1>20 DEF InjectContinuation, Deliver, memory, storage
    <2>2. /\ Decided(j) /\ FencedEverywhere(j) /\ conts[j] = 0
          /\ j \in handled /\ j \in disk.handled
        BY <1>2, <2>1 DEF DeliveryKnows
    <2>3. Decided(j)' /\ FencedEverywhere(j)'
        BY <1>5, <2>2
    <2>4. Listed(j)' /\ mut' # Deliverer(j)
        BY <1>10, <1>11, <2>1 DEF Working, Mutating
    <2>5. HandledKnows(j)'
        BY <2>1, <2>2, <2>3 DEF HandledKnows
    <2>. QED BY <1>8, <2>1, <2>4, <2>5
<1>21. CASE ContinuationFails(j) \/ RawNotPosted(j)
    <2>1. /\ Working(j) /\ delivery[j] \notin Mutating
          /\ delivery'[j] \in {"raw", "fallback", "restore"}
          /\ handled' = handled /\ disk' = disk /\ mut' = mut /\ conts' = conts
        BY <1>1, <1>21 DEF ContinuationFails, RawNotPosted, Deliver, DeliveryOnly, Working, Mutating,
                           memory, storage, history
    <2>. QED BY <1>6, <1>8, <1>10, <1>11, <2>1
<1>22. CASE RawPosted(j)
    <2>1. /\ Working(j) /\ delivery[j] \notin Mutating
          /\ delivery'[j] \in {"removeShown", "removeFallback"} /\ shown'[j] > 0
          /\ handled' = handled /\ disk' = disk /\ mut' = mut /\ conts' = conts
        BY <1>1, <1>22 DEF RawPosted, Deliver, Working, Mutating, memory, storage
    <2>. QED BY <1>6, <1>9, <1>10, <1>11, <2>1
<1>23. ASSUME NEW next \in {"remove", "removeShown", "fallback"}, ContinuationEnds(j, next) PROVE Goal
    <2>1. /\ Working(j) /\ delivery[j] \notin Mutating
          /\ delivery'[j] = next /\ (next # "fallback" => shown'[j] > 0)
          /\ handled' = handled /\ disk' = disk /\ mut' = mut /\ conts' = conts
        BY <1>1, <1>23 DEF ContinuationEnds, Deliver, Working, Mutating, memory, storage
    <2>. QED BY <1>6, <1>8, <1>9, <1>10, <1>11, <2>1
<1>. QED BY <1>12, <1>13, <1>14, <1>15, <1>16, <1>17, <1>18, <1>19, <1>20, <1>21, <1>22, <1>23
         DEF DeliveryStep, ContinuationStep

LEMMA ResultsAgreeKept ==
    ASSUME TypeOK, ListsAgree, ListsAgree', ResultsAgree, Next
    PROVE  ResultsAgree'
<1>1. \A j \in Jobs : HandledKnows(j)' /\ DeliveryKnows(j)'
    BY StepOfDelivery, OthersKeepDelivery, DeliveryKeeps
<1>. QED BY <1>1 DEF ResultsAgree, HandledKnows

-----------------------------------------------------------------------------
(* What has been accepted stays in a list until it has arrived.            *)

LEMMA ShownGrows ==
    ASSUME TypeOK, Next, NEW j \in Jobs
    PROVE  shown'[j] >= shown[j]
<1>1. shown \in [Jobs -> Nat]
    BY DEF TypeOK
<1>2. CASE DeliveryStays(j)
    BY <1>1, <1>2 DEF DeliveryStays
<1>3. CASE UNCHANGED shown
    BY <1>1, <1>3
<1>4. ASSUME DeliveryStep(j), ~UNCHANGED shown PROVE shown'[j] >= shown[j]
    <2>1. RawPosted(j) \/ \E next \in {"remove", "removeShown", "fallback"} : ContinuationEnds(j, next)
        BY <1>4 DEF DeliveryStep, ContinuationStep, BeginDelivery, AbsorbSaved, FenceSaved,
                    RemovalSaved, RestoreSaved, DeliveryNotSaved, RecordHandled, HandledSaved,
                    HandledNotSaved, InjectContinuation, ContinuationFails, RawNotPosted,
                    DeliveryOnly, history
    <2>. QED BY <1>1, <2>1 DEF RawPosted, ContinuationEnds
<1>. QED BY <1>2, <1>3, <1>4, StepOfDelivery

LEMMA ArrivedStays ==
    ASSUME TypeOK, ListsAgree, Next, NEW j \in Jobs, Arrived(j)
    PROVE  Arrived(j)'
<1>1. shown \in [Jobs -> Nat] /\ shown' \in [Jobs -> Nat]
    BY TypesKept DEF TypeOK
<1>2. shown'[j] >= shown[j]
    BY ShownGrows
<1>3. absorbed \subseteq absorbed'
    BY StepOfLists DEF ListsStay, ListBegun, ListWritten, ListPutBack, Restart
<1>. QED BY <1>1, <1>2, <1>3 DEF Arrived

LEMMA AcceptedIsListedKept ==
    ASSUME TypeOK, ListsAgree, ResultsAgree, AcceptedIsListed, Next
    PROVE  AcceptedIsListed'
<1>1. SUFFICES ASSUME NEW j \in Jobs, send'[j] = "accepted", ~Arrived(j)'
               PROVE  /\ j \in DOMAIN disk'.jobs
                      /\ mut' # Nobody => j \in DOMAIN prev'
                      /\ j \in DOMAIN jobs' \/ (mut' = Deliverer(j) /\ j \in Joins(jobs)')
    BY DEF AcceptedIsListed
<1> DEFINE Goal == /\ j \in DOMAIN disk'.jobs
                   /\ mut' # Nobody => j \in DOMAIN prev'
                   /\ j \in DOMAIN jobs' \/ (mut' = Deliverer(j) /\ j \in Joins(jobs)')
<1>2. ~Arrived(j)
    BY <1>1, ArrivedStays
<1>3. CASE AcceptSend(j)
    <2>1. mut = Sender(j) /\ mut' = Nobody /\ jobs' = jobs /\ disk' = Snapshot
        BY <1>3 DEF AcceptSend, CommitMutation, Save, memory
    <2>2. j \in DOMAIN jobs
        BY <2>1 DEF ListsAgree
    <2>. QED BY <2>1, <2>2 DEF Snapshot
<1>4. ASSUME send[j] = "accepted" PROVE Goal
    <2>1. /\ j \in DOMAIN disk.jobs
          /\ mut # Nobody => j \in DOMAIN prev
          /\ j \in DOMAIN jobs \/ (mut = Deliverer(j) /\ j \in Joins(jobs))
        BY <1>2, <1>4 DEF AcceptedIsListed
    <2>2. CASE ListsStay
        BY <2>1, <2>2 DEF ListsStay, Joins
    <2>3. CASE ListBegun
        <3>1. mut = Nobody /\ prev' = jobs /\ disk' = disk
            BY <2>3 DEF ListBegun
        <3>2. j \in DOMAIN jobs
            BY <2>1, <3>1, ActorsDiffer
        <3>3. CASE BeginDelivery(j)
            <4>1. delivery[j] \in Mutating /\ mut' = Deliverer(j) /\ jobs' = DeliveryChange(j)
                BY <3>3 DEF BeginDelivery, BeginMutation
            <4>2. CASE delivery[j] = "deliver" /\ IsChild(j)
                <5>1. Parent(j) \in DOMAIN jobs /\ Parent(j) # j
                    BY <3>2, <4>2 DEF ListsAgree, HasParents, IsChild
                <5>2. j \in Joins(DeliveryChange(j))
                    BY <4>2, <5>1, JoinsItsParent
                <5>3. Joins(jobs)' = Joins(DeliveryChange(j))
                    BY <4>1 DEF Joins
                <5>. QED BY <2>1, <3>1, <3>2, <4>1, <5>2, <5>3
            <4>3. CASE delivery[j] = "restore" \/ (delivery[j] = "deliver" /\ ~IsChild(j))
                <5>1. DOMAIN DeliveryChange(j) = DOMAIN jobs
                    BY <4>1, <4>3, DeliveryFollows
                <5>. QED BY <2>1, <3>1, <3>2, <4>1, <5>1
            <4>4. CASE delivery[j] \in {"remove", "removeShown", "removeFallback"}
                BY <1>2, <4>4 DEF ResultsAgree, DeliveryKnows, Arrived
            <4>. QED BY <4>1, <4>2, <4>3, <4>4 DEF Mutating
        <3>4. CASE ~BeginDelivery(j)
            BY <2>1, <2>3, <3>1, <3>2, <3>4 DEF ListBegun
        <3>. QED BY <3>3, <3>4
    <2>4. CASE ListWritten
        <3>1. jobs' = jobs /\ disk'.jobs = jobs /\ absorbed' = absorbed \cup Joins(jobs)
            BY <2>4 DEF ListWritten, Snapshot
        <3>2. j \in DOMAIN jobs
            BY <1>1, <2>1, <3>1 DEF Arrived
        <3>. QED BY <2>1, <2>4, <3>1, <3>2 DEF ListWritten
    <2>5. CASE ListPutBack
        BY <2>1, <2>5 DEF ListPutBack
    <2>6. CASE Restart
        <3>1. IsList(disk.jobs)
            BY DEF TypeOK, IsList
        <3>2. DOMAIN disk.jobs # {}
            BY <2>1
        <3>3. jobs' = Recovered(disk.jobs) /\ prev' = disk.jobs /\ disk' = disk
            BY <2>6, <3>2 DEF Restart
        <3>4. DOMAIN Recovered(disk.jobs) = DOMAIN disk.jobs
            BY <3>1, RecoveryFollows
        <3>. QED BY <2>1, <3>3, <3>4
    <2>. QED BY <2>2, <2>3, <2>4, <2>5, <2>6, StepOfLists
<1>. QED BY <1>1, <1>3, <1>4, StepOfSends

-----------------------------------------------------------------------------
(* The inductive invariant, and what follows from it.                      *)

LEMMA InitQueueIInv == Init => QueueIInv
<1> SUFFICES ASSUME Init PROVE QueueIInv
    OBVIOUS
<1>1. /\ \A j \in Jobs : /\ send[j] = "none" /\ source[j] = NoTurn /\ delivery[j] = "off"
                         /\ execs[j] = 0 /\ conts[j] = 0
      /\ \A a \in Agents : worker[a] = NoWork
      /\ DOMAIN jobs = {} /\ DOMAIN prev = {} /\ DOMAIN disk.jobs = {}
      /\ handled = {} /\ disk.handled = {} /\ mut = Nobody /\ absorbed = {}
    BY DEF Init, EmptyQueue
<1>2. TypeOK
    <2>1. handled \subseteq Jobs /\ disk.handled \subseteq Jobs /\ used \subseteq Jobs
          /\ disk.used \subseteq Jobs /\ absorbed \subseteq Jobs /\ phase = "up"
        BY DEF Init
    <2>2. /\ send \in [Jobs -> {"none", "captured", "ready", "accepted", "refused"}]
          /\ target \in [Jobs -> Agents]
          /\ source \in [Jobs -> [kind: {"none", "slack", "job"}, of: Jobs \cup {NoJob}]]
          /\ derived \in [Jobs -> Jobs \cup {NoJob}]
        BY DEF Init, NoTurn
    <2>3. worker \in [Agents -> [pc: WorkerStates, job: Jobs \cup {NoJob},
                              result: {"completed", "failed", "cut"}, resume: SUBSET Jobs]]
        BY DEF Init, NoWork, WorkerStates
    <2>4. delivery \in [Jobs -> DeliveryStates]
        BY DEF Init, DeliveryStates
    <2>5. diskFailures \in 0 .. MaxDiskFailures /\ restarts \in 0 .. MaxRestarts
        BY BoundsAssumption DEF Init
    <2>6. /\ execs \in [Jobs -> Nat] /\ conts \in [Jobs -> Nat]
          /\ shown \in [Jobs -> Nat] /\ told \in [Jobs -> Nat]
        BY DEF Init
    <2>. QED BY <1>1, <2>1, <2>2, <2>3, <2>4, <2>5, <2>6 DEF TypeOK
<1>3. ListsAgree
    <2>1. Joins(jobs) = {} /\ Joins(prev) = {} /\ Joins(disk.jobs) = {}
        BY <1>1 DEF Joins
    <2>2. \A j \in Jobs : Parent(j) # j /\ mut # Sender(j)
        BY <1>1, ActorsDiffer DEF Parent, NoTurn, NoJob, Jobs
    <2>. QED BY <1>1, <2>1, <2>2 DEF ListsAgree, HasParents
<1>4. MessagesAgree
    BY <1>1, ActorsDiffer DEF MessagesAgree, WorkerKnows, NoWork
<1>5. ResultsAgree
    BY <1>1, ActorsDiffer DEF ResultsAgree, DeliveryKnows
<1>6. AcceptedIsListed
    BY <1>1 DEF AcceptedIsListed
<1>. QED BY <1>2, <1>3, <1>4, <1>5, <1>6 DEF QueueIInv

LEMMA QueueIInvKept == QueueIInv /\ [Next]_vars => QueueIInv'
<1> SUFFICES ASSUME QueueIInv, [Next]_vars PROVE QueueIInv'
    OBVIOUS
<1>1. TypeOK /\ ListsAgree /\ MessagesAgree /\ ResultsAgree /\ AcceptedIsListed
    BY DEF QueueIInv
<1>2. CASE Next
    <2>1. TypeOK'
        BY <1>1, <1>2, TypesKept
    <2>2. ListsAgree'
        BY <1>1, <1>2, ListsAgreeKept
    <2>3. MessagesAgree'
        BY <1>1, <1>2, <2>2, MessagesAgreeKept
    <2>4. ResultsAgree'
        BY <1>1, <1>2, <2>2, ResultsAgreeKept
    <2>5. AcceptedIsListed'
        BY <1>1, <1>2, AcceptedIsListedKept
    <2>. QED BY <2>1, <2>2, <2>3, <2>4, <2>5 DEF QueueIInv
<1>3. CASE UNCHANGED vars
    <2>1. TypeOK'
        BY <1>1, <1>3 DEF vars, memory, storage, calls, history, TypeOK
    <2>2. ListsAgree'
        BY <1>1, <1>3 DEF vars, memory, storage, calls, history, ListsAgree, HasParents, Joins,
                          Decided, Parent
    <2>3. MessagesAgree'
        BY <1>1, <1>3 DEF vars, memory, storage, calls, history, MessagesAgree, WorkerKnows,
                          Decided, Ran, RanEverywhere
    <2>4. ResultsAgree'
        BY <1>1, <1>3 DEF vars, memory, storage, calls, history, ResultsAgree, DeliveryKnows,
                          Decided, FencedIn, FencedEverywhere, IsChild, Parent
    <2>5. AcceptedIsListed'
        BY <1>1, <1>3 DEF vars, memory, storage, calls, history, AcceptedIsListed, Arrived, Joins
    <2>. QED BY <2>1, <2>2, <2>3, <2>4, <2>5 DEF QueueIInv
<1>. QED BY <1>2, <1>3

LEMMA QueueIsConsistent == SafetySpec => []QueueIInv
BY InitQueueIInv, QueueIInvKept, PTL DEF SafetySpec

(* Every value the queue keeps, in memory and in state.json, is of the     *)
(* kind its readers expect.                                                *)
THEOREM QueueTypes == SafetySpec => []TypeOK
BY QueueIsConsistent, PTL DEF QueueIInv

(* runtime-service never gives a message or a result to an adapter twice,  *)
(* over any number of crashes, restarts and failed saves.                  *)
THEOREM GivenAtMostOnce == SafetySpec => []AtMostOnce
<1>1. QueueIInv => AtMostOnce
    BY DEF QueueIInv, MessagesAgree, ResultsAgree, AtMostOnce
<1>. QED BY <1>1, QueueIsConsistent, PTL

(* Why: the fence of a message and of a result is in state.json before the *)
(* adapter is called.                                                      *)
THEOREM FencedBeforeGiven == SafetySpec => []FencedOnDisk
<1>1. QueueIInv => FencedOnDisk
    BY DEF QueueIInv, TypeOK, MessagesAgree, ResultsAgree, RanEverywhere, Ran, FencedEverywhere,
           FencedIn, FencedOnDisk
<1>. QED BY <1>1, QueueIsConsistent, PTL

(* agent.send answers "queued" only for what no crash and no failed save   *)
(* of #mutateQueuedDelegations can lose.                                   *)
THEOREM AcceptedStays == SafetySpec => []AcceptedIsDurable
<1>1. QueueIInv => AcceptedIsDurable
    BY DEF QueueIInv, AcceptedIsListed, Arrived, AcceptedIsDurable
<1>. QED BY <1>1, QueueIsConsistent, PTL

(* Gateway.handleDelegationResult is never asked for a result whose id it  *)
(* has recorded, so its silent refusal loses none.                         *)
THEOREM NotMistaken == SafetySpec => []NeverMistakenForHandled
<1>1. QueueIInv => NeverMistakenForHandled
    BY DEF QueueIInv, ResultsAgree, DeliveryKnows, NeverMistakenForHandled
<1>. QED BY <1>1, QueueIsConsistent, PTL
=============================================================================

----------------------------- MODULE ProcessProofs ------------------------------
(***************************************************************************)
(* The gateway as a process, for any values of the constants: its lock     *)
(* file, its workers, the receipts of its restarts, the sections of its    *)
(* state and the rejections it owes. (Its leases are in TurnLeaseProofs.)  *)
(***************************************************************************)
EXTENDS TurnLeaseProofs, StateLock, GatewayProcess, RestartReceipts, RuntimeState,
        SystemRejections

(***************************************************************************)
(* StateLock. A record that is read or removed is of a process that has    *)
(* ended, or of the one that holds the state.                              *)
(***************************************************************************)

Acquiring == {"linking", "exists", "reading", "judging", "unlinking", "closing"}
Owning == {"holding", "releasing", "unlocking"}

(* Only a process that has begun can have written a record.                *)
RecordsAreOfBegun ==
    /\ lockFile \in Procs => at[lockFile] # "new"
    /\ \A p \in Procs : read[p] \in Procs => at[read[p]] # "new"

(* What is about to be removed was written by a process that has ended,    *)
(* and a process that has ended owns nothing.                              *)
RemovedIsOfEnded ==
    \A p \in Procs :
        /\ at[p] = "judging" => read[p] \in Procs
        /\ at[p] = "unlinking" => read[p] \in Procs /\ at[read[p]] = "ended"

AttemptsAreTwo == \A p \in Procs : at[p] \in Acquiring \cup {"new"} => attempt[p] \in 0..1

LockIInv ==
    /\ LockTypeOK /\ RecordsAreOfBegun /\ RemovedIsOfEnded /\ AttemptsAreTwo
    /\ HolderIsOnFile

LEMMA LockHoldsAtFirst == LockInit => LockIInv
<1> SUFFICES ASSUME LockInit PROVE LockIInv
    OBVIOUS
<1> USE NoProcAssumption DEF LockInit
<1>1. LockTypeOK
    <2>1. stale \in [Procs -> BOOLEAN] /\ overtaken \in BOOLEAN
        BY Zenon
    <2>. QED BY <2>1 DEF LockTypeOK, ProcStates
<1>2. RecordsAreOfBegun
    BY DEF RecordsAreOfBegun
<1>3. RemovedIsOfEnded /\ AttemptsAreTwo
    BY DEF RemovedIsOfEnded, AttemptsAreTwo
<1>4. HolderIsOnFile
    BY DEF HolderIsOnFile
<1>. QED BY <1>1, <1>2, <1>3, <1>4 DEF LockIInv

LEMMA LockIsKept == LockIInv /\ [LockNext]_lockVars => LockIInv'
<1> SUFFICES ASSUME LockIInv, [LockNext]_lockVars PROVE LockIInv'
    OBVIOUS
<1> USE NoProcAssumption
    DEF LockIInv, LockTypeOK, ProcStates, RecordsAreOfBegun, RemovedIsOfEnded,
        AttemptsAreTwo, HolderIsOnFile, Acquiring, Go
<1>1. CASE UNCHANGED lockVars
    BY <1>1 DEF lockVars
<1>2. ASSUME NEW p \in Procs, StartAcquire(p) PROVE LockIInv'
    BY <1>2 DEF StartAcquire
<1>3. ASSUME NEW p \in Procs, LinkLock(p) PROVE LockIInv'
    BY <1>3 DEF LinkLock
<1>4. ASSUME NEW p \in Procs, LinkFails(p) PROVE LockIInv'
    BY <1>4 DEF LinkFails
<1>5. ASSUME NEW p \in Procs, OpenRecovery(p) PROVE LockIInv'
    BY <1>5 DEF OpenRecovery
<1>6. ASSUME NEW p \in Procs, RecoveryBusy(p) PROVE LockIInv'
    BY <1>6 DEF RecoveryBusy
<1>7. ASSUME NEW p \in Procs, ReadLock(p) PROVE LockIInv'
    BY <1>7 DEF ReadLock
<1>8. ASSUME NEW p \in Procs, Judge(p) PROVE LockIInv'
    BY <1>8 DEF Judge, IsAlive
<1>9. ASSUME NEW p \in Procs, UnlinkStale(p) PROVE LockIInv'
    BY <1>9 DEF UnlinkStale
<1>10. ASSUME NEW p \in Procs, CloseRecovery(p) PROVE LockIInv'
    BY <1>10 DEF CloseRecovery, AfterRecovery
<1>11. ASSUME NEW p \in Procs, StartRelease(p) PROVE LockIInv'
    BY <1>11 DEF StartRelease
<1>12. ASSUME NEW p \in Procs, ReadOwnLock(p) PROVE LockIInv'
    BY <1>12 DEF ReadOwnLock
<1>13. ASSUME NEW p \in Procs, UnlinkOwn(p) PROVE LockIInv'
    BY <1>13 DEF UnlinkOwn
<1>14. ASSUME NEW p \in Procs, EndRefused(p) PROVE LockIInv'
    BY <1>14 DEF EndRefused
<1>15. ASSUME NEW p \in Procs, Kill(p) PROVE LockIInv'
    BY <1>15 DEF Kill, IsAlive
<1>. QED
    BY <1>1, <1>2, <1>3, <1>4, <1>5, <1>6, <1>7, <1>8, <1>9, <1>10, <1>11, <1>12, <1>13,
       <1>14, <1>15 DEF LockNext, Acquire

(* Unless a recovery has removed a record it had not read, the lock file   *)
(* names the process that believes it holds the state, whatever was        *)
(* killed, recovered and released by however many others.                  *)
THEOREM HolderIsNamed == LockSpec => []HolderIsOnFile
<1>1. LockIInv => HolderIsOnFile
    BY DEF LockIInv
<1>. QED BY <1>1, LockHoldsAtFirst, LockIsKept, PTL DEF LockSpec

(***************************************************************************)
(* GatewayProcess. Workers follow each other, and the last one has the     *)
(* lock until its runtime has ended.                                       *)
(***************************************************************************)

WorkerRecords ==
    [phase : Phases, code : {Clean, Failed, Signalled, GATEWAY_RESTART_EXIT_CODE},
     stop : BOOLEAN, restart : BOOLEAN, closed : BOOLEAN]

GatewayTypes ==
    /\ worker \in [Workers -> WorkerRecords]
    /\ spawned \in 0..MaxWorkers /\ supervisor \in {"none", "watch", "held"}

(* Only the last worker may be alive, and only under its supervisor; from  *)
(* the lock to the end of its runtime it is the owner.                     *)
LastWorkerOnly ==
    /\ \A w \in Workers : Alive(w) => w = spawned /\ supervisor = "watch"
    /\ supervisor # "none" => spawned \in Workers

OwnsItsLock ==
    \A w \in Workers : worker[w].phase \in {"create", "start", "serve", "drain", "stop"} => lockOwner = w

GatewayIInv == GatewayTypes /\ LastWorkerOnly /\ OwnsItsLock

(* Nothing else is alive beside a worker that runs, and it has the lock.   *)
RunsAlone ==
    \A w \in Running : lockOwner = w /\ \A v \in Workers : Alive(v) => v = w

LEMMA NewWorkerIsRecord ==
    /\ NewWorker("boot") \in WorkerRecords /\ NewWorker("boot").phase = "boot"
    /\ MaxWorkers \in Nat
  BY GatewayBoundsAssumption DEF NewWorker, WorkerRecords, Phases, GATEWAY_RESTART_EXIT_CODE

(* One worker changes, and no supervisor: what it needs for the invariant. *)
LEMMA WorkerMoves ==
    ASSUME GatewayIInv, NEW w \in Workers, NEW r \in WorkerRecords,
           worker' = [worker EXCEPT ![w] = r], UNCHANGED <<spawned, supervisor>>,
           r.phase \notin {"unborn", "gone"} => Alive(w),
           r.phase \in {"create", "start", "serve", "drain", "stop"} => lockOwner' = w,
           lockOwner' = lockOwner \/ Alive(w)
    PROVE  GatewayIInv'
<1> USE DEF GatewayIInv
<1>1. worker'[w] = r /\ \A v \in Workers : v # w => worker'[v] = worker[v]
  BY DEF GatewayTypes
<1>2. GatewayTypes'
  BY DEF GatewayTypes
<1>3. LastWorkerOnly'
  BY <1>1 DEF LastWorkerOnly, Alive
<1>4. OwnsItsLock'
  <2>1. ASSUME NEW v \in Workers, v # w, worker[v].phase \in {"create", "start", "serve", "drain", "stop"}
        PROVE  lockOwner' = v
    BY <2>1 DEF OwnsItsLock, LastWorkerOnly, Alive
  <2> QED
    BY <1>1, <2>1 DEF OwnsItsLock
<1> QED
  BY <1>2, <1>3, <1>4

(* The supervisor spawns a worker while none is alive.                     *)
LEMMA SpawnKept ==
    ASSUME GatewayIInv, Spawn, \A w \in Workers : ~Alive(w), supervisor' = "watch", UNCHANGED lockOwner
    PROVE  GatewayIInv'
<1> USE DEF GatewayIInv
<1>1. spawned + 1 \in Workers /\ spawned' = spawned + 1 /\ spawned' \in 0..MaxWorkers
  BY NewWorkerIsRecord DEF Spawn, GatewayTypes, Workers
<1>2. /\ worker' \in [Workers -> WorkerRecords] /\ worker'[spawned + 1].phase = "boot"
      /\ \A v \in Workers : v # spawned + 1 => worker'[v] = worker[v]
  BY <1>1, NewWorkerIsRecord DEF Spawn, GatewayTypes
<1>3. GatewayTypes'
  BY <1>1, <1>2 DEF GatewayTypes
<1>4. LastWorkerOnly'
  BY <1>1, <1>2 DEF LastWorkerOnly, Alive
<1>5. OwnsItsLock'
  BY <1>2 DEF OwnsItsLock, Alive
<1> QED
  BY <1>3, <1>4, <1>5

(* Nothing that the invariant speaks of changes.                           *)
LEMMA WorkersStay ==
    ASSUME GatewayIInv, UNCHANGED <<worker, spawned, lockOwner>>,
           supervisor' = supervisor \/ (supervisor' \in {"none", "held"} /\ supervisor # "none"
                                          /\ \A w \in Workers : ~Alive(w))
    PROVE  GatewayIInv'
  BY DEF GatewayIInv, GatewayTypes, LastWorkerOnly, OwnsItsLock, Alive

LEMMA OneStepOfWorker ==
    ASSUME GatewayIInv, NEW w \in Workers, RunWorker(w) \/ RequestRestart(w) \/ KillWorker(w)
    PROVE  GatewayIInv'
<1> USE DEF WorkerRecords, Phases
<1>1. worker[w] \in WorkerRecords /\ UNCHANGED <<spawned, supervisor>>
  BY DEF GatewayIInv, GatewayTypes, RunWorker, TakeLock, CreateRuntime, StartRuntime, BeginDrain,
     IdleRound,
         DrainCheckpoint, ShutdownRuntime, ExitWorker, RequestRestart, KillWorker, supervisorVars
<1>2. CASE IdleRound(w) /\ UNCHANGED worker
  BY <1>1, <1>2, WorkersStay DEF IdleRound
<1>3. CASE ~(IdleRound(w) /\ UNCHANGED worker)
  <2>1. \E r \in WorkerRecords :
           /\ worker' = [worker EXCEPT ![w] = r]
           /\ r.phase \notin {"unborn", "gone"} => Alive(w)
           /\ r.phase \in {"create", "start", "serve", "drain", "stop"} => lockOwner' = w
           /\ lockOwner' = lockOwner \/ Alive(w)
    <3> DEFINE Good(r) ==
           /\ r \in WorkerRecords /\ worker' = [worker EXCEPT ![w] = r]
           /\ r.phase \notin {"unborn", "gone"} => Alive(w)
           /\ r.phase \in {"create", "start", "serve", "drain", "stop"} => lockOwner' = w
           /\ lockOwner' = lockOwner \/ Alive(w)
    <3> USE <1>1 DEF Alive, Ends, Becomes, Clean, Failed, Signalled, GATEWAY_RESTART_EXIT_CODE
    <3>0. worker[w].phase \in {"create", "start", "serve", "drain", "stop"} => lockOwner = w
      BY DEF GatewayIInv, OwnsItsLock
    <3>1. CASE TakeLock(w)
      <4>1. \/ Good([worker[w] EXCEPT !.phase = "create"])
            \/ Good([worker[w] EXCEPT !.phase = "gone", !.code = Failed])
        BY <3>1 DEF TakeLock
      <4> QED
        BY <4>1
    <3>2. CASE CreateRuntime(w)
      <4>1. \/ Good([worker[w] EXCEPT !.phase = "start"])
            \/ Good([worker[w] EXCEPT !.phase = "gone", !.code = Failed])
        BY <3>0, <3>2 DEF CreateRuntime
      <4> QED
        BY <4>1
    <3>3. CASE StartRuntime(w)
      <4>1. \/ Good([worker[w] EXCEPT !.phase = "serve"])
            \/ Good([worker[w] EXCEPT !.phase = "stop", !.code = Failed])
        BY <3>0, <3>3 DEF StartRuntime
      <4> QED
        BY <4>1
    <3>4. CASE RequestRestart(w)
      <4>1. Good([worker[w] EXCEPT !.restart = TRUE])
        BY <3>0, <3>4 DEF RequestRestart
      <4> QED
        BY <4>1
    <3>5. CASE BeginDrain(w)
      <4>1. Good([worker[w] EXCEPT !.phase = "drain", !.closed = TRUE])
        BY <3>0, <3>5 DEF BeginDrain
      <4> QED
        BY <4>1
    <3>6. CASE IdleRound(w) \/ DrainCheckpoint(w)
      <4>1. Good([worker[w] EXCEPT !.phase = "stop"])
        BY <1>3, <3>0, <3>6 DEF IdleRound, DrainCheckpoint
      <4> QED
        BY <4>1
    <3>7. CASE ShutdownRuntime(w)
      <4>1. worker[w].phase = "stop"
        BY <3>7 DEF ShutdownRuntime
      <4>2. PICK code \in {Clean, Failed, Signalled, GATEWAY_RESTART_EXIT_CODE} :
               worker' = [worker EXCEPT ![w].phase = "exit", ![w].code = code]
        BY <3>7 DEF ShutdownRuntime
      <4>3. Good([worker[w] EXCEPT !.phase = "exit", !.code = code])
        BY <4>1, <4>2
      <4> QED
        BY <4>3
    <3>8. CASE ExitWorker(w)
      <4>1. Good([worker[w] EXCEPT !.phase = "gone"])
        BY <3>8 DEF ExitWorker
      <4> QED
        BY <4>1
    <3>9. CASE KillWorker(w)
      <4>1. Alive(w) /\ lockOwner' = lockOwner /\ Ends(w, Signalled)
        BY <3>9 DEF KillWorker
      <4>2. Good([worker[w] EXCEPT !.phase = "gone", !.code = Signalled])
        BY <4>1
      <4> QED
        BY <4>2
    <3> QED
      BY <3>1, <3>2, <3>3, <3>4, <3>5, <3>6, <3>7, <3>8, <3>9 DEF RunWorker
  <2> QED
    BY <1>1, <2>1, WorkerMoves
<1> QED
  BY <1>2, <1>3

(* A stop or an end of the supervisor from outside.                        *)
LEMMA ServiceStopKept ==
    ASSUME GatewayIInv, ServiceStop
    PROVE  GatewayIInv'
<1>1. UNCHANGED <<spawned, supervisor, lockOwner>> /\ spawned \in Workers /\ worker[spawned] \in WorkerRecords
  BY DEF ServiceStop, GatewayIInv, GatewayTypes, LastWorkerOnly
<1>2. CASE worker' = worker
  BY <1>1, <1>2, WorkersStay
<1>3. CASE Alive(spawned) /\ worker' = [worker EXCEPT ![spawned] = Terminated(spawned)]
  <2> DEFINE r == Terminated(spawned)
  <2>1. r \in WorkerRecords /\ (r.phase = "gone" \/ r.phase = worker[spawned].phase)
    BY <1>1 DEF Terminated, WorkerRecords, Phases
  <2>2. r.phase \in {"create", "start", "serve", "drain", "stop"} => lockOwner = spawned
    BY <1>1, <2>1 DEF GatewayIInv, OwnsItsLock
  <2> HIDE DEF r
  <2> QED
    BY <1>1, <1>3, <2>1, <2>2, WorkerMoves DEF r
<1> QED
  BY <1>2, <1>3 DEF ServiceStop

LEMMA KillSupervisorKept ==
    ASSUME GatewayIInv, KillSupervisor
    PROVE  GatewayIInv'
<1>1. UNCHANGED <<spawned, lockOwner>> /\ supervisor' = "none" /\ spawned \in Workers
      /\ worker[spawned] \in WorkerRecords
  BY DEF KillSupervisor, GatewayIInv, GatewayTypes, LastWorkerOnly
<1>2. worker' \in [Workers -> WorkerRecords]
  BY <1>1 DEF KillSupervisor, GatewayIInv, GatewayTypes, Ends, WorkerRecords, Phases
<1>3. \A w \in Workers : ~Alive(w)'
  <2>1. IF Alive(spawned) THEN Ends(spawned, Signalled) ELSE worker' = worker
    BY DEF KillSupervisor
  <2>2. \A w \in Workers : w # spawned => ~Alive(w) /\ worker'[w] = worker[w]
    BY <2>1 DEF GatewayIInv, GatewayTypes, LastWorkerOnly, Ends
  <2>3. worker'[spawned].phase = "gone" \/ (worker' = worker /\ ~Alive(spawned))
    BY <1>1, <2>1 DEF GatewayIInv, GatewayTypes, Ends, WorkerRecords
  <2> QED
    BY <2>2, <2>3 DEF Alive
<1> QED
  BY <1>1, <1>2, <1>3 DEF GatewayIInv, GatewayTypes, LastWorkerOnly, OwnsItsLock, Alive

LEMMA GatewayIsKept == GatewayIInv /\ [GatewayNext]_gatewayVars => GatewayIInv'
<1> SUFFICES ASSUME GatewayIInv, [GatewayNext]_gatewayVars PROVE GatewayIInv'
  OBVIOUS
<1>1. CASE UNCHANGED gatewayVars
  BY <1>1, WorkersStay DEF gatewayVars
<1>2. CASE ServiceStart \/ Respawn
  <2>1. Spawn /\ supervisor = "none" /\ supervisor' = "watch" /\ UNCHANGED lockOwner
    BY <1>2 DEF ServiceStart, Respawn, SuperviseGatewayWorker
  <2>2. \A w \in Workers : ~Alive(w)
    BY <2>1 DEF GatewayIInv, LastWorkerOnly
  <2> QED
    BY <2>1, <2>2, SpawnKept
<1>3. CASE Supervise
  <2>1. supervisor = "watch" /\ \A w \in Workers : ~Alive(w)
    BY <1>3 DEF Supervise, StoppingChildExit, ReplaceChild, SupervisorEnds, ChildGone, GatewayIInv,
                LastWorkerOnly, Alive
  <2>2. CASE ReplaceChild
    BY <2>1, <2>2, SpawnKept DEF ReplaceChild
  <2>3. CASE StoppingChildExit \/ SupervisorEnds
    BY <2>1, <2>3, WorkersStay DEF StoppingChildExit, SupervisorEnds
  <2> QED
    BY <1>3, <2>2, <2>3 DEF Supervise
<1>4. CASE PollStop
  BY <1>4, WorkersStay DEF PollStop, supervisorVars
<1>5. ASSUME NEW t \in Tasks,
             AcceptMessage(t) \/ AcceptClick(t) \/ StartTurn(t) \/ CallTool(t) \/ FinishPart(t)
      PROVE  GatewayIInv'
  BY <1>5, WorkersStay DEF AcceptMessage, AcceptClick, StartTurn, CallTool, FinishPart, Count,
     supervisorVars
<1> QED
  BY <1>1, <1>2, <1>3, <1>4, <1>5, OneStepOfWorker, ServiceStopKept, KillSupervisorKept DEF GatewayNext

LEMMA GatewayHoldsAtFirst == GatewayInit => GatewayIInv
  BY GatewayBoundsAssumption DEF GatewayInit, GatewayIInv, GatewayTypes, LastWorkerOnly, OwnsItsLock,
     Alive,
     NewWorker, WorkerRecords, Phases, GATEWAY_RESTART_EXIT_CODE

(* For any work, workers and crashes: beside a worker that runs no other   *)
(* process of the gateway is alive, and it holds the lock of the state     *)
(* (supervisor.ts, acquireLock).                                           *)
THEOREM WorkersRunAlone == GatewaySpec => []RunsAlone
<1>1. GatewayIInv => RunsAlone
  BY DEF GatewayIInv, LastWorkerOnly, OwnsItsLock, RunsAlone, Running, Alive
<1> QED
  BY <1>1, GatewayHoldsAtFirst, GatewayIsKept, PTL DEF GatewaySpec

(* ... and it leaves its drain only at a moment when all four components   *)
(* that count accepted work are idle (waitForIdle).                        *)
THEOREM DrainIsComplete == GatewaySpec => DrainedBeforeStop
<1>1. ASSUME GatewayIInv, [GatewayNext]_gatewayVars
      PROVE  [\A w \in Workers :
                 worker[w].phase = "drain" /\ worker'[w].phase = "stop" => AllIdle]_gatewayVars
  <2> SUFFICES ASSUME GatewayNext, NEW w \in Workers, worker[w].phase = "drain",
                      worker'[w].phase = "stop", ~AllIdle
               PROVE  FALSE
    BY <1>1
  <2> USE <1>1 DEF GatewayIInv, GatewayTypes
  <2>0. worker[w] \in WorkerRecords /\ spawned = w /\ supervisor = "watch"
    BY DEF LastWorkerOnly, Alive
  <2>1. CASE ServiceStart \/ Respawn \/ Supervise
    BY <2>0, <2>1 DEF ServiceStart, Respawn, SuperviseGatewayWorker, Supervise, StoppingChildExit,
       ReplaceChild,
                      SupervisorEnds, ChildGone
  <2>2. CASE ServiceStop
    <3>1. Terminated(w).phase # "stop"
      BY <2>0 DEF Terminated, WorkerRecords
    <3> QED
      BY <2>0, <2>2, <3>1 DEF ServiceStop
  <2>3. CASE PollStop
    BY <2>3 DEF PollStop
  <2>4. CASE KillSupervisor
    BY <2>0, <2>4 DEF KillSupervisor, Ends, WorkerRecords
  <2>5. ASSUME NEW v \in Workers, RunWorker(v) \/ RequestRestart(v) \/ KillWorker(v)
        PROVE  FALSE
    <3> USE DEF Becomes, Ends, WorkerRecords
    <3>1. CASE TakeLock(v) \/ CreateRuntime(v) \/ StartRuntime(v)
      BY <2>0, <3>1 DEF TakeLock, CreateRuntime, StartRuntime
    <3>2. CASE BeginDrain(v) \/ IdleRound(v) \/ DrainCheckpoint(v)
      BY <2>0, <3>2 DEF BeginDrain, IdleRound, DrainCheckpoint
    <3>3. CASE ShutdownRuntime(v) \/ ExitWorker(v) \/ RequestRestart(v) \/ KillWorker(v)
      BY <2>0, <3>3 DEF ShutdownRuntime, ExitWorker, RequestRestart, KillWorker
    <3> QED
      BY <2>5, <3>1, <3>2, <3>3 DEF RunWorker
  <2>6. ASSUME NEW t \in Tasks,
               AcceptMessage(t) \/ AcceptClick(t) \/ StartTurn(t) \/ CallTool(t) \/ FinishPart(t)
        PROVE  FALSE
    BY <2>6 DEF AcceptMessage, AcceptClick, StartTurn, CallTool, FinishPart, Count
  <2> QED
    BY <2>1, <2>2, <2>3, <2>4, <2>5, <2>6 DEF GatewayNext
<1> QED
  BY <1>1, GatewayHoldsAtFirst, GatewayIsKept, PTL DEF GatewaySpec, DrainedBeforeStop

(***************************************************************************)
(* RestartReceipts. A restart that went ahead has its receipt on file, and *)
(* memory differs from the file only while one mutation is being saved.    *)
(***************************************************************************)

Once(seq) == \A i, j \in DOMAIN seq : seq[i] = seq[j] => i = j
ReceiptList(seq) == seq \in Seq(RestartKeys) /\ Once(seq)

(* Without a mutation memory is what the file says, and a mutation puts    *)
(* that back; it belongs to the one call that is in it.                    *)
MutationIsOpen ==
    /\ ReceiptList(receipts) /\ ReceiptList(savedReceipts)
    /\ restartCall \in [RestartKeys -> CallStates]
    /\ mutation = NoMutation => receipts = savedReceipts
    /\ mutation # NoMutation =>
          /\ mutation.of \in RestartKeys /\ mutation.previous = savedReceipts
          /\ restartCall[mutation.of] = "consuming" =>
                ToSet(receipts) = ToSet(savedReceipts) \ {mutation.of}
          /\ restartCall[mutation.of] = "recording" =>
                ToSet(receipts) \subseteq ToSet(savedReceipts) \cup {mutation.of}
          /\ restartCall[mutation.of] \in {"consuming", "recording"}

ReceiptIInv ==
    /\ MutationIsOpen /\ acknowledgeable \subseteq ToSet(savedReceipts)
    /\ asks \in [RestartKeys -> Nat]

LEMMA ToSetIs ==
    ASSUME NEW S, NEW s \in Seq(S)
    PROVE  \A x : x \in ToSet(s) <=> \E i \in 1..Len(s) : s[i] = x
  BY DEF ToSet

(* Map.delete, Map.set and the loss of the oldest.                         *)
LEMMA WithoutFacts ==
    ASSUME NEW s, ReceiptList(s), NEW k
    PROVE  ReceiptList(Without(s, k)) /\ \A x : x \in ToSet(Without(s, k)) <=> x \in ToSet(s) /\ x # k
<1>1. s \in Seq(RestartKeys) /\ DOMAIN s = 1..Len(s) /\ Len(s) \in Nat
  BY DEF ReceiptList
<1>2. CASE k \notin ToSet(s)
  BY <1>2 DEF Without
<1>3. CASE k \in ToSet(s)
  <2> DEFINE i == CHOOSE i \in DOMAIN s : s[i] = k
  <2>1. i \in 1..Len(s) /\ s[i] = k
    BY <1>1, <1>3, ToSetIs
  <2>2. Without(s, k) = RemoveAt(s, i)
    BY <1>3 DEF Without
  <2> HIDE DEF i
  <2> DEFINE r == RemoveAt(s, i)
  <2>3. /\ r \in Seq(RestartKeys) /\ Len(r) = Len(s) - 1
        /\ \A j \in 1..(Len(s) - 1) : r[j] = IF j < i THEN s[j] ELSE s[j + 1]
    BY <1>1, <2>1, RemoveAtFacts
  <2> HIDE DEF r
  <2> DEFINE origin(j) == IF j < i THEN j ELSE j + 1
  <2>4. \A j \in 1..Len(r) : origin(j) \in 1..Len(s) /\ origin(j) # i /\ r[j] = s[origin(j)]
    <3> SUFFICES ASSUME NEW j \in 1..Len(r)
                 PROVE  origin(j) \in 1..Len(s) /\ origin(j) # i /\ r[j] = s[origin(j)]
      OBVIOUS
    <3>1. j \in 1..(Len(s) - 1) /\ i \in 1..Len(s) /\ Len(s) \in Nat
      BY <1>1, <2>1, <2>3
    <3>2. origin(j) \in 1..Len(s) /\ origin(j) # i
      BY <3>1
    <3>3. r[j] = s[origin(j)]
      BY <2>3, <3>1
    <3> QED
      BY <3>2, <3>3
  <2>5. \A j, m \in 1..Len(r) : origin(j) = origin(m) => j = m
    BY <1>1, <2>1, <2>3
  <2>6. \A n \in 1..Len(s) : n # i => \E j \in 1..Len(r) : origin(j) = n
    <3> SUFFICES ASSUME NEW n \in 1..Len(s), n # i PROVE \E j \in 1..Len(r) : origin(j) = n
      OBVIOUS
    <3>1. CASE n < i
      BY <1>1, <2>1, <2>3, <3>1
    <3>2. CASE n > i
      <4>1. n - 1 \in 1..Len(r) /\ origin(n - 1) = n
        BY <1>1, <2>1, <2>3, <3>2
      <4> QED
        BY <4>1
    <3> QED
      BY <1>1, <2>1, <3>1, <3>2
  <2> HIDE DEF origin
  <2>7. Once(r)
    <3>1. DOMAIN r = 1..Len(r)
      BY <2>3
    <3> QED
      BY <1>1, <2>4, <2>5, <3>1 DEF ReceiptList, Once
  <2>8. ASSUME NEW x PROVE x \in ToSet(r) <=> x \in ToSet(s) /\ x # k
    <3>1. ASSUME x \in ToSet(r) PROVE x \in ToSet(s) /\ x # k
      <4>1. PICK j \in 1..Len(r) : r[j] = x
        BY <2>3, <3>1, ToSetIs
      <4>2. s[origin(j)] = x /\ origin(j) \in 1..Len(s) /\ origin(j) # i
        BY <2>4, <4>1
      <4> QED
        BY <1>1, <2>1, <4>2, ToSetIs DEF ReceiptList, Once
    <3>2. ASSUME x \in ToSet(s), x # k PROVE x \in ToSet(r)
      <4>1. PICK n \in 1..Len(s) : s[n] = x
        BY <1>1, <3>2, ToSetIs
      <4>2. PICK j \in 1..Len(r) : origin(j) = n
        BY <2>1, <2>6, <3>2, <4>1
      <4>3. r[j] = x
        BY <2>4, <4>1, <4>2
      <4> QED
        BY <2>3, <4>3, ToSetIs
    <3> QED
      BY <3>1, <3>2
  <2> QED
    BY <2>2, <2>3, <2>7, <2>8 DEF ReceiptList, r
<1> QED
  BY <1>2, <1>3

LEMMA AppendFacts ==
    ASSUME NEW s, ReceiptList(s), NEW k \in RestartKeys, k \notin ToSet(s)
    PROVE  ReceiptList(Append(s, k)) /\ \A x : x \in ToSet(Append(s, k)) <=> x \in ToSet(s) \/ x = k
<1> DEFINE a == Append(s, k)
<1>1. s \in Seq(RestartKeys) /\ DOMAIN s = 1..Len(s) /\ Len(s) \in Nat
  BY DEF ReceiptList
<1>2. /\ a \in Seq(RestartKeys) /\ Len(a) = Len(s) + 1 /\ DOMAIN a = 1..Len(a) /\ a[Len(s) + 1] = k
      /\ \A i \in 1..Len(s) : a[i] = s[i]
  BY <1>1
<1> HIDE DEF a
<1>3. \A i \in 1..Len(a) : i = Len(s) + 1 \/ i \in 1..Len(s)
  BY <1>1, <1>2
<1>4. \A i \in 1..Len(s) : s[i] # k
  BY <1>1, ToSetIs
<1>5. Once(a)
  BY <1>1, <1>2, <1>3, <1>4 DEF ReceiptList, Once
<1>6. Len(s) + 1 \in 1..Len(a) /\ \A i \in 1..Len(s) : i \in 1..Len(a)
  BY <1>1, <1>2
<1>7. ASSUME NEW x PROVE x \in ToSet(a) <=> x \in ToSet(s) \/ x = k
  <2>1. x \in ToSet(a) <=> \E i \in 1..Len(a) : a[i] = x
    BY <1>2, ToSetIs
  <2>2. x \in ToSet(s) <=> \E i \in 1..Len(s) : s[i] = x
    BY <1>1, ToSetIs
  <2> QED
    BY <1>2, <1>3, <1>6, <2>1, <2>2
<1> QED
  BY <1>2, <1>5, <1>7 DEF ReceiptList, a

LEMMA TrimFacts ==
    ASSUME NEW s, ReceiptList(s)
    PROVE  ReceiptList(TrimToLimit(s)) /\ ToSet(TrimToLimit(s)) \subseteq ToSet(s)
<1>1. s \in Seq(RestartKeys) /\ DOMAIN s = 1..Len(s) /\ Len(s) \in Nat /\ maxReceipts \in Nat
  BY ReceiptLimitAssumption DEF ReceiptList
<1>2. CASE ~(Len(s) > maxReceipts)
  BY <1>2 DEF TrimToLimit
<1>3. CASE Len(s) > maxReceipts
  <2> DEFINE n == Len(s) - maxReceipts
             t == SubSeq(s, n + 1, Len(s))
  <2>1. n \in Nat /\ n + 1 \in 1..Len(s)
    BY <1>1, <1>3, ReceiptLimitAssumption
  <2>2. TrimToLimit(s) = t
    BY <1>3 DEF TrimToLimit
  <2>3. /\ t \in Seq(RestartKeys) /\ Len(t) = Len(s) - n /\ DOMAIN t = 1..Len(t)
        /\ \A i \in 1..Len(t) : t[i] = s[i + n]
    <3> HIDE DEF n
    <3> QED
      BY <1>1, <2>1
  <2> HIDE DEF t, n
  <2>4. \A i \in 1..Len(t) : i + n \in 1..Len(s)
    BY <1>1, <2>1, <2>3
  <2>5. ASSUME NEW i \in 1..Len(t), NEW j \in 1..Len(t), t[i] = t[j] PROVE i = j
    <3>1. i + n = j + n
      BY <1>1, <2>3, <2>4, <2>5 DEF ReceiptList, Once
    <3> QED
      BY <2>1, <3>1
  <2>6. Once(t)
    BY <2>3, <2>5 DEF Once
  <2>7. ToSet(t) \subseteq ToSet(s)
    BY <1>1, <2>3, <2>4, ToSetIs
  <2> QED
    BY <2>2, <2>3, <2>6, <2>7 DEF ReceiptList
<1> QED
  BY <1>2, <1>3

(* A call that has no mutation goes on.                                    *)
LEMMA CallMoves ==
    ASSUME ReceiptIInv, NEW k \in RestartKeys, NEW to \in CallStates,
           restartCall[k] \notin {"consuming", "recording"}, restartCall' = [restartCall EXCEPT ![k] = to],
           UNCHANGED <<receipts, savedReceipts, mutation>>,
           acknowledgeable' \subseteq acknowledgeable \cup ({k} \cap ToSet(receipts)),
           asks' \in [RestartKeys -> Nat]
    PROVE  ReceiptIInv'
<1> USE DEF ReceiptIInv
<1>1. /\ restartCall' \in [RestartKeys -> CallStates]
      /\ \A j \in RestartKeys : j # k => restartCall'[j] = restartCall[j]
  BY DEF MutationIsOpen
<1>2. mutation # NoMutation => mutation.of # k
  BY DEF MutationIsOpen
<1>3. MutationIsOpen'
  BY <1>1, <1>2 DEF MutationIsOpen
<1>4. {k} \cap ToSet(receipts) \subseteq ToSet(savedReceipts)
  <2> SUFFICES ASSUME k \in ToSet(receipts) PROVE k \in ToSet(savedReceipts)
    OBVIOUS
  <2>1. CASE mutation = NoMutation
    BY <2>1 DEF MutationIsOpen
  <2>2. CASE mutation # NoMutation
    BY <1>2, <2>2 DEF MutationIsOpen
  <2> QED
    BY <2>1, <2>2
<1> QED
  BY <1>3, <1>4

(* A mutation of a call begins.                                            *)
LEMMA MutationBegins ==
    ASSUME ReceiptIInv, NEW k \in RestartKeys, mutation = NoMutation,
           mutation' = [of |-> k, previous |-> receipts],
           NEW to \in {"consuming", "recording"}, restartCall' = [restartCall EXCEPT ![k] = to],
           ReceiptList(receipts)', UNCHANGED <<savedReceipts, acknowledgeable, asks>>,
           to = "consuming" => ToSet(receipts)' = ToSet(receipts) \ {k},
           to = "recording" => ToSet(receipts)' \subseteq ToSet(receipts) \cup {k}
    PROVE  ReceiptIInv'
<1> USE DEF ReceiptIInv
<1>1. restartCall' \in [RestartKeys -> CallStates] /\ restartCall'[k] = to
  BY DEF MutationIsOpen, CallStates
<1>2. receipts = savedReceipts
  BY DEF MutationIsOpen
<1>3. mutation' # NoMutation' /\ mutation'.of = k /\ mutation'.previous = receipts
  BY ReceiptNamesAssumption DEF NoMutation
<1>4. MutationIsOpen'
  BY <1>1, <1>2, <1>3 DEF MutationIsOpen
<1> QED
  BY <1>4

(* It ends: what is in memory is on file, or what was on file in memory.   *)
LEMMA MutationEnds ==
    ASSUME ReceiptIInv, NEW k \in RestartKeys, mutation # NoMutation, mutation.of = k,
           mutation' = NoMutation,
           NEW to \in CallStates, restartCall' = [restartCall EXCEPT ![k] = to], UNCHANGED asks,
           \/ savedReceipts' = receipts /\ receipts' = receipts /\ acknowledgeable' \subseteq ToSet(receipts)
           \/ receipts' = mutation.previous /\ UNCHANGED <<savedReceipts, acknowledgeable>>
    PROVE  ReceiptIInv'
<1> USE DEF ReceiptIInv
<1>1. restartCall' \in [RestartKeys -> CallStates] /\ mutation.previous = savedReceipts
  BY DEF MutationIsOpen
<1>2. receipts' = savedReceipts' /\ ReceiptList(receipts')
  BY <1>1 DEF MutationIsOpen
<1>3. NoMutation' = NoMutation
  BY DEF NoMutation
<1>4. MutationIsOpen'
  BY <1>1, <1>2, <1>3 DEF MutationIsOpen
<1> QED
  BY <1>1, <1>4

LEMMA ReceiptsAreKept == ReceiptIInv /\ [ReceiptNext]_receiptVars => ReceiptIInv'
<1> SUFFICES ASSUME ReceiptIInv, [ReceiptNext]_receiptVars PROVE ReceiptIInv'
  OBVIOUS
<1>0. NoMutation' = NoMutation /\ \A k \in RestartKeys : k # NoMutation.of
  BY ReceiptNamesAssumption DEF NoMutation
<1>1. CASE UNCHANGED receiptVars
  BY <1>1, <1>0 DEF receiptVars, ReceiptIInv, MutationIsOpen
<1>2. CASE NextLife
  <2>1. restartCall' \in [RestartKeys -> CallStates]
    BY <1>2 DEF NextLife, CallStates
  <2> QED
    BY <1>0, <1>2, <2>1 DEF NextLife, ReceiptIInv, MutationIsOpen
<1>3. ASSUME NEW k \in RestartKeys,
             ExecuteGatewayRestart(k) \/ ConsumeNothing(k) \/ AnswerRestart(k) \/ ResponseOver(k)
      PROVE  ReceiptIInv'
  <2>1. \E to \in CallStates : restartCall' = [restartCall EXCEPT ![k] = to]
    BY <1>3 DEF ExecuteGatewayRestart, ConsumeNothing, AnswerRestart, ResponseOver, Advance, CallStates
  <2>2. /\ restartCall[k] \notin {"consuming", "recording"} /\ UNCHANGED <<receipts, savedReceipts, mutation>>
        /\ acknowledgeable' \subseteq acknowledgeable \cup ({k} \cap ToSet(receipts))
        /\ asks' \in [RestartKeys -> Nat]
    BY <1>3 DEF ExecuteGatewayRestart, ConsumeNothing, AnswerRestart, ResponseOver, Advance, ReceiptIInv
  <2> QED
    BY <2>1, <2>2, CallMoves
<1>4. ASSUME NEW k \in RestartKeys, StartConsume(k)
      PROVE  ReceiptIInv'
  <2>1. ReceiptList(receipts')  /\ ToSet(receipts') = ToSet(receipts) \ {k}
    BY <1>4, WithoutFacts DEF StartConsume, ReceiptIInv, MutationIsOpen
  <2> QED
    BY <1>4, <2>1, MutationBegins DEF StartConsume, Advance
<1>5. ASSUME NEW k \in RestartKeys, StartRecord(k)
      PROVE  ReceiptIInv'
  <2> DEFINE others == Without(receipts, k)
  <2>1. ReceiptList(others) /\ k \notin ToSet(others) /\ ToSet(others) \subseteq ToSet(receipts)
    BY WithoutFacts DEF ReceiptIInv, MutationIsOpen
  <2>2. receipts' = TrimToLimit(Append(others, k))
    BY <1>5 DEF StartRecord
  <2> HIDE DEF others
  <2>3. ReceiptList(receipts') /\ ToSet(receipts') \subseteq ToSet(others) \cup {k}
    BY <2>1, <2>2, AppendFacts, TrimFacts
  <2> QED
    BY <1>5, <2>1, <2>3, MutationBegins DEF StartRecord, Advance
<1>6. ASSUME NEW k \in RestartKeys, FinishConsume(k) \/ FinishRecord(k)
      PROVE  ReceiptIInv'
  <2>1. mutation # NoMutation /\ mutation.of = k
    BY <1>0, <1>6 DEF FinishConsume, FinishRecord
  <2>2. restartCall[k] = "consuming" => ToSet(receipts) = ToSet(savedReceipts) \ {k}
    BY <2>1 DEF ReceiptIInv, MutationIsOpen
  <2>3. \/ savedReceipts' = receipts /\ receipts' = receipts /\ acknowledgeable' \subseteq ToSet(receipts)
        \/ receipts' = mutation.previous /\ UNCHANGED <<savedReceipts, acknowledgeable>>
    BY <1>6, <2>2 DEF FinishConsume, FinishRecord, Advance, ReceiptIInv
  <2>4. \E to \in CallStates : restartCall' = [restartCall EXCEPT ![k] = to]
    BY <1>6 DEF FinishConsume, FinishRecord, Advance, CallStates
  <2>5. mutation' = NoMutation /\ UNCHANGED asks
    BY <1>6 DEF FinishConsume, FinishRecord
  <2> QED
    BY <2>1, <2>3, <2>4, <2>5, MutationEnds
<1>7. ASSUME NEW k \in RestartKeys, Expire(k)
      PROVE  ReceiptIInv'
  <2>1. receipts = savedReceipts /\ mutation = NoMutation /\ ReceiptList(receipts)
    BY <1>7 DEF Expire, ReceiptIInv, MutationIsOpen
  <2>2. /\ receipts' = Without(receipts, k) /\ savedReceipts' = receipts'
        /\ acknowledgeable' = acknowledgeable \ {k} /\ UNCHANGED <<restartCall, mutation, asks>>
    BY <1>7, <2>1 DEF Expire
  <2>3. ReceiptList(receipts') /\ ToSet(receipts') = ToSet(receipts) \ {k}
    BY <2>1, <2>2, WithoutFacts
  <2> QED
    BY <1>0, <2>1, <2>2, <2>3 DEF ReceiptIInv, MutationIsOpen
<1> QED
  BY <1>1, <1>2, <1>3, <1>4, <1>5, <1>6, <1>7 DEF ReceiptNext

LEMMA ReceiptsHoldAtFirst == ReceiptInit => ReceiptIInv
<1> SUFFICES ASSUME ReceiptInit PROVE ReceiptIInv
  OBVIOUS
<1>1. <<>> \in Seq(RestartKeys) /\ DOMAIN <<>> = {}
  OBVIOUS
<1> QED
  BY <1>1 DEF ReceiptInit, ReceiptIInv, MutationIsOpen, ReceiptList, Once, CallStates

(* For any calls, receipts and processes: a restart that went ahead is not *)
(* shown to a human again while nothing has used up its receipt, whichever *)
(* save failed and wherever a process died (record, consume).              *)
THEOREM ReplaysAreRecognized == ReceiptSpec => ReplayIsNotAskedAgain
<1>1. ASSUME ReceiptIInv, [ReceiptNext]_receiptVars
      PROVE  [\A k \in acknowledgeable : asks'[k] = asks[k]]_receiptVars
  <2> SUFFICES ASSUME ReceiptNext, NEW k \in acknowledgeable PROVE asks'[k] = asks[k]
    BY <1>1
  <2>1. ASSUME NEW j \in RestartKeys, ConsumeNothing(j) PROVE asks'[k] = asks[k]
    <3>1. j # k
      BY <1>1, <2>1 DEF ConsumeNothing, ReceiptIInv, MutationIsOpen
    <3>2. savedReceipts \in Seq(RestartKeys) /\ k \in ToSet(savedReceipts) /\ asks \in [RestartKeys -> Nat]
      BY <1>1 DEF ReceiptIInv, MutationIsOpen, ReceiptList
    <3>3. k \in RestartKeys
      BY <3>2, ToSetIs
    <3> QED
      BY <2>1, <3>1, <3>2, <3>3 DEF ConsumeNothing
  <2> QED
    BY <2>1 DEF ReceiptNext, ExecuteGatewayRestart, StartConsume, FinishConsume, AnswerRestart,
       StartRecord,
                FinishRecord, ResponseOver, Expire, NextLife
<1> QED
  BY <1>1, ReceiptsHoldAtFirst, ReceiptsAreKept, PTL DEF ReceiptSpec, ReplayIsNotAskedAgain

(***************************************************************************)
(* RuntimeState. Memory, the file and every write between them agree with  *)
(* what the callers were told.                                             *)
(***************************************************************************)

Writes == [by : Mutations \cup {Nobody}, contents : Contents, previous : Contents]

Undone == startup \in {"undoing", "undone"}
Kept(section) == {m \in section : answered[m] = "saved"}
InPlay(section) == Kept(section) \cup ({changing} \cap section)
Agreed == {loadedState.generation} \cup {target[p] : p \in Kept(Puts)}

StateTypes ==
    /\ sections \in Contents /\ stateFile \in Contents /\ loadedState \in Contents
    /\ mutationQueue \in Seq(Mutations) /\ changing \in Mutations \cup {Nobody}
    /\ writeQueue \in Seq(Writes)
    /\ answered \in [Mutations -> {"idle", "queued", "saved", "refused"}]
    /\ target \in [Puts -> Generation]

(* A change waits once, is not the one that saves, and is told once.       *)
MutationsWaitOnce ==
    /\ \A i \in 1..Len(mutationQueue) :
          /\ answered[mutationQueue[i]] = "queued" /\ mutationQueue[i] # changing
          /\ \A j \in 1..Len(mutationQueue) : mutationQueue[i] = mutationQueue[j] => i = j
    /\ changing # Nobody => answered[changing] = "queued"
    /\ \A p \in Puts : answered[p] = "idle" => target[p] = loadedState.generation

(* Memory has what was saved, and the change that is being saved.          *)
MemoryAgrees ==
    /\ sections.cards = InPlay(Cards) /\ sections.receipts = InPlay(Receipts)
    /\ \A m \in CoreChanges : answered[m] # "idle" => m \in sections.core
    /\ sections.generation \in IF changing \in Puts THEN {target[changing]} ELSE Agreed

(* A write of the queue carries what memory had, and what to put back.     *)
WriteAgrees(w) ==
    IF w.by = Nobody
      THEN Undone /\ w.contents = loadedState
      ELSE /\ w.by = changing
           /\ w.contents.cards = InPlay(Cards) /\ w.contents.receipts = InPlay(Receipts)
           /\ InPlay(CoreChanges) \subseteq w.contents.core
           /\ w.contents.generation \in IF changing \in Puts THEN {target[changing]} ELSE Agreed
           /\ w.previous.cards = Kept(Cards) /\ w.previous.receipts = Kept(Receipts)
           /\ w.previous.generation \in Agreed

WritesAgree ==
    \A i \in 1..Len(writeQueue) :
       /\ WriteAgrees(writeQueue[i])
       /\ \A j \in 1..Len(writeQueue) :
             writeQueue[i].by # Nobody /\ writeQueue[j].by # Nobody => i = j

(* The file has what was saved, unless the start has been undone.          *)
FileAgrees ==
    /\ loadedState.cards = {} /\ loadedState.receipts = {}
    /\ stateFile.cards \subseteq Kept(Cards) /\ stateFile.receipts \subseteq Kept(Receipts)
    /\ stateFile.generation \in Agreed
    /\ ~Undone => /\ Kept(Cards) \subseteq stateFile.cards
                  /\ Kept(Receipts) \subseteq stateFile.receipts
                  /\ Kept(CoreChanges) \subseteq stateFile.core

RuntimeIInv == StateTypes /\ MutationsWaitOnce /\ MemoryAgrees /\ WritesAgree /\ FileAgrees

-----------------------------------------------------------------------------

LEMMA RuntimeHoldsAtFirst == RuntimeInit => RuntimeIInv
<1> SUFFICES ASSUME RuntimeInit PROVE RuntimeIInv
    OBVIOUS
<1> USE RuntimeAssumption DEF RuntimeInit
<1>1. PICK p \in Policies :
          sections = [cards |-> {}, receipts |-> {}, core |-> {},
                      generation |-> [policy |-> p, revision |-> 1]]
    OBVIOUS
<1>2. StateTypes
    BY <1>1 DEF StateTypes, Contents, Generation, Mutations, Changes
<1>4. changing \notin Mutations
    OBVIOUS
<1>5. MutationsWaitOnce
    BY DEF MutationsWaitOnce
<1>6. MemoryAgrees
    BY <1>1, <1>4 DEF MemoryAgrees, InPlay, Kept, Agreed, Mutations, Changes
<1>7. WritesAgree
    BY DEF WritesAgree
<1>8. FileAgrees
    BY <1>1 DEF FileAgrees, Kept, Agreed, Mutations, Changes, Undone
<1>. QED BY <1>2, <1>5, <1>6, <1>7, <1>8 DEF RuntimeIInv

LEMMA EnqueueKeeps ==
    ASSUME RuntimeIInv, NEW m \in Mutations, answered[m] = "idle", Enqueue(m)
    PROVE  /\ mutationQueue' \in Seq(Mutations)
           /\ answered' \in [Mutations -> {"idle", "queued", "saved", "refused"}]
           /\ \A n \in Mutations : answered'[n] = IF n = m THEN "queued" ELSE answered[n]
           /\ \A i \in 1..Len(mutationQueue') :
                 /\ answered'[mutationQueue'[i]] = "queued"
                 /\ mutationQueue'[i] # changing
                 /\ \A j \in 1..Len(mutationQueue') :
                       mutationQueue'[i] = mutationQueue'[j] => i = j
<1> USE DEF RuntimeIInv, StateTypes, MutationsWaitOnce, Enqueue
<1>1. /\ mutationQueue' \in Seq(Mutations) /\ Len(mutationQueue') = Len(mutationQueue) + 1
      /\ \A i \in 1..Len(mutationQueue) : mutationQueue'[i] = mutationQueue[i]
      /\ mutationQueue'[Len(mutationQueue) + 1] = m
    BY AppendProperties
<1>2. \A n \in Mutations : answered'[n] = IF n = m THEN "queued" ELSE answered[n]
    OBVIOUS
<1>3. \A i \in 1..Len(mutationQueue) : mutationQueue[i] \in Mutations /\ mutationQueue[i] # m
    OBVIOUS
<1>4. Len(mutationQueue) \in Nat
    OBVIOUS
<1>5. m # changing
    BY RuntimeAssumption
<1>. QED BY <1>1, <1>2, <1>3, <1>4, <1>5

(* A step that tells no change "saved" and keeps memory, file and writes.  *)
LEMMA WaitingKeeps ==
    ASSUME RuntimeIInv,
           \A n \in Mutations : answered'[n] = "saved" <=> answered[n] = "saved",
           \A n \in CoreChanges : answered[n] = "idle" /\ answered'[n] # "idle" => n \in sections'.core,
           sections \in Contents, sections' = [sections EXCEPT !.core = sections'.core],
           sections.core \subseteq sections'.core,
           UNCHANGED <<stateFile, loadedState, changing, writeQueue>>, Undone' = Undone,
           \A p \in Puts : answered[p] # "idle" => target'[p] = target[p]
    PROVE  MemoryAgrees' /\ WritesAgree' /\ FileAgrees'
<1> USE RuntimeAssumption DEF RuntimeIInv, Mutations, Changes
<1>1. /\ Kept(Cards)' = Kept(Cards) /\ Kept(Receipts)' = Kept(Receipts)
      /\ Kept(CoreChanges)' = Kept(CoreChanges) /\ Kept(Puts)' = Kept(Puts)
    BY DEF Kept
<1>2. /\ InPlay(Cards)' = InPlay(Cards) /\ InPlay(Receipts)' = InPlay(Receipts)
      /\ InPlay(CoreChanges)' = InPlay(CoreChanges)
    BY <1>1 DEF InPlay
<1>3. Agreed' = Agreed
    <2>1. \A p \in Kept(Puts) : target'[p] = target[p]
        BY DEF Kept
    <2>. QED BY <1>1, <2>1 DEF Agreed
<1>4. changing \in Puts => target'[changing] = target[changing]
    BY DEF MutationsWaitOnce
<1>5. /\ sections'.cards = sections.cards /\ sections'.receipts = sections.receipts
      /\ sections'.generation = sections.generation
    BY DEF Contents
<1>6. MemoryAgrees'
    BY <1>2, <1>3, <1>4, <1>5 DEF MemoryAgrees
<1>7. \A i \in 1..Len(writeQueue) : WriteAgrees(writeQueue[i])'
    BY <1>1, <1>2, <1>3, <1>4 DEF WritesAgree, WriteAgrees
<1>8. WritesAgree'
    BY <1>7 DEF WritesAgree
<1>9. FileAgrees'
    BY <1>1, <1>3 DEF FileAgrees
<1>. QED BY <1>6, <1>8, <1>9

LEMMA ChangeSectionAgrees ==
    ASSUME RuntimeIInv, NEW m \in Cards \cup Receipts, ChangeSection(m)
    PROVE  RuntimeIInv'
<1> USE RuntimeAssumption DEF ChangeSection
<1>1. m \in Mutations
    BY DEF Mutations, Changes
<1>2. /\ StateTypes' /\ MutationsWaitOnce'
      /\ \A n \in Mutations : answered'[n] = IF n = m THEN "queued" ELSE answered[n]
    BY <1>1, EnqueueKeeps DEF RuntimeIInv, StateTypes, MutationsWaitOnce, Mutations
<1>3. MemoryAgrees' /\ WritesAgree' /\ FileAgrees'
    <2>1. sections \in Contents /\ sections' = [sections EXCEPT !.core = sections'.core]
        BY DEF RuntimeIInv, StateTypes, Contents
    <2>. QED BY <1>1, <1>2, <2>1, WaitingKeeps DEF Undone, Mutations, Changes
<1>. QED BY <1>2, <1>3 DEF RuntimeIInv

LEMMA ChangeCoreAgrees ==
    ASSUME RuntimeIInv, NEW m \in CoreChanges, ChangeCore(m)
    PROVE  RuntimeIInv'
<1> USE RuntimeAssumption DEF ChangeCore
<1>1. m \in Mutations
    BY DEF Mutations, Changes
<1>2. /\ MutationsWaitOnce'
      /\ mutationQueue' \in Seq(Mutations)
      /\ answered' \in [Mutations -> {"idle", "queued", "saved", "refused"}]
      /\ \A n \in Mutations : answered'[n] = IF n = m THEN "queued" ELSE answered[n]
    BY <1>1, EnqueueKeeps DEF RuntimeIInv, StateTypes, MutationsWaitOnce, Mutations
<1>3. /\ sections \in Contents /\ sections' \in Contents
      /\ sections' = [sections EXCEPT !.core = sections'.core]
      /\ sections'.core = sections.core \cup {m}
    BY DEF RuntimeIInv, StateTypes, Contents
<1>4. StateTypes'
    BY <1>2, <1>3 DEF RuntimeIInv, StateTypes
<1>5. MemoryAgrees' /\ WritesAgree' /\ FileAgrees'
    BY <1>1, <1>2, <1>3, WaitingKeeps DEF Undone, Mutations, Changes
<1>. QED BY <1>2, <1>4, <1>5 DEF RuntimeIInv

LEMMA ApplySettingsAgrees ==
    ASSUME RuntimeIInv, NEW m \in Puts, NEW policy \in Policies, ApplySettings(m, policy)
    PROVE  RuntimeIInv'
<1> DEFINE next == Reconciled(policy, sections.generation)
<1> USE RuntimeAssumption DEF ApplySettings
<1>1. m \in Mutations /\ answered[m] = "idle"
    BY DEF Mutations
<1>2. next \in Generation /\ sections.generation \in Generation
    BY DEF RuntimeIInv, StateTypes, Contents, Generation, Reconciled
<1>3. /\ target' \in [Puts -> Generation]
      /\ \A p \in Puts : target'[p] = IF p = m THEN next ELSE target[p]
    BY <1>2 DEF RuntimeIInv, StateTypes
<1>4. sections \in Contents /\ sections' = [sections EXCEPT !.core = sections'.core]
    BY DEF RuntimeIInv, StateTypes, Contents
<1>5. CASE next # sections.generation
    <2>1. Enqueue(m)
        BY <1>5
    <2>2. /\ StateTypes' /\ MutationsWaitOnce'
          /\ \A n \in Mutations : answered'[n] = IF n = m THEN "queued" ELSE answered[n]
        BY <1>1, <1>3, <2>1, EnqueueKeeps
           DEF RuntimeIInv, StateTypes, MutationsWaitOnce, Mutations
    <2>3. MemoryAgrees' /\ WritesAgree' /\ FileAgrees'
        BY <1>1, <1>3, <1>4, <2>2, WaitingKeeps DEF Undone, Mutations, Changes
    <2>. QED BY <2>2, <2>3 DEF RuntimeIInv
<1>6. CASE next = sections.generation
    <2>1. \A n \in Mutations : answered'[n] = IF n = m THEN "saved" ELSE answered[n]
        BY <1>1, <1>6 DEF RuntimeIInv, StateTypes
    <2>2. StateTypes'
        BY <1>3, <1>6 DEF RuntimeIInv, StateTypes
    <2>3. changing # m
        BY <1>1 DEF RuntimeIInv, MutationsWaitOnce
    <2>4. MutationsWaitOnce'
        BY <1>1, <1>3, <1>6, <2>1, <2>3
           DEF RuntimeIInv, StateTypes, MutationsWaitOnce, Mutations
    <2>5. /\ Kept(Cards)' = Kept(Cards) /\ Kept(Receipts)' = Kept(Receipts)
          /\ Kept(CoreChanges)' = Kept(CoreChanges) /\ Kept(Puts)' = Kept(Puts) \cup {m}
        BY <1>1, <2>1 DEF Kept, Mutations, Changes
    <2>6. /\ InPlay(Cards)' = InPlay(Cards) /\ InPlay(Receipts)' = InPlay(Receipts)
          /\ InPlay(CoreChanges)' = InPlay(CoreChanges)
        BY <1>6, <2>5 DEF InPlay
    <2>7. \A p \in Kept(Puts) : p # m
        BY <1>1 DEF Kept
    <2>8. Agreed \subseteq Agreed'
        BY <1>3, <1>6, <2>5, <2>7 DEF Agreed, Kept
    <2>9. changing \in Puts => target'[changing] = target[changing]
        BY <1>3, <2>3
    <2>10. MemoryAgrees'
        BY <1>6, <2>1, <2>6, <2>8, <2>9 DEF RuntimeIInv, MemoryAgrees, Mutations, Changes
    <2>11. \A i \in 1..Len(writeQueue) : WriteAgrees(writeQueue[i])'
        BY <1>6, <2>5, <2>6, <2>8, <2>9 DEF RuntimeIInv, WritesAgree, WriteAgrees, Undone
    <2>12. WritesAgree'
        BY <1>6, <2>11 DEF RuntimeIInv, WritesAgree
    <2>13. FileAgrees'
        BY <1>6, <2>5, <2>8 DEF RuntimeIInv, FileAgrees, Undone
    <2>. QED BY <2>2, <2>4, <2>10, <2>12, <2>13 DEF RuntimeIInv
<1>. QED BY <1>5, <1>6

(* What the operation of a change does to the sections.                    *)
LEMMA ChangedSections ==
    ASSUME RuntimeIInv, NEW m \in Mutations
    PROVE  /\ Changed(m) \in Contents
           /\ Changed(m).cards = IF m \in Cards THEN sections.cards \cup {m} ELSE sections.cards
           /\ Changed(m).receipts =
                 IF m \in Receipts THEN sections.receipts \cup {m} ELSE sections.receipts
           /\ Changed(m).core = sections.core
           /\ Changed(m).generation = IF m \in Puts THEN target[m] ELSE sections.generation
<1> USE RuntimeAssumption DEF RuntimeIInv, StateTypes, Contents, Mutations, Changes
<1>1. CASE m \in Cards
    BY <1>1 DEF Changed
<1>2. CASE m \in Receipts
    BY <1>2 DEF Changed
<1>3. CASE m \in CoreChanges
    BY <1>3 DEF Changed
<1>4. CASE m \in Puts
    BY <1>4 DEF Changed
<1>. QED BY <1>1, <1>2, <1>3, <1>4

LEMMA PutBackSections ==
    ASSUME RuntimeIInv, NEW m \in Mutations, NEW previous \in Contents
    PROVE  /\ PutBack(m, previous) \in Contents
           /\ PutBack(m, previous).cards = IF m \in Cards THEN previous.cards ELSE sections.cards
           /\ PutBack(m, previous).receipts =
                 IF m \in Receipts THEN previous.receipts ELSE sections.receipts
           /\ PutBack(m, previous).core = sections.core
           /\ PutBack(m, previous).generation =
                 IF m \in Puts THEN previous.generation ELSE sections.generation
<1> USE RuntimeAssumption DEF RuntimeIInv, StateTypes, Contents, Mutations, Changes
<1>1. CASE m \in Cards
    BY <1>1 DEF PutBack
<1>2. CASE m \in Receipts
    BY <1>2 DEF PutBack
<1>3. CASE m \in CoreChanges
    BY <1>3 DEF PutBack
<1>4. CASE m \in Puts
    BY <1>4 DEF PutBack
<1>. QED BY <1>1, <1>2, <1>3, <1>4

(* The write of a change joins a queue that has at most the state of the   *)
(* start: nothing else is being saved.                                     *)
LEMMA BeginSaveAgrees ==
    ASSUME RuntimeIInv, BeginSave
    PROVE  RuntimeIInv'
<1> USE RuntimeAssumption
<1>0. PICK m \in Mutations : m = Head(mutationQueue)
    BY HeadTailProperties DEF BeginSave, RuntimeIInv, StateTypes
<1>1. /\ changing = Nobody /\ mutationQueue # <<>> /\ mutationQueue' = Tail(mutationQueue)
      /\ sections' = Changed(m) /\ changing' = m
      /\ UNCHANGED <<stateFile, loadedState, answered, target, adopted, startup, writesLost>>
    BY <1>0 DEF BeginSave, MayBegin
<1>2. /\ m = mutationQueue[1] /\ mutationQueue' \in Seq(Mutations)
      /\ Len(mutationQueue') = Len(mutationQueue) - 1 /\ Len(mutationQueue) \in Nat \ {0}
      /\ \A i \in 1..Len(mutationQueue') : mutationQueue'[i] = mutationQueue[i + 1]
    BY <1>0, <1>1, HeadTailProperties DEF RuntimeIInv, StateTypes
<1>3. PICK w \in Writes :
          w = [by |-> m, contents |-> sections', previous |-> sections]
    BY <1>1, ChangedSections DEF Writes, RuntimeIInv, StateTypes
<1>4. /\ writeQueue' = Append(writeQueue, w) /\ writeQueue' \in Seq(Writes) /\ Len(writeQueue') = Len(writeQueue) + 1
      /\ \A i \in 1..Len(writeQueue) : writeQueue'[i] = writeQueue[i]
      /\ writeQueue'[Len(writeQueue) + 1] = w /\ Len(writeQueue) \in Nat
    BY <1>0, <1>3, AppendProperties DEF BeginSave, RuntimeIInv, StateTypes
<1>5. StateTypes'
    BY <1>1, <1>2, <1>4, ChangedSections DEF RuntimeIInv, StateTypes
<1>6. answered[m] = "queued" /\ m # Nobody
    BY <1>2 DEF RuntimeIInv, MutationsWaitOnce
<1>7. MutationsWaitOnce'
    <2>1. \A i \in 1..Len(mutationQueue') :
              /\ i + 1 \in 1..Len(mutationQueue) /\ i + 1 # 1 /\ 1 \in 1..Len(mutationQueue)
              /\ mutationQueue'[i] # m
        BY <1>2 DEF RuntimeIInv, MutationsWaitOnce
    <2>2. \A i, j \in 1..Len(mutationQueue') : mutationQueue'[i] = mutationQueue'[j] => i = j
        BY <1>2, <2>1 DEF RuntimeIInv, MutationsWaitOnce
    <2>. QED BY <1>1, <1>2, <1>6, <2>1, <2>2 DEF RuntimeIInv, MutationsWaitOnce
<1>8. /\ Kept(Cards)' = Kept(Cards) /\ Kept(Receipts)' = Kept(Receipts)
      /\ Kept(CoreChanges)' = Kept(CoreChanges) /\ Agreed' = Agreed
    BY <1>1 DEF Kept, Agreed
<1>9. /\ InPlay(Cards) = Kept(Cards) /\ InPlay(Cards)' = Kept(Cards) \cup ({m} \cap Cards)
      /\ InPlay(Receipts) = Kept(Receipts)
      /\ InPlay(Receipts)' = Kept(Receipts) \cup ({m} \cap Receipts)
      /\ InPlay(CoreChanges)' = Kept(CoreChanges) \cup ({m} \cap CoreChanges)
    BY <1>1, <1>8 DEF InPlay, Mutations, Changes
<1>10. /\ sections'.cards = InPlay(Cards)' /\ sections'.receipts = InPlay(Receipts)'
       /\ sections'.core = sections.core
       /\ sections'.generation \in IF m \in Puts THEN {target[m]} ELSE Agreed
    <2>1. sections.cards = InPlay(Cards) /\ sections.receipts = InPlay(Receipts)
        BY DEF RuntimeIInv, MemoryAgrees
    <2>2. sections.generation \in Agreed
        BY <1>1 DEF RuntimeIInv, MemoryAgrees, Mutations
    <2>3. /\ sections'.cards = IF m \in Cards THEN sections.cards \cup {m} ELSE sections.cards
          /\ sections'.receipts =
                IF m \in Receipts THEN sections.receipts \cup {m} ELSE sections.receipts
          /\ sections'.core = sections.core
          /\ sections'.generation = IF m \in Puts THEN target[m] ELSE sections.generation
        BY <1>1, ChangedSections
    <2>4. sections'.cards = InPlay(Cards)'
        BY <1>9, <2>1, <2>3
    <2>5. sections'.receipts = InPlay(Receipts)'
        BY <1>9, <2>1, <2>3
    <2>. QED BY <2>2, <2>3, <2>4, <2>5
<1>11. MemoryAgrees'
    BY <1>1, <1>8, <1>10 DEF RuntimeIInv, MemoryAgrees
<1>12. InPlay(CoreChanges)' \subseteq sections'.core
    BY <1>6, <1>9, <1>10 DEF RuntimeIInv, MemoryAgrees, Kept
<1>13. WritesAgree'
    <2>1. \A i \in 1..Len(writeQueue) : writeQueue[i].by = Nobody /\ WriteAgrees(writeQueue[i])
        BY <1>1 DEF RuntimeIInv, WritesAgree, WriteAgrees
    <2>2. \A v \in Writes : v.by = Nobody /\ WriteAgrees(v) => WriteAgrees(v)'
        BY <1>1 DEF WriteAgrees, Undone
    <2>3. WriteAgrees(w)'
        <3>1. sections.cards = Kept(Cards) /\ sections.receipts = Kept(Receipts)
            BY <1>9 DEF RuntimeIInv, MemoryAgrees
        <3>2. sections.generation \in Agreed
            BY <1>1 DEF RuntimeIInv, MemoryAgrees, Mutations
        <3>3. w.by = m /\ w.contents = sections' /\ w.previous = sections
            BY <1>3
        <3>. QED BY <1>1, <1>6, <1>8, <1>10, <1>12, <3>1, <3>2, <3>3 DEF WriteAgrees
    <2>4. \A i \in 1..Len(writeQueue) : writeQueue[i] \in Writes
        BY DEF RuntimeIInv, StateTypes
    <2>. QED BY <1>4, <2>1, <2>2, <2>3, <2>4 DEF WritesAgree
<1>14. FileAgrees'
    BY <1>1, <1>8 DEF RuntimeIInv, FileAgrees, Undone
<1>. QED BY <1>5, <1>7, <1>11, <1>13, <1>14 DEF RuntimeIInv

LEMMA StartAgrees ==
    ASSUME RuntimeIInv, StartSucceeds \/ StartFails
    PROVE  RuntimeIInv'
<1> USE RuntimeAssumption
<1>1. /\ UNCHANGED <<sections, stateFile, loadedState, mutationQueue, changing, answered, target>>
      /\ ~Undone
    BY DEF StartSucceeds, StartFails, Undone
<1>2. MutationsWaitOnce' /\ MemoryAgrees'
    BY <1>1 DEF RuntimeIInv, MutationsWaitOnce, MemoryAgrees, InPlay, Kept, Agreed
<1>3. FileAgrees'
    BY <1>1 DEF RuntimeIInv, FileAgrees, Kept, Agreed
<1>4. /\ Kept(Cards)' = Kept(Cards) /\ Kept(Receipts)' = Kept(Receipts) /\ Agreed' = Agreed
      /\ InPlay(Cards)' = InPlay(Cards) /\ InPlay(Receipts)' = InPlay(Receipts)
      /\ InPlay(CoreChanges)' = InPlay(CoreChanges)
    BY <1>1 DEF InPlay, Kept, Agreed
<1>5. \A i \in 1..Len(writeQueue) : writeQueue[i].by # Nobody
    BY <1>1 DEF RuntimeIInv, WritesAgree, WriteAgrees
<1>8. \A v \in Writes : v.by # Nobody /\ WriteAgrees(v) => WriteAgrees(v)'
    BY <1>1, <1>4 DEF WriteAgrees
<1>9. \A i \in 1..Len(writeQueue) : writeQueue[i] \in Writes
    BY DEF RuntimeIInv, StateTypes
<1>6. CASE StartSucceeds
    <2>1. writeQueue' = writeQueue
        BY <1>6 DEF StartSucceeds
    <2>. QED BY <1>1, <1>2, <1>3, <1>5, <1>8, <1>9, <2>1 DEF RuntimeIInv, StateTypes, WritesAgree
<1>7. CASE StartFails
    <2>1. PICK w \in Writes :
              w = [by |-> Nobody, contents |-> loadedState, previous |-> sections]
        BY DEF Writes, RuntimeIInv, StateTypes
    <2>2. writeQueue' = Append(writeQueue, w) /\ Undone'
        BY <1>7, <2>1 DEF StartFails, Undone
    <2>3. /\ writeQueue' \in Seq(Writes) /\ Len(writeQueue') = Len(writeQueue) + 1
          /\ \A i \in 1..Len(writeQueue) : writeQueue'[i] = writeQueue[i]
          /\ writeQueue'[Len(writeQueue) + 1] = w /\ Len(writeQueue) \in Nat
        BY <2>2, AppendProperties DEF RuntimeIInv, StateTypes
    <2>4. WriteAgrees(w)'
        BY <1>1, <2>1, <2>2 DEF WriteAgrees
    <2>5. WritesAgree'
        BY <1>5, <1>8, <1>9, <2>1, <2>3, <2>4 DEF RuntimeIInv, WritesAgree
    <2>. QED BY <1>1, <1>2, <1>3, <2>3, <2>5 DEF RuntimeIInv, StateTypes
<1>. QED BY <1>6, <1>7

(* What a write that ends leaves of the queue.                             *)
LEMMA WritesLeft ==
    ASSUME RuntimeIInv, writeQueue # <<>>, writeQueue' = Tail(writeQueue)
    PROVE  /\ Head(writeQueue) \in Writes /\ WriteAgrees(Head(writeQueue))
           /\ writeQueue' \in Seq(Writes)
           /\ \A i \in 1..Len(writeQueue') :
                 /\ writeQueue'[i] \in Writes /\ WriteAgrees(writeQueue[i + 1])
                 /\ writeQueue'[i] = writeQueue[i + 1]
                 /\ Head(writeQueue).by # Nobody => writeQueue'[i].by = Nobody
                 /\ \A j \in 1..Len(writeQueue') :
                       writeQueue'[i].by # Nobody /\ writeQueue'[j].by # Nobody => i = j
<1>1. /\ Head(writeQueue) \in Writes /\ Head(writeQueue) = writeQueue[1]
      /\ writeQueue' \in Seq(Writes)
      /\ Len(writeQueue') = Len(writeQueue) - 1 /\ Len(writeQueue) \in Nat \ {0}
      /\ \A i \in 1..Len(writeQueue') : writeQueue'[i] = writeQueue[i + 1]
    BY HeadTailProperties DEF RuntimeIInv, StateTypes
<1>2. 1 \in 1..Len(writeQueue) /\ \A i \in 1..Len(writeQueue') : i + 1 \in 1..Len(writeQueue)
    BY <1>1
<1>3. \A i \in 1..Len(writeQueue') : writeQueue'[i] \in Writes
    BY <1>1, <1>2 DEF RuntimeIInv, StateTypes
<1>4. WriteAgrees(Head(writeQueue)) /\ \A i \in 1..Len(writeQueue') : WriteAgrees(writeQueue[i + 1])
    BY <1>1, <1>2 DEF RuntimeIInv, WritesAgree
<1>5. ASSUME NEW i \in 1..Len(writeQueue'), Head(writeQueue).by # Nobody
      PROVE  writeQueue'[i].by = Nobody
    BY <1>1, <1>2, <1>5 DEF RuntimeIInv, WritesAgree
<1>6. ASSUME NEW i \in 1..Len(writeQueue'), NEW j \in 1..Len(writeQueue'),
             writeQueue'[i].by # Nobody, writeQueue'[j].by # Nobody
      PROVE  i = j
    BY <1>1, <1>2, <1>6 DEF RuntimeIInv, WritesAgree
<1>. QED BY <1>1, <1>3, <1>4, <1>5, <1>6

(* The state of the start comes to the disk, or does not.                  *)
LEMMA UndoEnds ==
    ASSUME RuntimeIInv, WriteEnds, Head(writeQueue).by = Nobody
    PROVE  RuntimeIInv'
<1>1. /\ UNCHANGED <<sections, changing, answered, loadedState, mutationQueue, target>>
      /\ writeQueue # <<>> /\ writeQueue' = Tail(writeQueue)
      /\ startup' = "undone" /\ stateFile' \in {stateFile, Head(writeQueue).contents}
    BY DEF WriteEnds
<1>2. Undone /\ Undone' /\ Head(writeQueue).contents = loadedState
    BY <1>1, WritesLeft DEF WriteAgrees, Undone
<1>3. /\ Kept(Cards)' = Kept(Cards) /\ Kept(Receipts)' = Kept(Receipts) /\ Agreed' = Agreed
      /\ InPlay(Cards)' = InPlay(Cards) /\ InPlay(Receipts)' = InPlay(Receipts)
      /\ InPlay(CoreChanges)' = InPlay(CoreChanges)
    BY <1>1 DEF InPlay, Kept, Agreed
<1>4. StateTypes'
    BY <1>1, <1>2, WritesLeft DEF RuntimeIInv, StateTypes
<1>5. MutationsWaitOnce' /\ MemoryAgrees'
    BY <1>1, <1>3 DEF RuntimeIInv, MutationsWaitOnce, MemoryAgrees
<1>6. \A v \in Writes : WriteAgrees(v) => WriteAgrees(v)'
    BY <1>1, <1>2, <1>3 DEF WriteAgrees
<1>7. WritesAgree'
    BY <1>1, <1>6, WritesLeft DEF WritesAgree
<1>8. FileAgrees'
    BY <1>1, <1>2, <1>3 DEF RuntimeIInv, FileAgrees, Agreed
<1>. QED BY <1>4, <1>5, <1>7, <1>8 DEF RuntimeIInv

(* The change that was saving has been told, and no write of a change is   *)
(* left.                                                                   *)
LEMMA ToldAgrees ==
    ASSUME RuntimeIInv, WriteEnds, Head(writeQueue).by # Nobody
    PROVE  RuntimeIInv'
<1> USE RuntimeAssumption
<1>1. PICK w \in Writes : w = Head(writeQueue)
    BY WritesLeft DEF WriteEnds
<1>2. /\ w.by = changing /\ changing \in Mutations /\ answered[changing] = "queued"
      /\ WriteAgrees(w)
    <2>1. WriteAgrees(w)
        BY <1>1, WritesLeft DEF WriteEnds
    <2>. QED BY <1>1, <2>1 DEF WriteAgrees, RuntimeIInv, StateTypes, MutationsWaitOnce
<1>3. /\ UNCHANGED <<loadedState, mutationQueue, target, startup>>
      /\ writeQueue # <<>> /\ writeQueue' = Tail(writeQueue) /\ changing' = Nobody
    BY <1>1 DEF WriteEnds
<1>4. w.contents \in Contents /\ w.previous \in Contents
    BY DEF Writes
<1>5. \/ /\ stateFile' = w.contents /\ UNCHANGED sections
         /\ answered' = [answered EXCEPT ![changing] = "saved"]
      \/ /\ sections' = PutBack(changing, w.previous) /\ UNCHANGED stateFile
         /\ answered' = [answered EXCEPT ![changing] = "refused"]
    BY <1>1, <1>2 DEF WriteEnds
<1>6. StateTypes'
    BY <1>2, <1>3, <1>4, <1>5, WritesLeft, PutBackSections DEF RuntimeIInv, StateTypes
<1>7. MutationsWaitOnce'
    <2>1. \A n \in Mutations : n # changing => answered'[n] = answered[n]
        BY <1>5 DEF RuntimeIInv, StateTypes
    <2>2. \A i \in 1..Len(mutationQueue) : mutationQueue[i] \in Mutations \ {changing}
        BY DEF RuntimeIInv, StateTypes, MutationsWaitOnce
    <2>3. answered'[changing] # "idle"
        BY <1>2, <1>5 DEF RuntimeIInv, StateTypes
    <2>. QED BY <1>3, <2>1, <2>2, <2>3
             DEF RuntimeIInv, MutationsWaitOnce, Mutations
<1>8. /\ InPlay(Cards)' = Kept(Cards)' /\ InPlay(Receipts)' = Kept(Receipts)'
      /\ InPlay(CoreChanges)' = Kept(CoreChanges)'
    BY <1>3 DEF InPlay, Mutations, Changes
<1>9. WritesAgree'
    <2>1. \A v \in Writes : v.by = Nobody /\ WriteAgrees(v) => WriteAgrees(v)'
        BY <1>3 DEF WriteAgrees, Undone
    <2>. QED BY <1>3, <2>1, WritesLeft DEF WritesAgree
<1>10. CASE /\ stateFile' = w.contents /\ UNCHANGED sections
            /\ answered' = [answered EXCEPT ![changing] = "saved"]
    <2>1. \A n \in Mutations :
              answered'[n] = IF n = changing THEN "saved" ELSE answered[n]
        BY <1>10 DEF RuntimeIInv, StateTypes
    <2>2. /\ Kept(Cards)' = InPlay(Cards) /\ Kept(Receipts)' = InPlay(Receipts)
          /\ Kept(CoreChanges)' = InPlay(CoreChanges) /\ Kept(Puts)' = InPlay(Puts)
        BY <1>2, <2>1 DEF Kept, InPlay, Mutations, Changes
    <2>3. /\ Agreed \subseteq Agreed'
          /\ changing \in Puts => target[changing] \in Agreed'
        BY <1>3, <2>2 DEF Agreed, InPlay
    <2>4. MemoryAgrees'
        <3>1. /\ sections'.cards = InPlay(Cards)' /\ sections'.receipts = InPlay(Receipts)'
            BY <1>8, <1>10, <2>2 DEF RuntimeIInv, MemoryAgrees
        <3>2. \A n \in CoreChanges : answered'[n] # "idle" => n \in sections'.core
            BY <1>2, <1>10, <2>1 DEF RuntimeIInv, MemoryAgrees, Mutations, Changes
        <3>3. changing' \notin Puts /\ sections'.generation \in Agreed'
            BY <1>3, <1>10, <2>3 DEF RuntimeIInv, MemoryAgrees, Mutations
        <3>. QED BY <3>1, <3>2, <3>3 DEF MemoryAgrees
    <2>5. FileAgrees'
        <3>1. /\ w.contents.cards = InPlay(Cards) /\ w.contents.receipts = InPlay(Receipts)
              /\ InPlay(CoreChanges) \subseteq w.contents.core
              /\ w.contents.generation \in IF changing \in Puts THEN {target[changing]} ELSE Agreed
            BY <1>1, <1>2 DEF WriteAgrees
        <3>2. w.contents.generation \in Agreed'
            BY <2>3, <3>1
        <3>3. loadedState'.cards = {} /\ loadedState'.receipts = {}
            BY <1>3 DEF RuntimeIInv, FileAgrees
        <3>. QED BY <1>10, <2>2, <3>1, <3>2, <3>3 DEF FileAgrees
    <2>. QED BY <1>6, <1>7, <1>9, <2>4, <2>5 DEF RuntimeIInv
<1>11. CASE /\ sections' = PutBack(changing, w.previous) /\ UNCHANGED stateFile
            /\ answered' = [answered EXCEPT ![changing] = "refused"]
    <2>1. \A n \in Mutations :
              answered'[n] = IF n = changing THEN "refused" ELSE answered[n]
        BY <1>11 DEF RuntimeIInv, StateTypes
    <2>2. /\ Kept(Cards)' = Kept(Cards) /\ Kept(Receipts)' = Kept(Receipts)
          /\ Kept(CoreChanges)' = Kept(CoreChanges) /\ Kept(Puts)' = Kept(Puts)
        BY <1>2, <2>1 DEF Kept, Mutations, Changes
    <2>3. Agreed' = Agreed
        BY <1>3, <2>2 DEF Agreed
    <2>4. /\ sections'.cards = Kept(Cards) /\ sections'.receipts = Kept(Receipts)
          /\ sections'.core = sections.core /\ sections'.generation \in Agreed
        <3>1. /\ sections'.cards = IF changing \in Cards THEN w.previous.cards ELSE sections.cards
              /\ sections'.receipts =
                    IF changing \in Receipts THEN w.previous.receipts ELSE sections.receipts
              /\ sections'.core = sections.core
              /\ sections'.generation =
                    IF changing \in Puts THEN w.previous.generation ELSE sections.generation
            BY <1>2, <1>4, <1>11, PutBackSections
        <3>2. /\ w.previous.cards = Kept(Cards) /\ w.previous.receipts = Kept(Receipts)
              /\ w.previous.generation \in Agreed
            BY <1>1, <1>2 DEF WriteAgrees
        <3>3. /\ sections.cards = InPlay(Cards) /\ sections.receipts = InPlay(Receipts)
              /\ changing \notin Puts => sections.generation \in Agreed
            BY DEF RuntimeIInv, MemoryAgrees
        <3>. QED BY <3>1, <3>2, <3>3 DEF InPlay
    <2>5. MemoryAgrees'
        BY <1>2, <1>3, <1>8, <2>1, <2>2, <2>3, <2>4
           DEF RuntimeIInv, MemoryAgrees, Mutations, Changes
    <2>6. FileAgrees'
        BY <1>3, <1>11, <2>2, <2>3 DEF RuntimeIInv, FileAgrees, Undone
    <2>. QED BY <1>6, <1>7, <1>9, <2>5, <2>6 DEF RuntimeIInv
<1>. QED BY <1>5, <1>10, <1>11

LEMMA RuntimeIsKept == RuntimeIInv /\ [RuntimeNext]_runtimeVars => RuntimeIInv'
<1> SUFFICES ASSUME RuntimeIInv, [RuntimeNext]_runtimeVars PROVE RuntimeIInv'
    OBVIOUS
<1>1. CASE UNCHANGED runtimeVars
    <2>1. /\ Kept(Cards)' = Kept(Cards) /\ Kept(Receipts)' = Kept(Receipts)
          /\ Kept(CoreChanges)' = Kept(CoreChanges) /\ Agreed' = Agreed
        BY <1>1 DEF runtimeVars, Kept, Agreed
    <2>2. /\ InPlay(Cards)' = InPlay(Cards) /\ InPlay(Receipts)' = InPlay(Receipts)
          /\ InPlay(CoreChanges)' = InPlay(CoreChanges)
        BY <1>1, <2>1 DEF runtimeVars, InPlay
    <2>3. StateTypes' /\ MutationsWaitOnce'
        BY <1>1 DEF runtimeVars, RuntimeIInv, StateTypes, MutationsWaitOnce
    <2>4. MemoryAgrees' /\ FileAgrees'
        BY <1>1, <2>1, <2>2 DEF runtimeVars, RuntimeIInv, MemoryAgrees, FileAgrees, Undone
    <2>5. WritesAgree'
        BY <1>1, <2>1, <2>2 DEF runtimeVars, RuntimeIInv, WritesAgree, WriteAgrees, Undone
    <2>. QED BY <2>3, <2>4, <2>5 DEF RuntimeIInv
<1>2. CASE WriteEnds
    BY <1>2, UndoEnds, ToldAgrees
<1>. QED
    BY <1>1, <1>2, ChangeSectionAgrees, ChangeCoreAgrees, ApplySettingsAgrees,
       BeginSaveAgrees, StartAgrees DEF RuntimeNext

(* A change of the sections whose caller was told that it failed is not in *)
(* the file, whatever other sections are saved before, during and after    *)
(* it, and one that was told saved is, but for a start that is undone.     *)
THEOREM RefusedIsGone == RuntimeSpec => []RefusedIsNotOnFile
<1>1. RuntimeIInv => RefusedIsNotOnFile
    <2> SUFFICES ASSUME RuntimeIInv PROVE RefusedIsNotOnFile
        OBVIOUS
    <2>1. \A m \in Cards \cup Receipts : answered[m] = "refused" =>
              m \notin stateFile.cards \cup stateFile.receipts
        BY DEF RuntimeIInv, FileAgrees, Kept
    <2>2. stateFile.generation \in
              {loadedState.generation} \cup {target[p] : p \in {q \in Puts : answered[q] # "refused"}}
        BY DEF RuntimeIInv, FileAgrees, Agreed, Kept
    <2>3. \A m \in Changes : answered[m] = "saved" =>
              \/ m \in stateFile.cards \cup stateFile.receipts \cup stateFile.core
              \/ startup \in {"undoing", "undone"}
        BY DEF RuntimeIInv, FileAgrees, Kept, Changes, Undone
    <2>. QED BY <2>1, <2>2, <2>3 DEF RefusedIsNotOnFile
<1>. QED BY <1>1, RuntimeHoldsAtFirst, RuntimeIsKept, PTL DEF RuntimeSpec

(***************************************************************************)
(* SystemRejections. What was recorded stays on file until it is over, and *)
(* what is on file is tried again.                                         *)
(***************************************************************************)

(* A plan that cannot be approved any more needs no rejection.             *)
PlansOver == overdue \cup {p \in Operations : broker[p] # "pending"}
IntentChanges == [op : {"add", "remove"}, plan : Operations]
QueuedChange(op, p) == \E i \in DOMAIN mutations : mutations[i] = [op |-> op, plan |-> p]

(* Whoever was told that a rejection was taken relies on the file for it.  *)
RecordedIsOnFile ==
    \A p \in Operations :
        caller[p] \in {"trying", "recorded", "told"} => p \in intentFile \/ p \in PlansOver

(* An intent on file has a retry to come, an attempt that runs or a        *)
(* removal that waits, unless its process is closing.                      *)
NoIntentIsForgotten ==
    ~closed => \A p \in intentFile : \/ p \in retryTimer \/ attemptOf[p] = "asking"
                                     \/ QueuedChange("remove", p)

(* A worker waits for a save or an attempt that is there.                  *)
NoWorkerIsForgotten ==
    \A p \in Operations : /\ caller[p] = "adding" => QueuedChange("add", p)
                          /\ caller[p] = "trying" => attemptOf[p] # "none"

(* The records are those of the file, but for the change being saved.      *)
SavesOneChange ==
    /\ ~saving => records = intentFile
    /\ saving => /\ mutations # <<>>
                 /\ LET p == Head(mutations).plan IN
                      \/ /\ Head(mutations).op = "add" /\ p \notin intentFile
                         /\ records = intentFile \cup {p}
                      \/ /\ Head(mutations).op = "remove" /\ p \in intentFile
                         /\ records = intentFile \ {p}

(* A removal is that of the attempt that asked for it, of a plan that is   *)
(* over.                                                                   *)
RemovalsAreDue ==
    /\ \A i \in DOMAIN mutations :
          mutations[i].op = "remove" =>
             /\ attemptOf[mutations[i].plan] = "removing" /\ mutations[i].plan \in PlansOver
             /\ \A j \in DOMAIN mutations : mutations[j] = mutations[i] => i = j
    /\ \A p \in Operations : attemptOf[p] = "removing" => QueuedChange("remove", p)

RejectionTypes ==
    /\ caller \in [Operations -> {"none", "queued", "adding", "trying", "recorded", "refused",
                                  "told", "expired"}]
    /\ records \subseteq Operations /\ intentFile \subseteq Operations
    /\ mutations \in Seq(IntentChanges) /\ saving \in BOOLEAN /\ closed \in BOOLEAN
    /\ attemptOf \in [Operations -> {"none", "asking", "removing"}]
    /\ broker \in [Operations -> {"pending", "rejected", "other"}]

RejectionIInv ==
    /\ RejectionTypes /\ SavesOneChange /\ RemovalsAreDue
    /\ RecordedIsOnFile /\ NoIntentIsForgotten /\ NoWorkerIsForgotten

(* An addition comes behind what waits.                                    *)
LEMMA ChangeAppended ==
    ASSUME mutations \in Seq(IntentChanges), NEW m \in IntentChanges,
           mutations' = Append(mutations, m)
    PROVE  /\ mutations' \in Seq(IntentChanges) /\ mutations' # <<>>
           /\ mutations # <<>> => Head(mutations') = Head(mutations)
           /\ DOMAIN mutations' = DOMAIN mutations \cup {Len(mutations) + 1}
           /\ Len(mutations) + 1 \notin DOMAIN mutations
           /\ \A i \in DOMAIN mutations : mutations'[i] = mutations[i]
           /\ mutations'[Len(mutations) + 1] = m
<1>1. /\ mutations' \in Seq(IntentChanges) /\ Len(mutations') = Len(mutations) + 1
      /\ \A i \in 1..Len(mutations) : mutations'[i] = mutations[i]
      /\ mutations'[Len(mutations) + 1] = m
    BY AppendProperties
<1>2. /\ DOMAIN mutations = 1..Len(mutations) /\ DOMAIN mutations' = 1..Len(mutations')
      /\ Len(mutations) \in Nat
    BY <1>1
<1>3. mutations' # <<>>
    BY <1>1, <1>2
<1>4. ASSUME mutations # <<>> PROVE Head(mutations') = Head(mutations)
    <2>1. 1 \in 1..Len(mutations) /\ Head(mutations) = mutations[1]
        BY <1>2, <1>4
    <2>2. Head(mutations') = mutations'[1]
        BY <1>1, <1>3
    <2>. QED BY <1>1, <2>1, <2>2
<1>. QED BY <1>1, <1>2, <1>3, <1>4

(* What the end of a change leaves of the queue.                           *)
LEMMA ChangeTaken ==
    ASSUME mutations \in Seq(IntentChanges), mutations # <<>>, mutations' = Tail(mutations)
    PROVE  /\ mutations' \in Seq(IntentChanges)
           /\ 1 \in DOMAIN mutations /\ Head(mutations) = mutations[1]
           /\ Head(mutations) \in IntentChanges
           /\ \A i \in DOMAIN mutations' : /\ i + 1 \in DOMAIN mutations /\ i + 1 # 1
                                           /\ mutations'[i] = mutations[i + 1]
           /\ \A i, j \in DOMAIN mutations' : i + 1 = j + 1 => i = j
           /\ \A i \in DOMAIN mutations \ {1} : /\ i - 1 \in DOMAIN mutations'
                                                /\ mutations'[i - 1] = mutations[i]
<1>1. /\ Head(mutations) \in IntentChanges /\ Head(mutations) = mutations[1]
      /\ mutations' \in Seq(IntentChanges)
      /\ Len(mutations') = Len(mutations) - 1 /\ Len(mutations) \in Nat \ {0}
      /\ \A i \in 1..Len(mutations') : mutations'[i] = mutations[i + 1]
    BY HeadTailProperties
<1>2. DOMAIN mutations = 1..Len(mutations) /\ DOMAIN mutations' = 1..Len(mutations')
    BY <1>1
<1>3. \A i \in 1..Len(mutations') : i + 1 \in 1..Len(mutations) /\ i + 1 # 1
    BY <1>1
<1>4. ASSUME NEW i \in 1..Len(mutations), i # 1
      PROVE  i - 1 \in 1..Len(mutations') /\ mutations'[i - 1] = mutations[i]
    <2>1. i - 1 \in 1..Len(mutations') /\ (i - 1) + 1 = i
        BY <1>1, <1>4
    <2>. QED BY <1>1, <2>1
<1>5. \A i, j \in 1..Len(mutations') : i + 1 = j + 1 => i = j
    BY <1>1
<1>6. 1 \in 1..Len(mutations)
    BY <1>1
<1>. QED BY <1>1, <1>2, <1>3, <1>4, <1>5, <1>6

(* What was decided stays so, what is late stays late.                     *)
LEMMA OverStays ==
    ASSUME RejectionTypes, RejectionNext
    PROVE  \A p \in Operations : p \in PlansOver => p \in PlansOver'
<1>1. /\ overdue \subseteq overdue'
      /\ \A p \in Operations : broker[p] # "pending" => broker'[p] # "pending"
    BY DEF RejectionNext, RejectionTypes, BeginMutation, MutationSaved, MutationNotSaved,
           CloseCoordinator, NextCoordinator, EnqueueExternalRejection, RecordRejection,
           TellSettlement, RetryTimerFires, AttemptStep, PlanOverdue, NothingToAttempt,
           DropOverdue, BrokerTakes, BrokerCannot, BrokerFails, WorkerOnly, environment
<1>. QED BY <1>1 DEF PlansOver

LEMMA ChangesAreTyped ==
    ASSUME RejectionTypes
    PROVE  \A i \in DOMAIN mutations :
              mutations[i] \in IntentChanges /\ mutations[i].plan \in Operations
<1>1. \A i \in 1..Len(mutations) : mutations[i] \in IntentChanges
    BY ElementOfSeq DEF RejectionTypes
<1>2. DOMAIN mutations = 1..Len(mutations)
    BY DEF RejectionTypes
<1>. QED BY <1>1, <1>2 DEF IntentChanges

LEMMA HeadIsChange ==
    ASSUME RejectionTypes, mutations # <<>>
    PROVE  /\ Head(mutations) \in IntentChanges /\ Head(mutations).plan \in Operations
           /\ Head(mutations).op \in {"add", "remove"}
<1>1. Head(mutations) \in IntentChanges
    BY HeadTailProperties DEF RejectionTypes
<1>. QED BY <1>1 DEF IntentChanges

LEMMA ChangesAreEqual ==
    ASSUME NEW m \in IntentChanges, NEW n \in IntentChanges, m.op = n.op, m.plan = n.plan
    PROVE  m = n
BY DEF IntentChanges

(* Steps that leave the records and the queue of their changes.            *)
LEMMA NoChangeKeeps ==
    ASSUME RejectionIInv, UNCHANGED <<mutations, saving, records, intentFile>>
    PROVE  /\ SavesOneChange'
           /\ \A op, p : QueuedChange(op, p)' <=> QueuedChange(op, p)
BY DEF RejectionIInv, SavesOneChange, QueuedChange

LEMMA RemovalsStayDue ==
    ASSUME RejectionIInv, RejectionNext, UNCHANGED mutations,
           \A p \in Operations : attemptOf'[p] = "removing" <=> attemptOf[p] = "removing"
    PROVE  RemovalsAreDue'
<1>1. \A p \in Operations : p \in PlansOver => p \in PlansOver'
    BY OverStays DEF RejectionIInv
<1>2. \A i \in DOMAIN mutations : mutations[i].plan \in Operations
    BY ChangesAreTyped DEF RejectionIInv
<1>3. \A p : QueuedChange("remove", p)' <=> QueuedChange("remove", p)
    BY DEF QueuedChange
<1>. QED BY <1>1, <1>2, <1>3 DEF RejectionIInv, RemovalsAreDue

LEMMA CallerMoves ==
    ASSUME RejectionTypes, NEW p \in Operations, NEW from,
           NEW to \in {"trying", "recorded", "refused"}, CallerTo(p, from, to)
    PROVE  /\ caller' \in [Operations -> {"none", "queued", "adding", "trying", "recorded", "refused",
                                          "told", "expired"}]
           /\ \A q \in Operations : q # p => caller'[q] = caller[q]
           /\ caller'[p] = IF caller[p] = from THEN to ELSE caller[p]
BY DEF RejectionTypes, CallerTo

(* #attempt joins what runs.                                               *)
LEMMA AttemptedMoves ==
    ASSUME RejectionTypes, NEW p \in Operations, Attempted(p)
    PROVE  /\ attemptOf' \in [Operations -> {"none", "asking", "removing"}]
           /\ \A q \in Operations : q # p => attemptOf'[q] = attemptOf[q]
           /\ attemptOf'[p] = IF attemptOf[p] = "none" THEN "asking" ELSE attemptOf[p]
BY DEF RejectionTypes, Attempted

-----------------------------------------------------------------------------
LEMMA WorkerKeeps ==
    ASSUME RejectionIInv, RejectionNext, NEW p \in Operations,
           EnqueueExternalRejection(p) \/ TellSettlement(p)
    PROVE  RejectionIInv'
<1>1. /\ UNCHANGED <<mutations, saving, records, intentFile, attemptOf, retryTimer, broker, closed>>
      /\ caller' \in [Operations -> {"none", "queued", "adding", "trying", "recorded", "refused",
                                     "told", "expired"}]
      /\ \A q \in Operations : q # p => caller'[q] = caller[q]
      /\ caller'[p] \in {"queued", "told", "expired"}
      /\ caller'[p] = "told" => p \notin overdue /\ (caller[p] = "recorded" \/ p \in overdue)
    BY DEF RejectionIInv, RejectionTypes, EnqueueExternalRejection, TellSettlement, WorkerOnly,
           environment
<1>2. SavesOneChange' /\ \A op, q : QueuedChange(op, q)' <=> QueuedChange(op, q)
    BY <1>1, NoChangeKeeps
<1>3. \A q \in Operations : q \in PlansOver => q \in PlansOver'
    BY OverStays DEF RejectionIInv
<1>4. RejectionTypes'
    BY <1>1 DEF RejectionIInv, RejectionTypes
<1>5. RemovalsAreDue'
    BY <1>1, RemovalsStayDue
<1>6. RecordedIsOnFile' /\ NoIntentIsForgotten' /\ NoWorkerIsForgotten'
    BY <1>1, <1>2, <1>3 DEF RejectionIInv, RejectionTypes, RecordedIsOnFile,
       NoIntentIsForgotten, NoWorkerIsForgotten
<1>. QED BY <1>2, <1>4, <1>5, <1>6 DEF RejectionIInv

(* An attempt begins with its timer, or ends without a change.             *)
LEMMA AttemptKeeps ==
    ASSUME RejectionIInv, RejectionNext, NEW p \in Operations,
           RetryTimerFires(p) \/ NothingToAttempt(p) \/ BrokerFails(p)
    PROVE  RejectionIInv'
<1>1. /\ UNCHANGED <<mutations, saving, records, intentFile, closed>>
      /\ broker' \in [Operations -> {"pending", "rejected", "other"}]
    BY DEF RejectionIInv, RejectionTypes, RetryTimerFires, NothingToAttempt, BrokerFails, environment
<1>2. SavesOneChange' /\ \A op, q : QueuedChange(op, q)' <=> QueuedChange(op, q)
    BY <1>1, NoChangeKeeps
<1>3. \A q \in Operations : q \in PlansOver => q \in PlansOver'
    BY OverStays DEF RejectionIInv
<1>4. /\ caller' \in [Operations -> {"none", "queued", "adding", "trying", "recorded", "refused",
                                     "told", "expired"}]
      /\ \A q \in Operations : q # p => caller'[q] = caller[q]
      /\ caller'[p] # caller[p] => caller[p] = "trying" /\ caller'[p] = "recorded"
    BY CallerMoves DEF RejectionIInv, RejectionTypes, RetryTimerFires, NothingToAttempt, BrokerFails
<1>5. /\ attemptOf' \in [Operations -> {"none", "asking", "removing"}]
      /\ \A q \in Operations : q # p => attemptOf'[q] = attemptOf[q]
      /\ attemptOf'[p] = "removing" <=> attemptOf[p] = "removing"
      /\ attemptOf'[p] = "none" => caller'[p] # "trying"
    <2>1. CASE RetryTimerFires(p)
        BY <2>1, AttemptedMoves DEF RejectionIInv, RejectionTypes, RetryTimerFires
    <2>2. CASE NothingToAttempt(p) \/ BrokerFails(p)
        <3>1. attemptOf[p] = "asking" /\ attemptOf' = [attemptOf EXCEPT ![p] = "none"]
              /\ CallerTo(p, "trying", "recorded")
            BY <2>2 DEF NothingToAttempt, BrokerFails, AttemptOver
        <3>2. attemptOf'[p] = "none" /\ \A q \in Operations : q # p => attemptOf'[q] = attemptOf[q]
            BY <3>1 DEF RejectionIInv, RejectionTypes
        <3>3. caller'[p] # "trying"
            BY <3>1 DEF RejectionIInv, RejectionTypes, CallerTo
        <3>. QED BY <3>1, <3>2, <3>3 DEF RejectionIInv, RejectionTypes
    <2>. QED BY <2>1, <2>2
<1>6. \A q \in intentFile : q # p => (q \in retryTimer => q \in retryTimer')
    BY DEF RetryTimerFires, NothingToAttempt, BrokerFails
<1>7. ~closed /\ p \in intentFile =>
         p \in retryTimer' \/ attemptOf'[p] = "asking" \/ QueuedChange("remove", p)
    <2>1. CASE RetryTimerFires(p)
        BY <2>1, AttemptedMoves DEF RejectionIInv, RejectionTypes, RetryTimerFires, RemovalsAreDue
    <2>2. CASE NothingToAttempt(p)
        <3>1. attemptOf[p] = "asking" /\ (closed \/ p \notin records)
            BY <2>2 DEF NothingToAttempt
        <3>2. ASSUME p \in intentFile, p \notin records PROVE FALSE
            <4>1. saving /\ mutations # <<>> /\ Head(mutations).op = "remove" /\ Head(mutations).plan = p
                BY <3>2 DEF RejectionIInv, SavesOneChange
            <4>2. 1 \in DOMAIN mutations /\ Head(mutations) = mutations[1]
                BY <4>1, HeadTailProperties DEF RejectionIInv, RejectionTypes
            <4>. QED BY <3>1, <4>1, <4>2 DEF RejectionIInv, RemovalsAreDue
        <3>. QED BY <3>1, <3>2
    <2>3. CASE BrokerFails(p)
        BY <2>3 DEF BrokerFails
    <2>. QED BY <2>1, <2>2, <2>3
<1>8. RejectionTypes'
    BY <1>1, <1>4, <1>5 DEF RejectionIInv, RejectionTypes
<1>9. RemovalsAreDue'
    <2>1. \A q \in Operations : attemptOf'[q] = "removing" <=> attemptOf[q] = "removing"
        BY <1>5
    <2>. QED BY <1>1, <2>1, RemovalsStayDue
<1>10. RecordedIsOnFile' /\ NoWorkerIsForgotten'
    BY <1>1, <1>2, <1>3, <1>4, <1>5
       DEF RejectionIInv, RejectionTypes, RecordedIsOnFile, NoWorkerIsForgotten
<1>11. NoIntentIsForgotten'
    BY <1>1, <1>2, <1>5, <1>6, <1>7
                   DEF RejectionIInv, RejectionTypes, NoIntentIsForgotten
<1>. QED BY <1>2, <1>8, <1>9, <1>10, <1>11 DEF RejectionIInv

LEMMA EnvironmentKeeps ==
    ASSUME RejectionIInv, RejectionNext, CloseCoordinator \/ \E p \in Operations : PlanOverdue(p)
    PROVE  RejectionIInv'
<1>1. /\ UNCHANGED <<mutations, saving, records, intentFile, caller, attemptOf, broker>>
      /\ (closed' = closed /\ retryTimer' = retryTimer) \/ closed'
      /\ closed' \in BOOLEAN
    BY DEF RejectionIInv, RejectionTypes, CloseCoordinator, PlanOverdue
<1>2. SavesOneChange' /\ RemovalsAreDue' /\ \A op, q : QueuedChange(op, q)' <=> QueuedChange(op, q)
    BY <1>1, NoChangeKeeps, RemovalsStayDue
<1>3. \A q \in Operations : q \in PlansOver => q \in PlansOver'
    BY OverStays DEF RejectionIInv
<1>4. RejectionTypes'
    BY <1>1 DEF RejectionIInv, RejectionTypes
<1>5. RecordedIsOnFile' /\ NoIntentIsForgotten' /\ NoWorkerIsForgotten'
    BY <1>1, <1>2, <1>3 DEF RejectionIInv, RecordedIsOnFile, NoIntentIsForgotten, NoWorkerIsForgotten
<1>. QED BY <1>2, <1>4, <1>5 DEF RejectionIInv

(* A change that is queued waits behind the one that is being saved.       *)
LEMMA AppendedWaits ==
    ASSUME RejectionIInv, NEW m \in IntentChanges, mutations' = Append(mutations, m),
           UNCHANGED <<saving, records, intentFile>>
    PROVE  /\ SavesOneChange'
           /\ \A op, p : QueuedChange(op, p)' <=> QueuedChange(op, p) \/ m = [op |-> op, plan |-> p]
<1>1. mutations \in Seq(IntentChanges)
    BY DEF RejectionIInv, RejectionTypes
<1>2. SavesOneChange'
    BY <1>1, ChangeAppended DEF RejectionIInv, SavesOneChange
<1>3. ASSUME NEW op, NEW p
      PROVE  QueuedChange(op, p)' <=> QueuedChange(op, p) \/ m = [op |-> op, plan |-> p]
    BY <1>1, ChangeAppended DEF QueuedChange
<1>. QED BY <1>2, <1>3

LEMMA RecordKeeps ==
    ASSUME RejectionIInv, RejectionNext, NEW p \in Operations, RecordRejection(p)
    PROVE  RejectionIInv'
<1> DEFINE m == [op |-> "add", plan |-> p]
<1>1. /\ caller' = [caller EXCEPT ![p] = "adding"] /\ mutations' = Append(mutations, m)
      /\ UNCHANGED <<saving, records, intentFile, attemptOf, retryTimer, broker, closed>>
    BY DEF RecordRejection, Enqueued, environment
<1>2. m \in IntentChanges /\ m.op = "add" /\ mutations \in Seq(IntentChanges)
    BY DEF IntentChanges, RejectionIInv, RejectionTypes
<1>3. SavesOneChange' /\ QueuedChange("add", p)'
      /\ \A op, q : QueuedChange(op, q) => QueuedChange(op, q)'
    BY <1>1, <1>2, AppendedWaits
<1>4. \A q \in Operations : q \in PlansOver => q \in PlansOver'
    BY OverStays DEF RejectionIInv
<1>5. RejectionTypes'
    BY <1>1, <1>2, ChangeAppended DEF RejectionIInv, RejectionTypes
<1>6. RemovalsAreDue'
    <2>1. \A i \in DOMAIN mutations' : mutations'[i].op = "remove" =>
             i \in DOMAIN mutations /\ mutations'[i] = mutations[i]
        BY <1>1, <1>2, ChangeAppended
    <2>2. \A i \in DOMAIN mutations : mutations[i].plan \in Operations
        BY ChangesAreTyped DEF RejectionIInv
    <2>3. ASSUME NEW i \in DOMAIN mutations', mutations'[i].op = "remove"
          PROVE  /\ attemptOf'[mutations'[i].plan] = "removing" /\ mutations'[i].plan \in PlansOver'
                 /\ \A j \in DOMAIN mutations' : mutations'[j] = mutations'[i] => i = j
        BY <1>1, <1>4, <2>1, <2>2, <2>3 DEF RejectionIInv, RemovalsAreDue, PlansOver
    <2>4. \A q \in Operations : attemptOf'[q] = "removing" => QueuedChange("remove", q)'
        BY <1>1, <1>3 DEF RejectionIInv, RemovalsAreDue
    <2>. QED BY <2>3, <2>4 DEF RemovalsAreDue
<1>7. RecordedIsOnFile' /\ NoIntentIsForgotten' /\ NoWorkerIsForgotten'
    BY <1>1, <1>3, <1>4 DEF RejectionIInv, RejectionTypes, RecordedIsOnFile,
       NoIntentIsForgotten, NoWorkerIsForgotten
<1>. QED BY <1>3, <1>5, <1>6, <1>7 DEF RejectionIInv

(* What the broker has, cannot take, or need not have is removed.          *)
LEMMA RemovingKeeps ==
    ASSUME RejectionIInv, RejectionNext, NEW p \in Operations,
           DropOverdue(p) \/ BrokerTakes(p) \/ BrokerCannot(p)
    PROVE  RejectionIInv'
<1> DEFINE m == [op |-> "remove", plan |-> p]
<1>1. /\ attemptOf[p] = "asking" /\ attemptOf' = [attemptOf EXCEPT ![p] = "removing"]
      /\ mutations' = Append(mutations, m)
      /\ UNCHANGED <<saving, records, intentFile, retryTimer, closed>>
      /\ broker' \in [Operations -> {"pending", "rejected", "other"}]
      /\ p \in PlansOver'
    BY DEF DropOverdue, BrokerTakes, BrokerCannot, Removing, Enqueued, environment, PlansOver,
           RejectionIInv, RejectionTypes
<1>2. m \in IntentChanges /\ m.op = "remove" /\ m.plan = p /\ mutations \in Seq(IntentChanges)
    BY DEF IntentChanges, RejectionIInv, RejectionTypes
<1>3. SavesOneChange' /\ QueuedChange("remove", p)'
      /\ \A op, q : QueuedChange(op, q) => QueuedChange(op, q)'
    BY <1>1, <1>2, AppendedWaits
<1>4. \A q \in Operations : q \in PlansOver => q \in PlansOver'
    BY OverStays DEF RejectionIInv
<1>5. /\ attemptOf' \in [Operations -> {"none", "asking", "removing"}]
      /\ attemptOf'[p] = "removing" /\ \A q \in Operations : q # p => attemptOf'[q] = attemptOf[q]
    BY <1>1 DEF RejectionIInv, RejectionTypes
<1>6. /\ caller' \in [Operations -> {"none", "queued", "adding", "trying", "recorded", "refused",
                                     "told", "expired"}]
      /\ \A q \in Operations : caller'[q] # caller[q] => caller'[q] = "refused"
    BY DEF RejectionIInv, RejectionTypes, DropOverdue, BrokerTakes, BrokerCannot, CallerTo
<1>7. RejectionTypes'
    BY <1>1, <1>2, <1>5, <1>6, ChangeAppended DEF RejectionIInv, RejectionTypes
<1>8. RemovalsAreDue'
    <2>1. \A i \in DOMAIN mutations : mutations[i].plan \in Operations /\ mutations[i] # m
        <3>1. \A i \in DOMAIN mutations : mutations[i] # m
            BY <1>1, <1>2 DEF RejectionIInv, RemovalsAreDue
        <3>. QED BY <3>1, ChangesAreTyped DEF RejectionIInv
    <2>2. /\ \A i \in DOMAIN mutations : mutations'[i] = mutations[i]
          /\ \A i \in DOMAIN mutations' : i \in DOMAIN mutations \/ i = Len(mutations) + 1
          /\ mutations'[Len(mutations) + 1] = m
        BY <1>1, <1>2, ChangeAppended
    <2> HIDE DEF m
    <2>3. ASSUME NEW i \in DOMAIN mutations', mutations'[i].op = "remove"
          PROVE  /\ attemptOf'[mutations'[i].plan] = "removing" /\ mutations'[i].plan \in PlansOver'
                 /\ \A j \in DOMAIN mutations' : mutations'[j] = mutations'[i] => i = j
        <3>1. CASE i \in DOMAIN mutations
            <4>1. PICK q \in Operations : q = mutations[i].plan
                BY <2>1, <3>1
            <4>2. /\ attemptOf[q] = "removing" /\ q \in PlansOver
                  /\ \A j \in DOMAIN mutations : mutations[j] = mutations[i] => i = j
                BY <2>2, <2>3, <3>1, <4>1 DEF RejectionIInv, RemovalsAreDue
            <4>3. attemptOf'[q] = "removing" /\ q \in PlansOver'
                BY <1>4, <1>5, <4>2
            <4>4. mutations'[i].plan = q /\ mutations'[i].plan \in PlansOver'
                BY <2>2, <3>1, <4>1, <4>3 DEF PlansOver
            <4>. QED BY <2>1, <2>2, <3>1, <4>2, <4>3, <4>4
        <3>2. CASE i \notin DOMAIN mutations
            <4>1. i = Len(mutations) + 1 /\ mutations'[i] = m
                BY <2>2, <3>2
            <4>2. mutations'[i].plan \in PlansOver'
                BY <1>1, <1>2, <4>1 DEF PlansOver
            <4>. QED BY <1>2, <1>5, <2>1, <2>2, <4>1, <4>2
        <3>. QED BY <3>1, <3>2
    <2>4. \A q \in Operations : attemptOf'[q] = "removing" => QueuedChange("remove", q)'
        BY <1>3, <1>5 DEF RejectionIInv, RemovalsAreDue
    <2>. QED BY <2>3, <2>4 DEF RemovalsAreDue
<1>9. RecordedIsOnFile'
    BY <1>1, <1>4, <1>6 DEF RejectionIInv, RecordedIsOnFile
<1>10. NoIntentIsForgotten' /\ NoWorkerIsForgotten'
    BY <1>1, <1>3, <1>5, <1>6
       DEF RejectionIInv, RejectionTypes, NoIntentIsForgotten, NoWorkerIsForgotten
<1>. QED BY <1>3, <1>7, <1>8, <1>9, <1>10 DEF RejectionIInv

-----------------------------------------------------------------------------
(* The first change leaves the queue; its plan may leave its attempt, which*)
(* no other change in the queue is of when it is a removal.                *)
LEMMA TakenLeaves ==
    ASSUME RejectionIInv, RejectionNext, mutations # <<>>, mutations' = Tail(mutations),
           NEW p \in Operations, p = Head(mutations).plan,
           \A q \in Operations : q # p => attemptOf'[q] = attemptOf[q],
           Head(mutations).op = "add" => (attemptOf'[p] = "removing" <=> attemptOf[p] = "removing"),
           Head(mutations).op = "remove" => attemptOf'[p] = "none"
    PROVE  /\ mutations' \in Seq(IntentChanges)
           /\ RemovalsAreDue'
           /\ \A q \in Operations :
                 /\ QueuedChange("remove", q) => \/ QueuedChange("remove", q)'
                                                 \/ q = p /\ Head(mutations).op = "remove"
                 /\ QueuedChange("add", q) => \/ QueuedChange("add", q)'
                                              \/ q = p /\ Head(mutations).op = "add"
<1>1. mutations \in Seq(IntentChanges)
    BY DEF RejectionIInv, RejectionTypes
<1>2. /\ mutations' \in Seq(IntentChanges) /\ 1 \in DOMAIN mutations /\ Head(mutations) = mutations[1]
      /\ \A i \in DOMAIN mutations' : /\ i + 1 \in DOMAIN mutations /\ i + 1 # 1
                                      /\ mutations'[i] = mutations[i + 1]
      /\ \A i, j \in DOMAIN mutations' : i + 1 = j + 1 => i = j
      /\ \A i \in DOMAIN mutations \ {1} : i - 1 \in DOMAIN mutations' /\ mutations'[i - 1] = mutations[i]
    BY <1>1, ChangeTaken
<1>3. \A q \in Operations : q \in PlansOver => q \in PlansOver'
    BY OverStays DEF RejectionIInv
<1>4. ASSUME NEW op \in {"add", "remove"}, NEW q \in Operations, QueuedChange(op, q)
      PROVE  QueuedChange(op, q)' \/ (q = p /\ Head(mutations).op = op)
    <2>1. PICK i \in DOMAIN mutations : mutations[i] = [op |-> op, plan |-> q]
        BY <1>4 DEF QueuedChange
    <2>2. CASE i = 1
        BY <1>2, <2>1, <2>2
    <2>3. CASE i # 1
        <3>1. i - 1 \in DOMAIN mutations' /\ mutations'[i - 1] = [op |-> op, plan |-> q]
            BY <1>2, <2>1, <2>3
        <3>. QED BY <3>1 DEF QueuedChange
    <2>. QED BY <2>2, <2>3
<1>5. ASSUME NEW i \in DOMAIN mutations', mutations'[i].op = "remove"
      PROVE  /\ attemptOf'[mutations'[i].plan] = "removing" /\ mutations'[i].plan \in PlansOver'
             /\ \A j \in DOMAIN mutations' : mutations'[j] = mutations'[i] => i = j
    <2> DEFINE k == i + 1
    <2>1. k \in DOMAIN mutations /\ k # 1 /\ mutations'[i] = mutations[k]
        BY <1>2
    <2>2. PICK q \in Operations : q = mutations[k].plan
        BY <2>1, ChangesAreTyped DEF RejectionIInv
    <2>3. /\ attemptOf[q] = "removing" /\ q \in PlansOver
          /\ \A j \in DOMAIN mutations : mutations[j] = mutations[k] => k = j
        BY <1>5, <2>1, <2>2 DEF RejectionIInv, RemovalsAreDue
    <2>4. ASSUME q = p, Head(mutations).op = "remove" PROVE FALSE
        <3>1. mutations[1] = mutations[k]
            <4>1. mutations[1] \in IntentChanges /\ mutations[k] \in IntentChanges
                BY <1>2, <2>1, ChangesAreTyped DEF RejectionIInv
            <4>2. mutations[1].op = mutations[k].op /\ mutations[1].plan = mutations[k].plan
                BY <1>2, <1>5, <2>1, <2>2, <2>4
            <4> HIDE DEF k
            <4>. QED BY <4>1, <4>2, ChangesAreEqual
        <3>. QED BY <1>2, <2>1, <2>3, <3>1
    <2>5. Head(mutations).op \in {"add", "remove"}
        BY <1>2, ChangesAreTyped DEF RejectionIInv, IntentChanges
    <2>6. attemptOf'[q] = "removing" /\ q \in PlansOver'
        BY <1>3, <2>3, <2>4, <2>5
    <2>7. ASSUME NEW j \in DOMAIN mutations', mutations'[j] = mutations'[i] PROVE i = j
        <3>1. j + 1 \in DOMAIN mutations /\ mutations[j + 1] = mutations[k]
            BY <1>2, <2>1, <2>7
        <3>2. i + 1 = j + 1
            BY <2>3, <3>1
        <3>. QED BY <1>2, <3>2
    <2>. QED BY <2>1, <2>2, <2>6, <2>7
<1>6. ASSUME NEW q \in Operations, attemptOf'[q] = "removing" PROVE QueuedChange("remove", q)'
    <2>1. Head(mutations).op \in {"add", "remove"}
        BY <1>2, ChangesAreTyped DEF RejectionIInv, IntentChanges
    <2>2. attemptOf[q] = "removing" /\ ~(q = p /\ Head(mutations).op = "remove")
        BY <1>6, <2>1
    <2>3. QueuedChange("remove", q)
        BY <2>2 DEF RejectionIInv, RemovalsAreDue
    <2>. QED BY <1>4, <2>2, <2>3
<1>7. RemovalsAreDue'
    BY <1>5, <1>6 DEF RemovalsAreDue
<1>. QED BY <1>2, <1>4, <1>7

(* A change begins with memory; one that changes nothing is over.          *)
LEMMA BeginKeeps ==
    ASSUME RejectionIInv, RejectionNext, BeginMutation
    PROVE  RejectionIInv'
<1>1. PICK p \in Operations : p = Head(mutations).plan
    BY HeadIsChange DEF RejectionIInv, BeginMutation
<1>2. /\ mutations # <<>> /\ ~saving /\ records = intentFile
      /\ UNCHANGED <<intentFile, retryTimer, broker, closed>>
    BY DEF RejectionIInv, SavesOneChange, BeginMutation, environment
<1>3. \A q \in Operations : q \in PlansOver => q \in PlansOver'
    BY OverStays DEF RejectionIInv
<1>4. CASE saving'
    <2>1. /\ UNCHANGED <<caller, mutations, attemptOf>> /\ saving' = TRUE
          /\ \/ Head(mutations).op = "add" /\ p \notin records /\ records' = records \cup {p}
             \/ Head(mutations).op = "remove" /\ p \in records /\ records' = records \ {p}
        BY <1>1, <1>2, <1>4 DEF BeginMutation
    <2>2. SavesOneChange'
        BY <1>1, <1>2, <2>1 DEF SavesOneChange
    <2>3. RemovalsAreDue' /\ \A op, q : QueuedChange(op, q)' <=> QueuedChange(op, q)
        BY <2>1, RemovalsStayDue DEF QueuedChange
    <2>4. RejectionTypes'
        BY <1>2, <2>1 DEF RejectionIInv, RejectionTypes
    <2>5. RecordedIsOnFile' /\ NoIntentIsForgotten' /\ NoWorkerIsForgotten'
        BY <1>2, <1>3, <2>1, <2>3
           DEF RejectionIInv, RecordedIsOnFile, NoIntentIsForgotten, NoWorkerIsForgotten
    <2>. QED BY <2>2, <2>3, <2>4, <2>5 DEF RejectionIInv
<1>5. CASE ~saving'
    <2>1. /\ Head(mutations).op = "add" /\ p \in records /\ CallerTo(p, "adding", "trying")
          /\ Attempted(p) /\ mutations' = Tail(mutations) /\ UNCHANGED <<records, saving>>
        BY <1>1, <1>5 DEF BeginMutation
    <2>2. /\ attemptOf' \in [Operations -> {"none", "asking", "removing"}]
          /\ \A q \in Operations : q # p => attemptOf'[q] = attemptOf[q]
          /\ attemptOf'[p] = IF attemptOf[p] = "none" THEN "asking" ELSE attemptOf[p]
        BY <2>1, AttemptedMoves DEF RejectionIInv
    <2>3. attemptOf[p] \in {"none", "asking", "removing"}
        BY DEF RejectionIInv, RejectionTypes
    <2>4. /\ mutations' \in Seq(IntentChanges) /\ RemovalsAreDue'
          /\ \A q \in Operations :
                /\ QueuedChange("remove", q) => QueuedChange("remove", q)'
                /\ QueuedChange("add", q) => QueuedChange("add", q)' \/ q = p
        BY <1>1, <1>2, <2>1, <2>2, <2>3, TakenLeaves
    <2>5. /\ caller' \in [Operations -> {"none", "queued", "adding", "trying", "recorded",
                                         "refused", "told", "expired"}]
          /\ \A q \in Operations : q # p => caller'[q] = caller[q]
          /\ caller'[p] = IF caller[p] = "adding" THEN "trying" ELSE caller[p]
        BY <2>1, CallerMoves DEF RejectionIInv
    <2>6. RejectionTypes' /\ SavesOneChange'
        BY <1>2, <2>1, <2>2, <2>4, <2>5 DEF RejectionIInv, RejectionTypes, SavesOneChange
    <2>7. RecordedIsOnFile'
        BY <1>2, <1>3, <2>1, <2>5 DEF RejectionIInv, RecordedIsOnFile
    <2>8. NoIntentIsForgotten'
        BY <1>2, <2>2, <2>3, <2>4 DEF RejectionIInv, RejectionTypes, NoIntentIsForgotten, RemovalsAreDue
    <2>9. NoWorkerIsForgotten'
        BY <2>2, <2>3, <2>4, <2>5 DEF RejectionIInv, NoWorkerIsForgotten
    <2>. QED BY <2>4, <2>6, <2>7, <2>8, <2>9 DEF RejectionIInv
<1>. QED BY <1>4, <1>5

(* The end of a save, good or bad.                                         *)
LEMMA SavedKeeps ==
    ASSUME RejectionIInv, RejectionNext, MutationSaved \/ MutationNotSaved
    PROVE  RejectionIInv'
<1>1. /\ saving /\ saving' = FALSE /\ mutations # <<>> /\ mutations' = Tail(mutations)
      /\ UNCHANGED <<broker, closed>>
    BY DEF RejectionIInv, SavesOneChange, MutationSaved, MutationNotSaved, environment
<1>2. PICK p \in Operations : p = Head(mutations).plan
    BY <1>1, HeadIsChange DEF RejectionIInv
<1>3. \A q \in Operations : q \in PlansOver => q \in PlansOver'
    BY OverStays DEF RejectionIInv
<1>4. 1 \in DOMAIN mutations /\ Head(mutations) = mutations[1]
    BY <1>1, ChangeTaken DEF RejectionIInv, RejectionTypes
<1>5. CASE Head(mutations).op = "add"
    <2>1. p \notin intentFile /\ records = intentFile \cup {p}
        BY <1>1, <1>2, <1>5 DEF RejectionIInv, SavesOneChange
    <2>2. /\ records' = intentFile' /\ retryTimer' = retryTimer
          /\ \/ /\ intentFile' = intentFile \cup {p} /\ Attempted(p)
                /\ CallerTo(p, "adding", "trying")
             \/ intentFile' = intentFile /\ attemptOf' = attemptOf /\ CallerTo(p, "adding", "refused")
        BY <1>1, <1>2, <1>5, <2>1 DEF MutationSaved, MutationNotSaved
    <2>3. /\ attemptOf' \in [Operations -> {"none", "asking", "removing"}]
          /\ \A q \in Operations : q # p => attemptOf'[q] = attemptOf[q]
          /\ attemptOf'[p] = "removing" <=> attemptOf[p] = "removing"
          /\ attemptOf'[p] = "none" => attemptOf[p] = "none" /\ attemptOf' = attemptOf
                                       /\ intentFile' = intentFile
        BY <2>1, <2>2, AttemptedMoves DEF RejectionIInv, RejectionTypes
    <2>4. /\ mutations' \in Seq(IntentChanges) /\ RemovalsAreDue'
          /\ \A q \in Operations :
                /\ QueuedChange("remove", q) => QueuedChange("remove", q)'
                /\ QueuedChange("add", q) => QueuedChange("add", q)' \/ q = p
        BY <1>1, <1>2, <1>5, <2>3, TakenLeaves
    <2>5. /\ caller' \in [Operations -> {"none", "queued", "adding", "trying", "recorded",
                                         "refused", "told", "expired"}]
          /\ \A q \in Operations : q # p => caller'[q] = caller[q]
          /\ caller'[p] # "adding"
          /\ caller'[p] # caller[p] => \/ caller'[p] = "refused"
                                       \/ /\ caller'[p] = "trying" /\ p \in intentFile'
                                          /\ attemptOf'[p] # "none"
        BY <2>2, <2>3 DEF RejectionIInv, RejectionTypes, CallerTo, Attempted
    <2>6. RejectionTypes' /\ SavesOneChange'
        BY <1>1, <2>2, <2>3, <2>4, <2>5 DEF RejectionIInv, RejectionTypes, SavesOneChange
    <2>7. RecordedIsOnFile'
        BY <1>3, <2>2, <2>5 DEF RejectionIInv, RecordedIsOnFile
    <2>8. NoIntentIsForgotten'
        <3>1. ASSUME NEW q \in intentFile', ~closed
              PROVE  q \in retryTimer' \/ attemptOf'[q] = "asking" \/ QueuedChange("remove", q)'
            <4>1. CASE q \in intentFile
                BY <2>1, <2>2, <2>3, <2>4, <3>1, <4>1
                   DEF RejectionIInv, RejectionTypes, NoIntentIsForgotten
            <4>2. CASE q \notin intentFile
                <5>1. q = p /\ attemptOf'[p] \in {"asking", "removing"}
                    BY <2>2, <2>3, <3>1, <4>2
                <5>. QED BY <2>4, <5>1 DEF RemovalsAreDue
            <4>. QED BY <4>1, <4>2
        <3>. QED BY <1>1, <3>1 DEF NoIntentIsForgotten
    <2>9. NoWorkerIsForgotten'
        BY <2>3, <2>4, <2>5 DEF RejectionIInv, NoWorkerIsForgotten
    <2>. QED BY <2>4, <2>6, <2>7, <2>8, <2>9 DEF RejectionIInv
<1>6. CASE Head(mutations).op = "remove"
    <2>1. p \in intentFile /\ records = intentFile \ {p} /\ p \in PlansOver
        BY <1>1, <1>2, <1>4, <1>6 DEF RejectionIInv, SavesOneChange, RemovalsAreDue
    <2>2. /\ records' = intentFile' /\ AttemptOver(p) /\ CallerTo(p, "trying", "recorded")
          /\ \/ intentFile' = intentFile \ {p} /\ retryTimer' = retryTimer \ {p}
             \/ /\ intentFile' = intentFile
                /\ retryTimer' = IF closed THEN retryTimer ELSE retryTimer \cup {p}
        BY <1>1, <1>2, <1>6, <2>1 DEF MutationSaved, MutationNotSaved
    <2>3. /\ attemptOf' \in [Operations -> {"none", "asking", "removing"}]
          /\ attemptOf'[p] = "none" /\ \A q \in Operations : q # p => attemptOf'[q] = attemptOf[q]
        BY <2>2 DEF RejectionIInv, RejectionTypes, AttemptOver
    <2>4. /\ mutations' \in Seq(IntentChanges) /\ RemovalsAreDue'
          /\ \A q \in Operations :
                /\ QueuedChange("remove", q) => QueuedChange("remove", q)' \/ q = p
                /\ QueuedChange("add", q) => QueuedChange("add", q)'
        BY <1>1, <1>2, <1>6, <2>3, TakenLeaves
    <2>5. /\ caller' \in [Operations -> {"none", "queued", "adding", "trying", "recorded",
                                         "refused", "told", "expired"}]
          /\ \A q \in Operations : q # p => caller'[q] = caller[q]
          /\ caller'[p] = IF caller[p] = "trying" THEN "recorded" ELSE caller[p]
        BY <2>2, CallerMoves DEF RejectionIInv
    <2>6. intentFile' \subseteq Operations /\ intentFile \ {p} \subseteq intentFile'
        BY <2>2 DEF RejectionIInv, RejectionTypes
    <2>7. RejectionTypes' /\ SavesOneChange'
        BY <1>1, <2>2, <2>3, <2>4, <2>5, <2>6 DEF RejectionIInv, RejectionTypes, SavesOneChange
    <2>8. RecordedIsOnFile'
        BY <1>3, <2>1, <2>5, <2>6 DEF RejectionIInv, RecordedIsOnFile
    <2>9. NoIntentIsForgotten'
        <3>1. ASSUME NEW q \in intentFile', ~closed
              PROVE  q \in retryTimer' \/ attemptOf'[q] = "asking" \/ QueuedChange("remove", q)'
            <4>1. CASE q = p
                BY <2>2, <3>1, <4>1
            <4>2. CASE q # p
                BY <2>2, <2>3, <2>4, <3>1, <4>2
                   DEF RejectionIInv, RejectionTypes, NoIntentIsForgotten
            <4>. QED BY <4>1, <4>2
        <3>. QED BY <1>1, <3>1 DEF NoIntentIsForgotten
    <2>10. NoWorkerIsForgotten'
        BY <2>3, <2>4, <2>5 DEF RejectionIInv, NoWorkerIsForgotten
    <2>. QED BY <2>4, <2>7, <2>8, <2>9, <2>10 DEF RejectionIInv
<1>7. Head(mutations).op \in {"add", "remove"}
    BY <1>4, ChangesAreTyped DEF RejectionIInv, IntentChanges
<1>. QED BY <1>5, <1>6, <1>7

(* The next process tries again what is on file.                           *)
LEMMA NextCoordinatorKeeps ==
    ASSUME RejectionIInv, RejectionNext, NextCoordinator
    PROVE  RejectionIInv'
<1>1. /\ UNCHANGED <<intentFile, overdue, broker>> /\ closed' = FALSE /\ saving' = FALSE
      /\ records' = intentFile /\ retryTimer' = intentFile /\ mutations' = <<>>
      /\ attemptOf' = [q \in Operations |-> "none"]
      /\ caller' = [q \in Operations |-> IF q \in Unsettled THEN "none" ELSE caller[q]]
    BY DEF NextCoordinator
<1>2. mutations' \in Seq(IntentChanges) /\ DOMAIN mutations' = {}
    BY <1>1
<1>3. RejectionTypes' /\ SavesOneChange' /\ RemovalsAreDue'
    BY <1>1, <1>2 DEF RejectionIInv, RejectionTypes, SavesOneChange, RemovalsAreDue
<1>4. \A q \in Operations : q \in PlansOver => q \in PlansOver'
    BY OverStays DEF RejectionIInv
<1>5. RecordedIsOnFile' /\ NoIntentIsForgotten' /\ NoWorkerIsForgotten'
    BY <1>1, <1>4 DEF RejectionIInv, RejectionTypes, RecordedIsOnFile, NoIntentIsForgotten,
       NoWorkerIsForgotten, Unsettled, InHand
<1>. QED BY <1>3, <1>5 DEF RejectionIInv

LEMMA RejectionHoldsAtFirst == RejectionInit => RejectionIInv
<1> SUFFICES ASSUME RejectionInit PROVE RejectionIInv
    OBVIOUS
<1>1. mutations \in Seq(IntentChanges) /\ DOMAIN mutations = {}
    BY DEF RejectionInit
<1>. QED BY <1>1 DEF RejectionInit, RejectionIInv, RejectionTypes, SavesOneChange, RemovalsAreDue,
            RecordedIsOnFile, NoIntentIsForgotten, NoWorkerIsForgotten

LEMMA RejectionIsKept == RejectionIInv /\ [RejectionNext]_rejectionVars => RejectionIInv'
<1> SUFFICES ASSUME RejectionIInv, [RejectionNext]_rejectionVars PROVE RejectionIInv'
    OBVIOUS
<1>1. CASE UNCHANGED rejectionVars
    BY <1>1 DEF rejectionVars, RejectionIInv, RejectionTypes, SavesOneChange, RemovalsAreDue,
       RecordedIsOnFile, NoIntentIsForgotten, NoWorkerIsForgotten, QueuedChange, PlansOver
<1>2. CASE RejectionNext
    BY <1>2, WorkerKeeps, AttemptKeeps, EnvironmentKeeps, RecordKeeps, RemovingKeeps, BeginKeeps,
       SavedKeeps, NextCoordinatorKeeps DEF RejectionNext, AttemptStep
<1>. QED BY <1>1, <1>2

(* A plan whose rejection is recorded, or told to Slack, is on file for the*)
(* broker until it is decided or late, and whatever is on file is tried    *)
(* again by this process, or by the next one once this one is closed: no   *)
(* failed save, failed call or crash drops an intent or its retry          *)
(* (recordRejection, #runAttempt, #remove, start).                         *)
THEOREM OwedStaysInHand == RejectionSpec => [](RecordedIsOnFile /\ NoIntentIsForgotten)
<1>1. RejectionIInv => RecordedIsOnFile /\ NoIntentIsForgotten
    BY DEF RejectionIInv
<1>. QED BY <1>1, RejectionHoldsAtFirst, RejectionIsKept, PTL DEF RejectionSpec
=============================================================================

---------------------------- MODULE MCProcesses ----------------------------
(***************************************************************************)
(* The gateway as a process for TLC: the leases of its Koe, its lock file, *)
(* its life, the receipts of its restarts, the rejections it still owes    *)
(* workspace-git, and the state of its runtime.  `part` says which of the  *)
(* six a behaviour runs; the others keep their initial state, in which     *)
(* none of their fair actions is enabled.                                  *)
(***************************************************************************)
EXTENDS TurnLease, StateLock, GatewayProcess, RestartReceipts, SystemRejections,
        RuntimeState

CONSTANTS A, B, T1, T2, T3, T4, O1, O2, F1

(* Which Koe each of four turns is for, up to the names of both: all for   *)
(* one, all but one, two for each.                                         *)
For(others) == [t \in Turns |-> IF t \in others THEN B ELSE A]
Loads == {For({}), For({T4}), For({T3, T4})}

(* Turns for one Koe are alike: of the idle ones the first begins.         *)
Order == <<T1, T2, T3, T4>>
LeaseStep ==
    /\ Next /\ agentOf' = agentOf
    /\ \A i, j \in 1..4 :
          i < j /\ agentOf[Order[i]] = agentOf[Order[j]] /\ pc[Order[i]] = "idle"
              => (pc[Order[j]] = "idle" => pc'[Order[j]] = "idle")

(* So are pieces of work: of two idle ones the first is given.             *)
FirstTask == CHOOSE t \in Tasks : TRUE
GatewayStep ==
    /\ GatewayNext
    /\ busy[FirstTask] = {} => \A t \in Tasks \ {FirstTask} : busy[t] = {} => busy'[t] = {}

(* And the two plans of a session.                                         *)
RejectionStep == RejectionNext /\ (caller[O1] = "none" => caller'[O2] = "none")

VARIABLE part

processVars == <<vars, lockVars, gatewayVars, receiptVars, rejectionVars, runtimeVars, part>>

ProcessesInit ==
    /\ part \in {"lease", "lock", "gateway", "receipts", "rejections", "state"}
    /\ Init /\ LockInit /\ GatewayInit /\ ReceiptInit /\ RejectionInit
    /\ RuntimeInit /\ sections.generation.policy = F1
    /\ agentOf \in IF part = "lease" THEN Loads ELSE {For({T4})}
    /\ broker[O2] = "pending" /\ (part = "rejections" \/ broker[O1] = "pending")

ProcessesNext ==
    \/ /\ part = "lease" /\ LeaseStep
       /\ UNCHANGED <<lockVars, gatewayVars, receiptVars, rejectionVars, runtimeVars, part>>
    \/ /\ part = "lock" /\ LockNext
       /\ UNCHANGED <<vars, gatewayVars, receiptVars, rejectionVars, runtimeVars, part>>
    \/ /\ part = "gateway" /\ GatewayStep
       /\ UNCHANGED <<vars, lockVars, receiptVars, rejectionVars, runtimeVars, part>>
    \/ /\ part = "receipts" /\ ReceiptNext
       /\ UNCHANGED <<vars, lockVars, gatewayVars, rejectionVars, runtimeVars, part>>
    \/ /\ part = "rejections" /\ RejectionStep
       /\ UNCHANGED <<vars, lockVars, gatewayVars, receiptVars, runtimeVars, part>>
    \/ /\ part = "state" /\ RuntimeNext
       /\ UNCHANGED <<vars, lockVars, gatewayVars, receiptVars, rejectionVars, part>>

ProcessesSpec ==
    /\ ProcessesInit /\ [][ProcessesNext]_processVars
    /\ Fairness /\ LockFairness /\ GatewayFairness /\ RejectionFairness
=============================================================================

----------------------------- MODULE TurnLease -----------------------------
(***************************************************************************)
(* The turn lease of core/registry.ts: at most one turn of a Koe runs at a *)
(* time, later turns wait in FIFO order, a waiter may be cancelled through *)
(* its AbortSignal, and a drain waits until no lease and no waiter is left.*)
(*                                                                         *)
(* A turn asks for the lease of one agent with reserveAgentTurn (fails     *)
(* when the agent is busy) or waitForAgentTurn (queues).  It gets back a   *)
(* release closure, which the queue worker calls a second time when the    *)
(* router it lent the closure to has already called it.                    *)
(***************************************************************************)
EXTENDS Naturals, SequencesExt

CONSTANTS
    Agents,         \* agent ids
    Turns,          \* concurrent callers; one is reused once it is done
    Drainers,       \* callers of waitForTurnQueueIdle
    NoTurn          \* "no entry in #activeAgentTurnLeases"

ASSUME NoTurnAssumption == NoTurn \notin Turns

VARIABLES
    lease,          \* #activeAgentTurnLeases: the turn holding each agent
    queue,          \* #agentTurnWaiters: the FIFO of each agent
    pc,             \* where each turn is in its use of the lease
    agentOf,        \* the agent a turn asked for
    cancellable,    \* the waiter registered an abort listener
    idleWait        \* #idleWaiters, per drainer

vars == <<lease, queue, pc, agentOf, cancellable, idleWait>>

TurnStates == {"idle", "queued", "granted", "holding", "released"}

(* Type invariant of the lease table, its queues and its idle waiters.     *)
TypeOK ==
    /\ lease \in [Agents -> Turns \cup {NoTurn}]
    /\ queue \in [Agents -> Seq(Turns)]
    /\ pc \in [Turns -> TurnStates]
    /\ agentOf \in [Turns -> Agents]
    /\ cancellable \in [Turns -> BOOLEAN]
    /\ idleWait \in [Drainers -> {"off", "registered", "resolved"}]

Init ==
    /\ lease = [a \in Agents |-> NoTurn]
    /\ queue = [a \in Agents |-> <<>>]
    /\ pc = [t \in Turns |-> "idle"]
    /\ agentOf \in [Turns -> Agents]
    /\ cancellable = [t \in Turns |-> FALSE]
    /\ idleWait = [d \in Drainers |-> "off"]

-----------------------------------------------------------------------------

IsTurnQueueIdle(l, q) == \A a \in Agents : l[a] = NoTurn /\ q[a] = <<>>

(* #resolveIdleWaitersIfIdle, on the lease table and the queues the caller *)
(* leaves behind.                                                          *)
ResolveIdleWaitersIfIdle(l, q) ==
    idleWait' = IF IsTurnQueueIdle(l, q)
                THEN [d \in Drainers |-> IF idleWait[d] = "registered"
                                         THEN "resolved" ELSE idleWait[d]]
                ELSE idleWait

FreeLease(t) ==
    /\ lease' = [lease EXCEPT ![agentOf[t]] = NoTurn]
    /\ UNCHANGED queue
    /\ ResolveIdleWaitersIfIdle(lease', queue)

HandOffLease(t) ==
    /\ lease' = [lease EXCEPT ![agentOf[t]] = Head(queue[agentOf[t]])]
    /\ queue' = [queue EXCEPT ![agentOf[t]] = Tail(queue[agentOf[t]])]
    /\ UNCHANGED idleWait

(* Mutant: a release looks at neither the released flag nor the symbol of  *)
(* the lease.                                                              *)
ReleaseUnchecked(t) ==
    IF queue[agentOf[t]] = <<>> THEN FreeLease(t) ELSE HandOffLease(t)

(* Mutant: the release serves the newest waiter first.                     *)
ReleaseServesLast(t) ==
    IF lease[agentOf[t]] # t
    THEN UNCHANGED <<lease, queue, idleWait>>
    ELSE IF queue[agentOf[t]] = <<>>
         THEN FreeLease(t)
         ELSE /\ lease' = [lease EXCEPT ![agentOf[t]] = Last(queue[agentOf[t]])]
              /\ queue' = [queue EXCEPT ![agentOf[t]] = Front(queue[agentOf[t]])]
              /\ UNCHANGED idleWait

(* Mutant: the release forgets #resolveIdleWaitersIfIdle.                  *)
ReleaseSilently(t) ==
    IF lease[agentOf[t]] # t
    THEN UNCHANGED <<lease, queue, idleWait>>
    ELSE IF queue[agentOf[t]] = <<>>
         THEN /\ lease' = [lease EXCEPT ![agentOf[t]] = NoTurn]
              /\ UNCHANGED <<queue, idleWait>>
         ELSE HandOffLease(t)

(* The release closure of #grantAgentTurn: only the owner of the lease     *)
(* changes anything (the closure knows by its released flag and by the     *)
(* symbol of its lease); it hands the lease to the first waiter in the     *)
(* same step, or frees the agent and wakes the drain.                      *)
CallRelease(t) ==
    IF lease[agentOf[t]] # t
    THEN UNCHANGED <<lease, queue, idleWait>>
    ELSE IF queue[agentOf[t]] = <<>> THEN FreeLease(t) ELSE HandOffLease(t)

(* A release resolves the promise of the waiter it hands the lease to.     *)
PcAfterRelease(t, after) ==
    [u \in Turns |->
        IF u = t THEN after
        ELSE IF pc[u] = "queued" /\ lease'[agentOf[t]] = u /\ lease[agentOf[t]] # u
             THEN "granted" ELSE pc[u]]

-----------------------------------------------------------------------------

(* reserveAgentTurn on a free agent; a busy one throws AGENT_BUSY and      *)
(* changes nothing.                                                        *)
ReserveAgentTurn(t, a) ==
    /\ pc[t] = "idle"
    /\ lease[a] = NoTurn
    /\ lease' = [lease EXCEPT ![a] = t]
    /\ pc' = [pc EXCEPT ![t] = "holding"]
    /\ agentOf' = [agentOf EXCEPT ![t] = a]
    /\ UNCHANGED <<queue, cancellable, idleWait>>

(* waitForAgentTurn on a free agent: granted, but the caller runs only     *)
(* once its await resumes.                                                 *)
WaitGranted(t, a) ==
    /\ pc[t] = "idle"
    /\ lease[a] = NoTurn
    /\ lease' = [lease EXCEPT ![a] = t]
    /\ pc' = [pc EXCEPT ![t] = "granted"]
    /\ agentOf' = [agentOf EXCEPT ![t] = a]
    /\ UNCHANGED <<queue, cancellable, idleWait>>

(* waitForAgentTurn on a busy agent, with a signal or without.             *)
WaitQueued(t, a, signal) ==
    /\ pc[t] = "idle"
    /\ lease[a] # NoTurn
    /\ queue' = [queue EXCEPT ![a] = Append(@, t)]
    /\ pc' = [pc EXCEPT ![t] = "queued"]
    /\ agentOf' = [agentOf EXCEPT ![t] = a]
    /\ cancellable' = [cancellable EXCEPT ![t] = signal]
    /\ UNCHANGED <<lease, idleWait>>

(* The abort listener of a waiter: spliced out of the FIFO and rejected.   *)
(* A waiter that already has the lease has no listener any more.           *)
AbortWait(t) ==
    LET a == agentOf[t] IN
    /\ pc[t] = "queued"
    /\ cancellable[t]
    /\ \E i \in 1 .. Len(queue[a]) :
        /\ queue[a][i] = t
        /\ queue' = [queue EXCEPT ![a] = RemoveAt(@, i)]
    /\ pc' = [pc EXCEPT ![t] = "idle"]
    /\ cancellable' = [cancellable EXCEPT ![t] = FALSE]
    /\ ResolveIdleWaitersIfIdle(lease, queue')
    /\ UNCHANGED <<lease, agentOf>>

(* The await of a granted turn resumes.                                    *)
ResumeTurn(t) ==
    /\ pc[t] = "granted"
    /\ pc' = [pc EXCEPT ![t] = "holding"]
    /\ cancellable' = [cancellable EXCEPT ![t] = FALSE]
    /\ UNCHANGED <<lease, queue, agentOf, idleWait>>

(* The turn ends and calls its release closure.                            *)
Release(t) ==
    /\ pc[t] = "holding"
    /\ CallRelease(t)
    /\ pc' = PcAfterRelease(t, "released")
    /\ UNCHANGED <<agentOf, cancellable>>

(* The second call of a closure the router has already called, as the      *)
(* catch block of #runQueuedDelegationTurn makes; the caller is then done. *)
ReleaseAgain(t) ==
    /\ pc[t] = "released"
    /\ CallRelease(t)
    /\ pc' = PcAfterRelease(t, "idle")
    /\ UNCHANGED <<agentOf, cancellable>>

(* waitForTurnQueueIdle: resolved at once when idle, else registered.      *)
WaitForTurnQueueIdle(d) ==
    /\ idleWait[d] = "off"
    /\ idleWait' = [idleWait EXCEPT ![d] = IF IsTurnQueueIdle(lease, queue)
                                           THEN "resolved" ELSE "registered"]
    /\ UNCHANGED <<lease, queue, pc, agentOf, cancellable>>

(* The drain resumes; its caller decides whether to wait again.            *)
ResumeDrain(d) ==
    /\ idleWait[d] = "resolved"
    /\ idleWait' = [idleWait EXCEPT ![d] = "off"]
    /\ UNCHANGED <<lease, queue, pc, agentOf, cancellable>>

Next ==
    \/ \E t \in Turns, a \in Agents :
        \/ ReserveAgentTurn(t, a)
        \/ WaitGranted(t, a)
        \/ \E signal \in BOOLEAN : WaitQueued(t, a, signal)
    \/ \E t \in Turns :
        \/ AbortWait(t)
        \/ ResumeTurn(t)
        \/ Release(t)
        \/ ReleaseAgain(t)
    \/ \E d \in Drainers : WaitForTurnQueueIdle(d) \/ ResumeDrain(d)

(* A granted await resumes, and every holder releases in a finally block.  *)
Fairness == \A t \in Turns : WF_vars(ResumeTurn(t)) /\ WF_vars(Release(t))

Spec == Init /\ [][Next]_vars /\ Fairness

-----------------------------------------------------------------------------

HasLease(t) == pc[t] \in {"granted", "holding"}

(* No two turns of one Koe overlap: two turns that both believe they own   *)
(* the lease of an agent are the same turn, and the table names that turn. *)
(* A late second release of an earlier turn must not break this.           *)
LeaseIsExclusive ==
    \A t, u \in Turns :
        HasLease(t) /\ HasLease(u) /\ agentOf[t] = agentOf[u]
            => t = u /\ lease[agentOf[t]] = t

HolderIsRegistered == \A t \in Turns : HasLease(t) => lease[agentOf[t]] = t

EntryIsHeld ==
    \A a \in Agents : lease[a] # NoTurn => HasLease(lease[a]) /\ agentOf[lease[a]] = a

QueueHoldsWaiters ==
    \A a \in Agents : \A i \in 1 .. Len(queue[a]) :
        pc[queue[a][i]] = "queued" /\ agentOf[queue[a][i]] = a

QueueHasNoRepeats ==
    \A a \in Agents : \A i, j \in 1 .. Len(queue[a]) :
        queue[a][i] = queue[a][j] => i = j

WaiterIsQueued ==
    \A t \in Turns : pc[t] = "queued" =>
        \E i \in 1 .. Len(queue[agentOf[t]]) : queue[agentOf[t]][i] = t

WaitersBehindLease == \A a \in Agents : queue[a] # <<>> => lease[a] # NoTurn

(* The table, the queues and the turns tell one story: the lease entry of  *)
(* an agent names a turn that has it, a FIFO holds exactly the turns that  *)
(* wait, each once, and only behind a held lease (a waiter of a free agent *)
(* would never be woken).  It is the inductive invariant of the proofs.    *)
LeaseTableAgrees ==
    /\ TypeOK
    /\ HolderIsRegistered
    /\ EntryIsHeld
    /\ QueueHoldsWaiters
    /\ QueueHasNoRepeats
    /\ WaiterIsQueued
    /\ WaitersBehindLease

(* A drain never sleeps through the moment it waits for: while one is      *)
(* registered in #idleWaiters, some lease or waiter is still there to wake *)
(* it.                                                                     *)
NoMissedDrain ==
    (\E d \in Drainers : idleWait[d] = "registered")
        => ~IsTurnQueueIdle(lease, queue)

(* FIFO without barging: while somebody waits for an agent, its lease      *)
(* moves only to the first waiter, never to a newcomer and never to "free".*)
HandOffInOrder ==
    [][\A a \in Agents :
        queue[a] # <<>> /\ lease'[a] # lease[a] => lease'[a] = Head(queue[a])]_vars

=============================================================================

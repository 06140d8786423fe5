-------------------------- MODULE TurnLeaseProofs --------------------------
(***************************************************************************)
(* Proofs about TurnLease for any number of agents, turns and drains.  The *)
(* inductive invariant is LeaseTableAgrees; exclusion and the FIFO         *)
(* hand-off follow from it, and a drain is not missed relative to it.      *)
(***************************************************************************)
EXTENDS TurnLease, SequenceTheorems, TLAPS

USE NoTurnAssumption

(* Splicing a waiter out of a FIFO, as the abort listener does, keeps the  *)
(* other waiters, in their places up to the removed index and one place    *)
(* earlier after it.                                                       *)
LEMMA RemoveAtFacts ==
    ASSUME NEW S, NEW s \in Seq(S), NEW i \in 1 .. Len(s)
    PROVE  /\ RemoveAt(s, i) \in Seq(S)
           /\ Len(RemoveAt(s, i)) = Len(s) - 1
           /\ \A j \in 1 .. (Len(s) - 1) :
                RemoveAt(s, i)[j] = IF j < i THEN s[j] ELSE s[j + 1]
  <1> DEFINE l == SubSeq(s, 1, i - 1)
             r == SubSeq(s, i + 1, Len(s))
  <1>1. l \in Seq(S) /\ Len(l) = i - 1 /\ \A j \in 1 .. (i - 1) : l[j] = s[j]
    OBVIOUS
  <1>2. r \in Seq(S) /\ Len(r) = Len(s) - i /\ \A j \in 1 .. (Len(s) - i) : r[j] = s[i + j]
    OBVIOUS
  <1>3. RemoveAt(s, i) = l \o r
    BY DEF RemoveAt
  <1> HIDE DEF l, r
  <1>4. /\ l \o r \in Seq(S)
        /\ Len(l \o r) = Len(l) + Len(r)
        /\ \A j \in 1 .. Len(l) + Len(r) :
             (l \o r)[j] = IF j <= Len(l) THEN l[j] ELSE r[j - Len(l)]
    BY <1>1, <1>2, ConcatProperties
  <1>5. ASSUME NEW j \in 1 .. (Len(s) - 1)
        PROVE  (l \o r)[j] = IF j < i THEN s[j] ELSE s[j + 1]
    <2>1. CASE j < i
      BY <1>1, <1>2, <1>4, <2>1
    <2>2. CASE ~(j < i)
      <3>1. j - (i - 1) \in 1 .. (Len(s) - i)
        BY <2>2
      <3>2. (l \o r)[j] = r[j - (i - 1)]
        BY <1>1, <1>2, <1>4, <2>2
      <3>3. r[j - (i - 1)] = s[i + (j - (i - 1))]
        BY <1>2, <3>1
      <3> QED
        BY <2>2, <3>2, <3>3
    <2> QED
      BY <2>1, <2>2
  <1> QED
    BY <1>1, <1>2, <1>3, <1>4, <1>5

(* Every initial state agrees: no lease, no waiter.                        *)
LEMMA AgreesInitially == Init => LeaseTableAgrees
  BY DEF Init, LeaseTableAgrees, TypeOK, HolderIsRegistered, EntryIsHeld,
         QueueHoldsWaiters, QueueHasNoRepeats, WaiterIsQueued,
         WaitersBehindLease, TurnStates, HasLease

(* A step that leaves every FIFO alone, the queued turns queued and nobody *)
(* else, keeps what the FIFOs say.                                         *)
LEMMA QueueUntouched ==
    ASSUME LeaseTableAgrees, UNCHANGED queue, TypeOK',
           \A u \in Turns : /\ pc'[u] = "queued" <=> pc[u] = "queued"
                            /\ pc[u] = "queued" => agentOf'[u] = agentOf[u]
    PROVE  QueueHoldsWaiters' /\ QueueHasNoRepeats' /\ WaiterIsQueued'
  <1>1. QueueHoldsWaiters'
    BY DEF LeaseTableAgrees, TypeOK, QueueHoldsWaiters
  <1>2. QueueHasNoRepeats'
    BY DEF LeaseTableAgrees, QueueHasNoRepeats
  <1>3. WaiterIsQueued'
    BY DEF LeaseTableAgrees, WaiterIsQueued
  <1> QED
    BY <1>1, <1>2, <1>3

(* The hand-off of a release closure: the first waiter gets the lease.     *)
LEMMA HandOffAgrees ==
    ASSUME LeaseTableAgrees, NEW t \in Turns, NEW a \in Agents, a = agentOf[t],
           pc[t] = "holding", lease[a] = t, queue[a] # <<>>,
           HandOffLease(t), pc' = PcAfterRelease(t, "released"),
           UNCHANGED <<agentOf, cancellable>>
    PROVE  LeaseTableAgrees'
  <1> DEFINE h == Head(queue[a])
  <1>1. /\ lease' = [lease EXCEPT ![a] = h]
        /\ queue' = [queue EXCEPT ![a] = Tail(queue[a])]
        /\ idleWait' = idleWait
    BY DEF HandOffLease
  <1>2. queue[a] \in Seq(Turns) /\ Len(queue[a]) >= 1 /\ h = queue[a][1]
    BY DEF LeaseTableAgrees, TypeOK
  <1>3. h \in Turns /\ pc[h] = "queued" /\ agentOf[h] = a /\ h # t
    BY <1>2 DEF LeaseTableAgrees, QueueHoldsWaiters
  <1>4. /\ Tail(queue[a]) \in Seq(Turns)
        /\ Len(Tail(queue[a])) = Len(queue[a]) - 1
        /\ \A i \in 1 .. Len(Tail(queue[a])) : Tail(queue[a])[i] = queue[a][i + 1]
    BY <1>2
  <1>5. \A i \in 1 .. Len(queue[a]) : queue[a][i] = h => i = 1
    BY <1>2 DEF LeaseTableAgrees, QueueHasNoRepeats
  <1>6. lease'[a] = h /\ \A b \in Agents \ {a} : lease'[b] = lease[b]
    BY <1>1 DEF LeaseTableAgrees, TypeOK
  <1>7. queue'[a] = Tail(queue[a]) /\ \A b \in Agents \ {a} : queue'[b] = queue[b]
    BY <1>1 DEF LeaseTableAgrees, TypeOK
  <1> HIDE DEF h
  <1>8. /\ pc'[t] = "released" /\ pc'[h] = "granted"
        /\ \A u \in Turns \ {t, h} : pc'[u] = pc[u]
        /\ pc' \in [Turns -> TurnStates]
    BY <1>3, <1>6 DEF PcAfterRelease, LeaseTableAgrees, TypeOK, TurnStates
  <1>9. TypeOK'
    BY <1>1, <1>3, <1>4, <1>8 DEF LeaseTableAgrees, TypeOK
  <1>10. HolderIsRegistered'
    <2> SUFFICES ASSUME NEW u \in Turns, HasLease(u)'
                 PROVE  lease'[agentOf[u]] = u
      BY DEF HolderIsRegistered
    <2>1. CASE u = h
      BY <1>3, <1>6, <2>1
    <2>2. CASE u # h
      <3>1. u # t /\ HasLease(u)
        BY <1>8, <2>2 DEF HasLease
      <3>2. lease[agentOf[u]] = u /\ agentOf[u] \in Agents
        BY <3>1 DEF LeaseTableAgrees, HolderIsRegistered, TypeOK
      <3> QED
        BY <1>6, <3>1, <3>2
    <2> QED
      BY <2>1, <2>2
  <1>11. EntryIsHeld'
    <2> SUFFICES ASSUME NEW b \in Agents, lease'[b] # NoTurn
                 PROVE  pc'[lease'[b]] \in {"granted", "holding"} /\ agentOf[lease'[b]] = b
      BY DEF EntryIsHeld, HasLease
    <2>1. CASE b = a
      BY <1>3, <1>6, <1>8, <2>1 DEF HasLease
    <2>2. CASE b # a
      <3>1. lease'[b] = lease[b] /\ lease[b] \in Turns
        BY <1>6, <2>2 DEF LeaseTableAgrees, TypeOK
      <3>2. HasLease(lease[b]) /\ agentOf[lease[b]] = b
        BY <3>1 DEF LeaseTableAgrees, EntryIsHeld
      <3>3. lease[b] # t /\ lease[b] # h
        BY <1>3, <2>2, <3>2
      <3> QED
        BY <1>8, <3>1, <3>2, <3>3 DEF HasLease
    <2> QED
      BY <2>1, <2>2
  <1>12. QueueHoldsWaiters'
    <2> SUFFICES ASSUME NEW b \in Agents, NEW i \in 1 .. Len(queue'[b])
                 PROVE  pc'[queue'[b][i]] = "queued" /\ agentOf[queue'[b][i]] = b
      BY DEF QueueHoldsWaiters
    <2>1. CASE b = a
      <3>0. i \in 1 .. Len(Tail(queue[a])) /\ queue'[b][i] = Tail(queue[a])[i]
        BY <1>7, <2>1
      <3>1. queue'[b][i] = queue[a][i + 1] /\ i + 1 \in 1 .. Len(queue[a]) /\ i + 1 # 1
        BY <1>2, <1>4, <3>0
      <3>2. queue[a][i + 1] # h /\ queue[a][i + 1] \in Turns
        BY <1>2, <1>5, <3>1
      <3>3. pc[queue[a][i + 1]] = "queued" /\ agentOf[queue[a][i + 1]] = a
        BY <3>1 DEF LeaseTableAgrees, QueueHoldsWaiters
      <3>4. queue[a][i + 1] # t
        BY <3>3
      <3> QED
        BY <1>8, <2>1, <3>1, <3>2, <3>3, <3>4
    <2>2. CASE b # a
      <3>1. queue'[b] = queue[b] /\ queue[b] \in Seq(Turns)
        BY <1>7, <2>2 DEF LeaseTableAgrees, TypeOK
      <3>2. pc[queue[b][i]] = "queued" /\ agentOf[queue[b][i]] = b /\ queue[b][i] \in Turns
        BY <3>1 DEF LeaseTableAgrees, QueueHoldsWaiters
      <3>3. queue[b][i] # h /\ queue[b][i] # t
        BY <1>3, <2>2, <3>2
      <3> QED
        BY <1>8, <3>1, <3>2, <3>3
    <2> QED
      BY <2>1, <2>2
  <1>13. QueueHasNoRepeats'
    <2> SUFFICES ASSUME NEW b \in Agents, NEW i \in 1 .. Len(queue'[b]),
                        NEW j \in 1 .. Len(queue'[b]), queue'[b][i] = queue'[b][j]
                 PROVE  i = j
      BY DEF QueueHasNoRepeats
    <2>1. CASE b = a
      <3>0. /\ i \in 1 .. Len(Tail(queue[a])) /\ queue'[b][i] = Tail(queue[a])[i]
            /\ j \in 1 .. Len(Tail(queue[a])) /\ queue'[b][j] = Tail(queue[a])[j]
        BY <1>7, <2>1
      <3>1. queue'[b][i] = queue[a][i + 1] /\ queue'[b][j] = queue[a][j + 1]
        BY <1>4, <3>0
      <3>2. i + 1 \in 1 .. Len(queue[a]) /\ j + 1 \in 1 .. Len(queue[a])
        BY <1>2, <1>4, <3>0
      <3>4. i + 1 = j + 1
        BY <3>1, <3>2 DEF LeaseTableAgrees, QueueHasNoRepeats
      <3>3. i \in Int /\ j \in Int
        OBVIOUS
      <3> QED
        BY <3>3, <3>4
    <2>2. CASE b # a
      BY <1>7, <2>2 DEF LeaseTableAgrees, QueueHasNoRepeats
    <2> QED
      BY <2>1, <2>2
  <1>14. WaiterIsQueued'
    <2> SUFFICES ASSUME NEW u \in Turns, pc'[u] = "queued"
                 PROVE  \E i \in 1 .. Len(queue'[agentOf[u]]) : queue'[agentOf[u]][i] = u
      BY DEF WaiterIsQueued
    <2>1. pc[u] = "queued" /\ u # h /\ agentOf[u] \in Agents
      BY <1>8 DEF LeaseTableAgrees, TypeOK
    <2>2. PICK k \in 1 .. Len(queue[agentOf[u]]) : queue[agentOf[u]][k] = u
      BY <2>1 DEF LeaseTableAgrees, WaiterIsQueued
    <2>3. CASE agentOf[u] = a
      <3>1. k # 1
        BY <1>2, <2>1, <2>2, <2>3
      <3>2. k - 1 \in 1 .. Len(Tail(queue[a])) /\ Tail(queue[a])[k - 1] = u
        BY <1>2, <1>4, <2>2, <2>3, <3>1
      <3> QED
        BY <1>7, <2>3, <3>2
    <2>4. CASE agentOf[u] # a
      BY <1>7, <2>1, <2>2, <2>4
    <2> QED
      BY <2>3, <2>4
  <1>15. WaitersBehindLease'
    BY <1>3, <1>6, <1>7 DEF LeaseTableAgrees, WaitersBehindLease
  <1> QED
    BY <1>9, <1>10, <1>11, <1>12, <1>13, <1>14, <1>15 DEF LeaseTableAgrees

(* A release closure, called the first time by the holder or a second time *)
(* by a turn that no longer owns the lease, keeps the tables in agreement. *)
LEMMA ReleaseAgrees ==
    ASSUME LeaseTableAgrees, NEW t \in Turns, NEW a \in Agents, a = agentOf[t],
           NEW after \in {"released", "idle"},
           \/ pc[t] = "holding" /\ after = "released"
           \/ pc[t] = "released" /\ after = "idle",
           CallRelease(t), pc' = PcAfterRelease(t, after),
           UNCHANGED <<agentOf, cancellable>>
    PROVE  LeaseTableAgrees'
  <1>1. CASE lease[a] # t
    <2>1. UNCHANGED <<lease, queue, idleWait>>
      BY <1>1 DEF CallRelease
    <2>2. pc[t] = "released" /\ after = "idle"
      BY <1>1 DEF LeaseTableAgrees, HolderIsRegistered, HasLease
    <2>3. pc' = [pc EXCEPT ![t] = "idle"]
      BY <2>1, <2>2 DEF PcAfterRelease, LeaseTableAgrees, TypeOK
    <2>4. TypeOK'
      BY <2>1, <2>3 DEF LeaseTableAgrees, TypeOK, TurnStates
    <2>5. \A u \in Turns : /\ HasLease(u)' <=> HasLease(u)
                           /\ pc'[u] = "queued" <=> pc[u] = "queued"
      BY <2>2, <2>3 DEF LeaseTableAgrees, TypeOK, HasLease
    <2>6. HolderIsRegistered'
      BY <2>1, <2>5 DEF LeaseTableAgrees, HolderIsRegistered
    <2>7. EntryIsHeld'
      <3> SUFFICES ASSUME NEW b \in Agents, lease[b] # NoTurn
                   PROVE  pc'[lease[b]] \in {"granted", "holding"} /\ agentOf[lease[b]] = b
        BY <2>1 DEF EntryIsHeld, HasLease
      <3>1. /\ lease[b] \in Turns
            /\ pc[lease[b]] \in {"granted", "holding"} /\ agentOf[lease[b]] = b
        BY DEF LeaseTableAgrees, EntryIsHeld, HasLease, TypeOK
      <3> QED
        BY <2>2, <2>3, <3>1 DEF LeaseTableAgrees, TypeOK
    <2>8. QueueHoldsWaiters' /\ QueueHasNoRepeats' /\ WaiterIsQueued'
      BY <2>1, <2>4, <2>5, QueueUntouched
    <2>9. WaitersBehindLease'
      BY <2>1 DEF LeaseTableAgrees, WaitersBehindLease
    <2> QED
      BY <2>4, <2>6, <2>7, <2>8, <2>9 DEF LeaseTableAgrees
  <1>2. CASE lease[a] = t
    <2>1. pc[t] = "holding" /\ after = "released"
      BY <1>2 DEF LeaseTableAgrees, EntryIsHeld, HasLease
    <2>2. CASE queue[a] # <<>>
      <3>1. HandOffLease(t)
        BY <1>2, <2>2 DEF CallRelease
      <3> QED
        BY <1>2, <2>1, <2>2, <3>1, HandOffAgrees
    <2>3. CASE queue[a] = <<>>
      <3>1. /\ lease' = [lease EXCEPT ![a] = NoTurn] /\ queue' = queue
            /\ idleWait' \in [Drainers -> {"off", "registered", "resolved"}]
        BY <1>2, <2>3 DEF CallRelease, FreeLease, ResolveIdleWaitersIfIdle,
                          LeaseTableAgrees, TypeOK
      <3>2. lease'[a] = NoTurn /\ \A b \in Agents \ {a} : lease'[b] = lease[b]
        BY <3>1 DEF LeaseTableAgrees, TypeOK
      <3>3. pc' = [pc EXCEPT ![t] = "released"]
        BY <2>1, <3>2 DEF PcAfterRelease, LeaseTableAgrees, TypeOK
      <3>4. TypeOK'
        BY <3>1, <3>3 DEF LeaseTableAgrees, TypeOK, TurnStates
      <3>5. \A u \in Turns : /\ HasLease(u)' <=> HasLease(u) /\ u # t
                             /\ pc'[u] = "queued" <=> pc[u] = "queued"
        BY <2>1, <3>3 DEF LeaseTableAgrees, TypeOK, HasLease
      <3>6. HolderIsRegistered'
        <4> SUFFICES ASSUME NEW u \in Turns, HasLease(u)'
                     PROVE  lease'[agentOf[u]] = u
          BY DEF HolderIsRegistered
        <4>1. HasLease(u) /\ u # t
          BY <3>5
        <4>2. lease[agentOf[u]] = u /\ agentOf[u] \in Agents
          BY <4>1 DEF LeaseTableAgrees, HolderIsRegistered, TypeOK
        <4> QED
          BY <1>2, <3>2, <4>1, <4>2
      <3>7. EntryIsHeld'
        <4> SUFFICES ASSUME NEW b \in Agents, lease'[b] # NoTurn
                     PROVE  pc'[lease'[b]] \in {"granted", "holding"} /\ agentOf[lease'[b]] = b
          BY DEF EntryIsHeld, HasLease
        <4>1. b # a /\ lease'[b] = lease[b] /\ lease[b] \in Turns
          BY <3>2 DEF LeaseTableAgrees, TypeOK
        <4>2. pc[lease[b]] \in {"granted", "holding"} /\ agentOf[lease[b]] = b
          BY <4>1 DEF LeaseTableAgrees, EntryIsHeld, HasLease
        <4>3. lease[b] # t
          BY <4>1, <4>2
        <4> QED
          BY <3>3, <4>1, <4>2, <4>3 DEF LeaseTableAgrees, TypeOK
      <3>8. QueueHoldsWaiters' /\ QueueHasNoRepeats' /\ WaiterIsQueued'
        BY <3>1, <3>4, <3>5, QueueUntouched
      <3>9. WaitersBehindLease'
        BY <2>3, <3>1, <3>2 DEF LeaseTableAgrees, WaitersBehindLease
      <3> QED
        BY <3>4, <3>6, <3>7, <3>8, <3>9 DEF LeaseTableAgrees
    <2> QED
      BY <2>2, <2>3
  <1> QED
    BY <1>1, <1>2

(* Granting a free agent, reserved or awaited, keeps the tables in         *)
(* agreement.                                                              *)
LEMMA GrantAgrees ==
    ASSUME LeaseTableAgrees, NEW t \in Turns, NEW a \in Agents,
           NEW after \in {"holding", "granted"},
           pc[t] = "idle", lease[a] = NoTurn,
           lease' = [lease EXCEPT ![a] = t], pc' = [pc EXCEPT ![t] = after],
           agentOf' = [agentOf EXCEPT ![t] = a],
           UNCHANGED <<queue, cancellable, idleWait>>
    PROVE  LeaseTableAgrees'
  <1>1. TypeOK'
    BY DEF LeaseTableAgrees, TypeOK, TurnStates
  <1>2. \A u \in Turns \ {t} : pc'[u] = pc[u] /\ agentOf'[u] = agentOf[u]
    BY DEF LeaseTableAgrees, TypeOK
  <1>3. pc'[t] = after /\ agentOf'[t] = a
    BY DEF LeaseTableAgrees, TypeOK
  <1>4. lease'[a] = t /\ \A b \in Agents \ {a} : lease'[b] = lease[b]
    BY DEF LeaseTableAgrees, TypeOK
  <1>5. HolderIsRegistered'
    <2> SUFFICES ASSUME NEW u \in Turns, pc'[u] \in {"granted", "holding"}
                 PROVE  lease'[agentOf'[u]] = u
      BY DEF HolderIsRegistered, HasLease
    <2>1. CASE u = t
      BY <1>3, <1>4, <2>1
    <2>2. CASE u # t
      <3>1. lease[agentOf[u]] = u /\ agentOf[u] \in Agents
        BY <1>2, <2>2 DEF LeaseTableAgrees, HolderIsRegistered, HasLease, TypeOK
      <3> QED
        BY <1>2, <1>4, <2>2, <3>1
    <2> QED
      BY <2>1, <2>2
  <1>6. EntryIsHeld'
    <2> SUFFICES ASSUME NEW b \in Agents, lease'[b] # NoTurn
                 PROVE  pc'[lease'[b]] \in {"granted", "holding"} /\ agentOf'[lease'[b]] = b
      BY DEF EntryIsHeld, HasLease
    <2>1. CASE b = a
      BY <1>3, <1>4, <2>1
    <2>2. CASE b # a
      <3>1. /\ lease'[b] = lease[b] /\ lease[b] \in Turns
            /\ pc[lease[b]] \in {"granted", "holding"} /\ agentOf[lease[b]] = b
        BY <1>4, <2>2 DEF LeaseTableAgrees, EntryIsHeld, HasLease, TypeOK
      <3> QED
        BY <1>2, <3>1
    <2> QED
      BY <2>1, <2>2
  <1>7. QueueHoldsWaiters' /\ QueueHasNoRepeats' /\ WaiterIsQueued'
    <2>1. \A u \in Turns : /\ pc'[u] = "queued" <=> pc[u] = "queued"
                           /\ pc[u] = "queued" => agentOf'[u] = agentOf[u]
      BY <1>2, <1>3
    <2> QED
      BY <1>1, <2>1, QueueUntouched
  <1>8. WaitersBehindLease'
    BY <1>4 DEF LeaseTableAgrees, WaitersBehindLease
  <1> QED
    BY <1>1, <1>5, <1>6, <1>7, <1>8 DEF LeaseTableAgrees

(* Queueing behind a busy agent keeps the tables in agreement.             *)
LEMMA WaitAgrees ==
    ASSUME LeaseTableAgrees, NEW t \in Turns, NEW a \in Agents, NEW signal \in BOOLEAN,
           WaitQueued(t, a, signal)
    PROVE  LeaseTableAgrees'
  <1>1. TypeOK'
    BY DEF LeaseTableAgrees, TypeOK, TurnStates, WaitQueued
  <1>2. /\ \A u \in Turns \ {t} : pc'[u] = pc[u] /\ agentOf'[u] = agentOf[u]
        /\ pc'[t] = "queued" /\ agentOf'[t] = a /\ pc[t] = "idle"
    BY DEF LeaseTableAgrees, TypeOK, WaitQueued
  <1>3. /\ queue'[a] = Append(queue[a], t) /\ queue[a] \in Seq(Turns)
        /\ \A b \in Agents \ {a} : queue'[b] = queue[b]
    BY DEF LeaseTableAgrees, TypeOK, WaitQueued
  <1>4. /\ Len(queue'[a]) = Len(queue[a]) + 1
        /\ queue'[a][Len(queue[a]) + 1] = t
        /\ \A i \in 1 .. Len(queue[a]) : queue'[a][i] = queue[a][i]
    BY <1>3
  <1>5. \A b \in Agents : \A i \in 1 .. Len(queue[b]) :
           /\ queue[b][i] \in Turns /\ queue[b][i] # t
           /\ pc[queue[b][i]] = "queued" /\ agentOf[queue[b][i]] = b
    BY <1>2 DEF LeaseTableAgrees, TypeOK, QueueHoldsWaiters
  <1>6. UNCHANGED <<lease, idleWait>> /\ lease[a] # NoTurn
    BY DEF WaitQueued
  <1>7. HolderIsRegistered'
    BY <1>2, <1>6 DEF LeaseTableAgrees, HolderIsRegistered, HasLease
  <1>8. EntryIsHeld'
    <2> SUFFICES ASSUME NEW b \in Agents, lease[b] # NoTurn
                 PROVE  pc'[lease[b]] \in {"granted", "holding"} /\ agentOf'[lease[b]] = b
      BY <1>6 DEF EntryIsHeld, HasLease
    <2>1. /\ lease[b] \in Turns
          /\ pc[lease[b]] \in {"granted", "holding"} /\ agentOf[lease[b]] = b
      BY DEF LeaseTableAgrees, EntryIsHeld, HasLease, TypeOK
    <2> QED
      BY <1>2, <2>1
  <1>9. QueueHoldsWaiters'
    <2> SUFFICES ASSUME NEW b \in Agents, NEW i \in 1 .. Len(queue'[b])
                 PROVE  pc'[queue'[b][i]] = "queued" /\ agentOf'[queue'[b][i]] = b
      BY DEF QueueHoldsWaiters
    <2>1. CASE b = a /\ i = Len(queue[a]) + 1
      BY <1>2, <1>4, <2>1
    <2>2. CASE b = a /\ i # Len(queue[a]) + 1
      <3>1. i \in 1 .. Len(queue[a])
        BY <1>3, <1>4, <2>2
      <3> QED
        BY <1>2, <1>4, <1>5, <2>2, <3>1
    <2>3. CASE b # a
      BY <1>2, <1>3, <1>5, <2>3
    <2> QED
      BY <2>1, <2>2, <2>3
  <1>10. QueueHasNoRepeats'
    <2> SUFFICES ASSUME NEW b \in Agents, NEW i \in 1 .. Len(queue'[b]),
                        NEW j \in 1 .. Len(queue'[b]), queue'[b][i] = queue'[b][j]
                 PROVE  i = j
      BY DEF QueueHasNoRepeats
    <2>1. CASE b # a
      BY <1>3, <2>1 DEF LeaseTableAgrees, QueueHasNoRepeats
    <2>2. CASE b = a
      <3> DEFINE n == Len(queue[a])
      <3>1. n \in Nat /\ (i \in 1 .. n \/ i = n + 1) /\ (j \in 1 .. n \/ j = n + 1)
        BY <1>3, <1>4, <2>2
      <3>2. CASE i \in 1 .. n /\ j \in 1 .. n
        BY <1>4, <2>2, <3>2 DEF LeaseTableAgrees, QueueHasNoRepeats
      <3>3. CASE i = n + 1 /\ j \in 1 .. n
        BY <1>4, <1>5, <2>2, <3>3
      <3>4. CASE i \in 1 .. n /\ j = n + 1
        BY <1>4, <1>5, <2>2, <3>4
      <3> QED
        BY <3>1, <3>2, <3>3, <3>4
    <2> QED
      BY <2>1, <2>2
  <1>11. WaiterIsQueued'
    <2> SUFFICES ASSUME NEW u \in Turns, pc'[u] = "queued"
                 PROVE  \E i \in 1 .. Len(queue'[agentOf'[u]]) : queue'[agentOf'[u]][i] = u
      BY DEF WaiterIsQueued
    <2>1. CASE u = t
      <3>1. Len(queue[a]) + 1 \in 1 .. Len(queue'[a])
        BY <1>3, <1>4
      <3> QED
        BY <1>2, <1>4, <2>1, <3>1
    <2>2. CASE u # t
      <3>1. pc[u] = "queued" /\ agentOf'[u] = agentOf[u] /\ agentOf[u] \in Agents
        BY <1>2, <2>2 DEF LeaseTableAgrees, TypeOK
      <3>2. PICK k \in 1 .. Len(queue[agentOf[u]]) : queue[agentOf[u]][k] = u
        BY <3>1 DEF LeaseTableAgrees, WaiterIsQueued
      <3>3. CASE agentOf[u] = a
        <4>1. k \in 1 .. Len(queue'[a])
          BY <1>3, <1>4, <3>2, <3>3
        <4> QED
          BY <1>4, <3>1, <3>2, <3>3, <4>1
      <3>4. CASE agentOf[u] # a
        BY <1>3, <3>1, <3>2, <3>4
      <3> QED
        BY <3>3, <3>4
    <2> QED
      BY <2>1, <2>2
  <1>12. WaitersBehindLease'
    BY <1>3, <1>6 DEF LeaseTableAgrees, WaitersBehindLease
  <1> QED
    BY <1>1, <1>7, <1>8, <1>9, <1>10, <1>11, <1>12 DEF LeaseTableAgrees

(* The abort of a waiter keeps the tables in agreement: it leaves its FIFO *)
(* without disturbing the order of the others.                             *)
LEMMA AbortAgrees ==
    ASSUME LeaseTableAgrees, NEW t \in Turns, AbortWait(t)
    PROVE  LeaseTableAgrees'
  <1> DEFINE a == agentOf[t]
  <1>1. a \in Agents /\ queue[a] \in Seq(Turns)
    BY DEF LeaseTableAgrees, TypeOK
  <1>2. PICK k \in 1 .. Len(queue[a]) :
           queue[a][k] = t /\ queue' = [queue EXCEPT ![a] = RemoveAt(@, k)]
    BY DEF AbortWait
  <1>3. /\ pc[t] = "queued" /\ pc' = [pc EXCEPT ![t] = "idle"]
        /\ cancellable' = [cancellable EXCEPT ![t] = FALSE]
        /\ UNCHANGED <<lease, agentOf>>
        /\ ResolveIdleWaitersIfIdle(lease, queue')
    BY DEF AbortWait
  <1> HIDE DEF a
  <1>4. /\ RemoveAt(queue[a], k) \in Seq(Turns)
        /\ Len(RemoveAt(queue[a], k)) = Len(queue[a]) - 1
        /\ \A j \in 1 .. (Len(queue[a]) - 1) :
             RemoveAt(queue[a], k)[j] = IF j < k THEN queue[a][j] ELSE queue[a][j + 1]
    BY <1>1, RemoveAtFacts
  <1>5. /\ queue'[a] = RemoveAt(queue[a], k)
        /\ \A b \in Agents \ {a} : queue'[b] = queue[b]
    BY <1>1, <1>2 DEF LeaseTableAgrees, TypeOK
  <1>6. pc'[t] = "idle" /\ \A u \in Turns \ {t} : pc'[u] = pc[u]
    BY <1>3 DEF LeaseTableAgrees, TypeOK
  <1>7. TypeOK'
    <2>1. queue' \in [Agents -> Seq(Turns)]
      BY <1>1, <1>2, <1>4 DEF LeaseTableAgrees, TypeOK
    <2>2. idleWait' \in [Drainers -> {"off", "registered", "resolved"}]
      BY <1>3 DEF ResolveIdleWaitersIfIdle, LeaseTableAgrees, TypeOK
    <2> QED
      BY <1>3, <2>1, <2>2 DEF LeaseTableAgrees, TypeOK, TurnStates
  <1>8. HolderIsRegistered'
    BY <1>3, <1>6 DEF LeaseTableAgrees, HolderIsRegistered, HasLease
  <1>9. EntryIsHeld'
    <2> SUFFICES ASSUME NEW b \in Agents, lease[b] # NoTurn
                 PROVE  pc'[lease[b]] \in {"granted", "holding"} /\ agentOf[lease[b]] = b
      BY <1>3 DEF EntryIsHeld, HasLease
    <2>1. /\ lease[b] \in Turns
          /\ pc[lease[b]] \in {"granted", "holding"} /\ agentOf[lease[b]] = b
      BY DEF LeaseTableAgrees, EntryIsHeld, HasLease, TypeOK
    <2> QED
      BY <1>3, <1>6, <2>1
  (* Where the entry i of the spliced FIFO came from.                      *)
  <1>10. ASSUME NEW i \in 1 .. Len(queue'[a])
         PROVE  LET o == IF i < k THEN i ELSE i + 1 IN
                /\ o \in 1 .. Len(queue[a]) /\ o # k
                /\ queue'[a][i] = queue[a][o]
    <2>1. i \in 1 .. (Len(queue[a]) - 1)
      BY <1>4, <1>5
    <2>2. queue'[a][i] = IF i < k THEN queue[a][i] ELSE queue[a][i + 1]
      BY <1>4, <1>5, <2>1
    <2> QED
      BY <1>1, <2>1, <2>2
  <1>11. QueueHoldsWaiters'
    <2> SUFFICES ASSUME NEW b \in Agents, NEW i \in 1 .. Len(queue'[b])
                 PROVE  pc'[queue'[b][i]] = "queued" /\ agentOf[queue'[b][i]] = b
      BY <1>3 DEF QueueHoldsWaiters
    <2>1. CASE b = a
      <3>1. PICK o \in 1 .. Len(queue[a]) : o # k /\ queue'[a][i] = queue[a][o]
        BY <1>10, <2>1
      <3>2. queue[a][o] # t /\ queue[a][o] \in Turns
        BY <1>1, <1>2, <3>1 DEF LeaseTableAgrees, QueueHasNoRepeats
      <3>3. pc[queue[a][o]] = "queued" /\ agentOf[queue[a][o]] = a
        BY <1>1, <3>1 DEF LeaseTableAgrees, QueueHoldsWaiters
      <3> QED
        BY <1>6, <2>1, <3>1, <3>2, <3>3
    <2>2. CASE b # a
      <3>1. /\ queue'[b] = queue[b] /\ queue[b][i] \in Turns
            /\ pc[queue[b][i]] = "queued" /\ agentOf[queue[b][i]] = b
        BY <1>5, <2>2 DEF LeaseTableAgrees, QueueHoldsWaiters, TypeOK
      <3>2. queue[b][i] # t
        BY <2>2, <3>1 DEF a
      <3> QED
        BY <1>6, <3>1, <3>2
    <2> QED
      BY <2>1, <2>2
  <1>12. QueueHasNoRepeats'
    <2> SUFFICES ASSUME NEW b \in Agents, NEW i \in 1 .. Len(queue'[b]),
                        NEW j \in 1 .. Len(queue'[b]), queue'[b][i] = queue'[b][j]
                 PROVE  i = j
      BY DEF QueueHasNoRepeats
    <2>1. CASE b = a
      <3> DEFINE oi == IF i < k THEN i ELSE i + 1
                 oj == IF j < k THEN j ELSE j + 1
      <3>1. oi \in 1 .. Len(queue[a]) /\ queue'[a][i] = queue[a][oi]
        BY <1>10, <2>1
      <3>2. oj \in 1 .. Len(queue[a]) /\ queue'[a][j] = queue[a][oj]
        BY <1>10, <2>1
      <3>3. oi = oj
        BY <1>1, <2>1, <3>1, <3>2 DEF LeaseTableAgrees, QueueHasNoRepeats
      <3>4. i \in Int /\ j \in Int /\ k \in Int
        OBVIOUS
      <3> QED
        BY <3>3, <3>4
    <2>2. CASE b # a
      BY <1>5, <2>2 DEF LeaseTableAgrees, QueueHasNoRepeats
    <2> QED
      BY <2>1, <2>2
  <1>13. WaiterIsQueued'
    <2> SUFFICES ASSUME NEW u \in Turns, pc'[u] = "queued"
                 PROVE  \E i \in 1 .. Len(queue'[agentOf[u]]) : queue'[agentOf[u]][i] = u
      BY <1>3 DEF WaiterIsQueued
    <2>1. u # t /\ pc[u] = "queued" /\ agentOf[u] \in Agents
      BY <1>6 DEF LeaseTableAgrees, TypeOK
    <2>2. PICK m \in 1 .. Len(queue[agentOf[u]]) : queue[agentOf[u]][m] = u
      BY <2>1 DEF LeaseTableAgrees, WaiterIsQueued
    <2>3. CASE agentOf[u] = a
      <3> DEFINE n == IF m < k THEN m ELSE m - 1
      <3>1. m # k
        BY <1>2, <2>1, <2>2, <2>3
      <3>2. n \in 1 .. (Len(queue[a]) - 1) /\ m = IF n < k THEN n ELSE n + 1
        BY <1>1, <2>2, <2>3, <3>1
      <3> HIDE DEF n
      <3>3. queue'[a][n] = u
        BY <1>4, <1>5, <2>2, <2>3, <3>2
      <3>4. n \in 1 .. Len(queue'[a])
        BY <1>4, <1>5, <3>2
      <3> QED
        BY <2>3, <3>3, <3>4
    <2>4. CASE agentOf[u] # a
      BY <1>5, <2>1, <2>2, <2>4
    <2> QED
      BY <2>3, <2>4
  <1>14. WaitersBehindLease'
    <2>1. lease[a] # NoTurn
      BY <1>1, <1>2 DEF LeaseTableAgrees, WaitersBehindLease
    <2> QED
      BY <1>3, <1>5, <2>1 DEF LeaseTableAgrees, WaitersBehindLease
  <1> QED
    BY <1>7, <1>8, <1>9, <1>11, <1>12, <1>13, <1>14 DEF LeaseTableAgrees

(* A granted await that resumes keeps the tables in agreement.             *)
LEMMA ResumeAgrees ==
    ASSUME LeaseTableAgrees, NEW t \in Turns, ResumeTurn(t)
    PROVE  LeaseTableAgrees'
  <1>1. TypeOK'
    BY DEF LeaseTableAgrees, TypeOK, TurnStates, ResumeTurn
  <1>2. \A u \in Turns : /\ pc'[u] \in {"granted", "holding"} <=> pc[u] \in {"granted", "holding"}
                         /\ pc'[u] = "queued" <=> pc[u] = "queued"
    BY DEF LeaseTableAgrees, TypeOK, ResumeTurn
  <1>3. UNCHANGED <<lease, queue, agentOf>>
    BY DEF ResumeTurn
  <1>4. HolderIsRegistered'
    BY <1>2, <1>3 DEF LeaseTableAgrees, HolderIsRegistered, HasLease
  <1>5. EntryIsHeld'
    BY <1>2, <1>3 DEF LeaseTableAgrees, EntryIsHeld, HasLease, TypeOK
  <1>6. QueueHoldsWaiters' /\ QueueHasNoRepeats' /\ WaiterIsQueued'
    BY <1>1, <1>2, <1>3, QueueUntouched
  <1>7. WaitersBehindLease'
    BY <1>3 DEF LeaseTableAgrees, WaitersBehindLease
  <1> QED
    BY <1>1, <1>4, <1>5, <1>6, <1>7 DEF LeaseTableAgrees

(* A step of a drain touches only #idleWaiters.                            *)
LEMMA DrainAgrees ==
    ASSUME LeaseTableAgrees, NEW d \in Drainers, WaitForTurnQueueIdle(d) \/ ResumeDrain(d)
    PROVE  LeaseTableAgrees'
  <1>1. TypeOK'
    BY DEF LeaseTableAgrees, TypeOK, WaitForTurnQueueIdle, ResumeDrain
  <1>2. UNCHANGED <<lease, queue, pc, agentOf, cancellable>>
    BY DEF WaitForTurnQueueIdle, ResumeDrain
  <1> QED
    BY <1>1, <1>2 DEF LeaseTableAgrees, HolderIsRegistered, EntryIsHeld, QueueHoldsWaiters,
                      QueueHasNoRepeats, WaiterIsQueued, WaitersBehindLease, HasLease

(* Every step keeps the lease table, the FIFOs and the turns in agreement. *)
LEMMA AgreesInductive == LeaseTableAgrees /\ [Next]_vars => LeaseTableAgrees'
  <1> SUFFICES ASSUME LeaseTableAgrees, [Next]_vars PROVE LeaseTableAgrees'
    OBVIOUS
  <1>1. ASSUME NEW t \in Turns, NEW a \in Agents, ReserveAgentTurn(t, a)
        PROVE  LeaseTableAgrees'
    BY <1>1, GrantAgrees DEF ReserveAgentTurn
  <1>2. ASSUME NEW t \in Turns, NEW a \in Agents, WaitGranted(t, a)
        PROVE  LeaseTableAgrees'
    BY <1>2, GrantAgrees DEF WaitGranted
  <1>3. ASSUME NEW t \in Turns, NEW a \in Agents, NEW signal \in BOOLEAN,
               WaitQueued(t, a, signal)
        PROVE  LeaseTableAgrees'
    BY <1>3, WaitAgrees
  <1>4. ASSUME NEW t \in Turns, AbortWait(t) PROVE LeaseTableAgrees'
    BY <1>4, AbortAgrees
  <1>5. ASSUME NEW t \in Turns, ResumeTurn(t) PROVE LeaseTableAgrees'
    BY <1>5, ResumeAgrees
  <1>6. \A t \in Turns : agentOf[t] \in Agents
    BY DEF LeaseTableAgrees, TypeOK
  <1>7. ASSUME NEW t \in Turns, Release(t) PROVE LeaseTableAgrees'
    BY <1>6, <1>7, ReleaseAgrees DEF Release
  <1>8. ASSUME NEW t \in Turns, ReleaseAgain(t) PROVE LeaseTableAgrees'
    BY <1>6, <1>8, ReleaseAgrees DEF ReleaseAgain
  <1>9. ASSUME NEW d \in Drainers, WaitForTurnQueueIdle(d) \/ ResumeDrain(d)
        PROVE  LeaseTableAgrees'
    BY <1>9, DrainAgrees
  <1>10. CASE UNCHANGED vars
    BY <1>10 DEF vars, LeaseTableAgrees, TypeOK, HolderIsRegistered, EntryIsHeld,
                 QueueHoldsWaiters, QueueHasNoRepeats, WaiterIsQueued,
                 WaitersBehindLease, HasLease
  <1> QED
    BY <1>1, <1>2, <1>3, <1>4, <1>5, <1>7, <1>8, <1>9, <1>10 DEF Next

(* For every number of agents and turns, the lease table, the FIFOs and    *)
(* the turns agree in every reachable state: no waiter is stranded behind  *)
(* a free agent, none is lost and none is queued twice.                    *)
THEOREM TablesAgree == Spec => []LeaseTableAgrees
  BY AgreesInitially, AgreesInductive, PTL DEF Spec

(* At most one turn of a Koe runs at a time, whatever late releases and    *)
(* cancellations happen.                                                   *)
THEOREM TurnsExclude == Spec => []LeaseIsExclusive
  <1>1. LeaseTableAgrees => LeaseIsExclusive
    BY DEF LeaseTableAgrees, LeaseIsExclusive, HolderIsRegistered
  <1> QED
    BY <1>1, TablesAgree, PTL

(* A contended lease moves only to the first waiter.                       *)
THEOREM HandOffIsFifo == Spec => HandOffInOrder
  <1> DEFINE Moves == \A a \in Agents :
               queue[a] # <<>> /\ lease'[a] # lease[a] => lease'[a] = Head(queue[a])
  <1>1. ASSUME LeaseTableAgrees, [Next]_vars PROVE [Moves]_vars
    <2> SUFFICES ASSUME Next, NEW a \in Agents, queue[a] # <<>>, lease'[a] # lease[a]
                 PROVE  lease'[a] = Head(queue[a])
      BY <1>1
    <2>1. lease[a] # NoTurn
      BY <1>1 DEF LeaseTableAgrees, WaitersBehindLease
    <2>2. ASSUME NEW t \in Turns, CallRelease(t) PROVE lease'[a] = Head(queue[a])
      <3>1. agentOf[t] = a /\ HandOffLease(t)
        BY <1>1, <2>2 DEF CallRelease, FreeLease, HandOffLease, LeaseTableAgrees, TypeOK
      <3> QED
        BY <1>1, <3>1 DEF HandOffLease, LeaseTableAgrees, TypeOK
    <2>3. ASSUME NEW t \in Turns, NEW b \in Agents,
                 ReserveAgentTurn(t, b) \/ WaitGranted(t, b)
          PROVE  FALSE
      BY <1>1, <2>1, <2>3 DEF ReserveAgentTurn, WaitGranted, LeaseTableAgrees, TypeOK
    <2>4. PICK t \in Turns : CallRelease(t)
      BY <2>3 DEF Next, WaitQueued, AbortWait, ResumeTurn, Release, ReleaseAgain,
                  WaitForTurnQueueIdle, ResumeDrain
    <2> QED
      BY <2>2, <2>4
  <1> QED
    BY <1>1, TablesAgree, PTL DEF Spec, HandOffInOrder

(* No drain is registered while nothing is left to wake it.                *)
THEOREM DrainIsWoken == Spec => []NoMissedDrain
  <1>1. Init => NoMissedDrain
    BY DEF Init, NoMissedDrain
  <1>2. ASSUME LeaseTableAgrees, NoMissedDrain, [Next]_vars PROVE NoMissedDrain'
    <2> SUFFICES ASSUME NEW d \in Drainers, idleWait'[d] = "registered",
                        IsTurnQueueIdle(lease', queue')
                 PROVE  FALSE
      BY DEF NoMissedDrain
    <2>1. ASSUME idleWait'[d] = idleWait[d] PROVE ~IsTurnQueueIdle(lease, queue)
      BY <1>2, <2>1 DEF NoMissedDrain
    <2>2. ASSUME ResolveIdleWaitersIfIdle(lease', queue') PROVE FALSE
      <3>1. idleWait'[d] = IF idleWait[d] = "registered" THEN "resolved" ELSE idleWait[d]
        BY <2>2 DEF ResolveIdleWaitersIfIdle
      <3> QED
        BY <3>1
    <2>3. ASSUME NEW t \in Turns, NEW a \in Agents,
                 ReserveAgentTurn(t, a) \/ WaitGranted(t, a)
          PROVE  FALSE
      <3>1. lease'[a] = t
        BY <1>2, <2>3 DEF ReserveAgentTurn, WaitGranted, LeaseTableAgrees, TypeOK
      <3> QED
        BY <3>1 DEF IsTurnQueueIdle
    <2>4. ASSUME NEW t \in Turns, NEW a \in Agents, NEW signal \in BOOLEAN,
                 WaitQueued(t, a, signal)
          PROVE  FALSE
      BY <2>4 DEF WaitQueued, IsTurnQueueIdle
    <2>5. ASSUME NEW t \in Turns, AbortWait(t) PROVE FALSE
      BY <2>2, <2>5 DEF AbortWait
    <2>6. ASSUME NEW t \in Turns, CallRelease(t) PROVE FALSE
      <3>1. CASE lease[agentOf[t]] # t
        BY <2>1, <2>6, <3>1 DEF CallRelease
      <3>2. CASE FreeLease(t)
        BY <2>2, <3>2 DEF FreeLease
      <3>3. CASE lease[agentOf[t]] = t /\ queue[agentOf[t]] # <<>> /\ HandOffLease(t)
        <4>1. idleWait' = idleWait /\ agentOf[t] \in Agents /\ lease[agentOf[t]] # NoTurn
          BY <1>2, <3>3 DEF HandOffLease, LeaseTableAgrees, TypeOK
        <4>2. lease'[agentOf[t]] = Head(queue[agentOf[t]]) /\ queue[agentOf[t]] \in Seq(Turns)
          BY <1>2, <3>3, <4>1 DEF HandOffLease, LeaseTableAgrees, TypeOK
        <4>3. lease'[agentOf[t]] \in Turns
          BY <3>3, <4>2
        <4> QED
          BY <4>1, <4>3 DEF IsTurnQueueIdle
      <3> QED
        BY <2>6, <3>1, <3>2, <3>3 DEF CallRelease
    <2>7. ASSUME NEW t \in Turns, ResumeTurn(t) PROVE FALSE
      BY <2>1, <2>7 DEF ResumeTurn
    <2>8. ASSUME NEW e \in Drainers, WaitForTurnQueueIdle(e) PROVE FALSE
      <3>1. UNCHANGED <<lease, queue>>
        BY <2>8 DEF WaitForTurnQueueIdle
      <3>2. d = e
        BY <1>2, <2>1, <2>8, <3>1 DEF WaitForTurnQueueIdle, LeaseTableAgrees, TypeOK
      <3>3. idleWait'[d] = "resolved"
        BY <1>2, <2>8, <3>1, <3>2 DEF WaitForTurnQueueIdle, LeaseTableAgrees, TypeOK
      <3> QED
        BY <3>3
    <2>9. ASSUME NEW e \in Drainers, ResumeDrain(e) PROVE FALSE
      BY <1>2, <2>1, <2>9 DEF ResumeDrain, LeaseTableAgrees, TypeOK
    <2>10. CASE UNCHANGED vars
      BY <2>1, <2>10 DEF vars
    <2> QED
      BY <1>2, <2>3, <2>4, <2>5, <2>6, <2>7, <2>8, <2>9, <2>10 DEF Next, Release, ReleaseAgain
  <1> QED
    BY <1>1, <1>2, TablesAgree, PTL DEF Spec
=============================================================================

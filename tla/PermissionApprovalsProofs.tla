---------------------- MODULE PermissionApprovalsProofs ----------------------
(***************************************************************************)
(* An allowed request is final, an allowed card is true and a session      *)
(* grant was given, for any requests, failures and restarts.               *)
(***************************************************************************)
EXTENDS PermissionApprovals, SequenceTheorems, FiniteSetTheorems, TLAPS

Has(q, a) == \E i \in 1 .. Len(q) : q[i] = a
Once(q) == \A i, j \in 1 .. Len(q) : q[i] = q[j] => i = j
InOrder(q, a, b) == \A i, j \in 1 .. Len(q) : q[i] = a /\ q[j] = b => i < j

(* The mutation whose save is in flight.                                   *)
Writes(a) == saving /\ Head(queue) = a

IsList(l) ==
    /\ l.routes \subseteq Requests /\ DOMAIN l.settled \subseteq l.routes
    /\ \A r \in DOMAIN l.settled : l.settled[r] \in Decisions

(* A list says of r that it was allowed.                                   *)
Allowed(st, r) == r \in DOMAIN st /\ st[r] \in Allows

Updating(r) == apply[r] \in {"update", "remove"}

TypesAgree ==
    /\ TypeOK
    /\ queue \in Seq(Actors) /\ IsList(prev) /\ IsList(disk)

(* Everything in the queue has its caller waiting for it, once.            *)
Waited(a) ==
    /\ a.by = "settlement" => settle[a.of] = "save"
    /\ a.by = "route" => present[a.of] = "route"
    /\ a.by = "discard" => present[a.of] \in {"discard", "give_up"}
    /\ a.by = "look" => apply[a.of] = "look"
    /\ a.by = "removal" => apply[a.of] = "remove"
    /\ a.by = "recovery" => recovery = "close"
QueueAgrees ==
    /\ saving => queue # <<>>
    /\ Once(queue)
    /\ \A a \in Actors : Has(queue, a) => Waited(a)

(* A request before its card has a route.                                  *)
Fresh(r) ==
    /\ r \notin text /\ ~Updating(r)
    /\ ~Writes(Actor("route", r)) => r \notin routes
    /\ saving => r \notin prev.routes

RequestAgrees(r) ==
    /\ caller[r] = "new" =>
          /\ r \notin pending /\ present[r] = "off" /\ settle[r] = "off" /\ answer[r] = "none"
          /\ Fresh(r) /\ r \notin disk.routes
    /\ present[r] \in {"post", "route"} => Fresh(r)
    /\ present[r] # "off" => caller[r] = "presenting"
    /\ r \in pending => settle[r] = "off" /\ answer[r] = "none"
    /\ settle[r] # "off" => answer[r] = "none"
    /\ decision[r] = "allow_session" => r \notin Restricted

(* The list and the one to put back.                                       *)
TablesAgree ==
    /\ saving => \A r \in routes : r \in prev.routes \/ Head(queue) = Actor("route", r)
    /\ \A r \in Requests :
        /\ Writes(Actor("route", r)) => r \in routes
        /\ Writes(Settlement(r)) => r \in DOMAIN settled /\ settled[r] = decision[r]
        /\ r \in text => r \in routes /\ ~Updating(r)
        /\ Updating(r) /\ r \in pending =>
              /\ r \in DOMAIN settled \/ r \notin routes
              /\ saving => r \in DOMAIN prev.settled \/ r \notin prev.routes

(* Wherever an allowance is written, it was given and stands.              *)
Says(r) ==
    \/ Allowed(settled, r) /\ ~Writes(Settlement(r))
    \/ saving /\ Allowed(prev.settled, r)
    \/ Allowed(disk.settled, r)
    \/ Updating(r) /\ applied[r] \in Allows
    \/ card[r] = "allowed"
SaysTrue(r) ==
    Says(r) => /\ caller[r] # "new" /\ r \notin pending /\ settle[r] # "save"
               /\ decision[r] \in Allows /\ answer[r] # "deny"

(* The presenter of r has not failed, and r is asked or was.               *)
Undone(r) ==
    /\ caller[r] \in {"presenting", "presented"}
    /\ present[r] \notin {"discard", "give_up", "retract"}

(* An allowance that is not saved yet still has its card, and its          *)
(* settlement comes before the removal of that card.                       *)
SettlementFirst(q, r) == Has(q, Settlement(r)) /\ InOrder(q, Settlement(r), Actor("removal", r))
AllowanceWaits(r) ==
    Undone(r) /\ settle[r] = "save" /\ decision[r] \in Allows =>
        /\ present[r] # "post" /\ r \in routes
        /\ present[r] = "route" => Writes(Actor("route", r))
        /\ SettlementFirst(queue, r)

(* Once it is saved every list has it, or the card tells it.               *)
ListStands(l, r) == IF r \in l.routes THEN Allowed(l.settled, r) ELSE card[r] = "allowed"
AllowanceStands(r) ==
    Undone(r) /\ (answer[r] = "allow" \/ (settle[r] = "apply" /\ decision[r] \in Allows)) =>
        /\ present[r] \notin {"post", "route"}
        /\ ListStands(List(routes, settled), r) /\ ListStands(disk, r)
        /\ saving => ListStands(prev, r)
        /\ Updating(r) /\ applied[r] \notin Allows =>
              r \in routes /\ r \in disk.routes /\ (saving => r \in prev.routes)
        /\ apply[r] = "remove" /\ applied[r] \in Allows => card[r] = "allowed"

GrantsAgree ==
    \A g \in grants : \E q \in Requests \ Restricted :
        Grant[q] = g /\ decision[q] = "allow_session" /\ answer[q] = "allow"

ApprovalIInv ==
    /\ TypesAgree /\ QueueAgrees /\ TablesAgree
    /\ \A r \in Requests : RequestAgrees(r) /\ SaysTrue(r) /\ AllowanceWaits(r) /\ AllowanceStands(r)
    /\ GrantsAgree /\ GrantWasGiven

-----------------------------------------------------------------------------
(* What it does to a queue to lose its head and to grow at its end.        *)

LEMMA LoseHead ==
    ASSUME NEW q \in Seq(Actors), q # <<>>, Once(q)
    PROVE  /\ Tail(q) \in Seq(Actors) /\ Once(Tail(q)) /\ Head(q) \in Actors
           /\ Has(q, Head(q)) /\ ~Has(Tail(q), Head(q))
           /\ \A a : Has(Tail(q), a) <=> Has(q, a) /\ a # Head(q)
           /\ \A a, b : InOrder(q, a, b) => InOrder(Tail(q), a, b)
<1>1. /\ Tail(q) \in Seq(Actors) /\ Len(Tail(q)) = Len(q) - 1
      /\ \A i \in 1 .. Len(Tail(q)) : Tail(q)[i] = q[i + 1]
      /\ Head(q) \in Actors
    BY HeadTailProperties
<1>2. Len(q) \in Nat \ {0} /\ Head(q) = q[1]
    BY EmptySeq
<1>3. \A i \in 1 .. Len(Tail(q)) : i + 1 \in 1 .. Len(q) /\ i + 1 # 1
    BY <1>1, <1>2
<1>4. 1 \in 1 .. Len(q)
    BY <1>2
<1>5. Once(Tail(q))
    <2>1. \A i, j \in 1 .. Len(Tail(q)) : Tail(q)[i] = Tail(q)[j] => i + 1 = j + 1
        BY <1>1, <1>3 DEF Once
    <2>. QED BY <2>1, <1>1, <1>2 DEF Once
<1>6. ~Has(Tail(q), Head(q))
    BY <1>1, <1>2, <1>3, <1>4 DEF Once, Has
<1>8. \A a : Has(q, a) /\ a # Head(q) => Has(Tail(q), a)
    <2>1. ASSUME NEW i \in 1 .. Len(q), i # 1 PROVE i - 1 \in 1 .. Len(Tail(q)) /\ Tail(q)[i - 1] = q[i]
        BY <2>1, <1>1, <1>2
    <2>. QED BY <2>1, <1>2 DEF Has
<1>7. \A a, b : InOrder(q, a, b) => InOrder(Tail(q), a, b)
    <2>1. ASSUME NEW a, NEW b, InOrder(q, a, b), NEW i \in 1 .. Len(Tail(q)),
                 NEW j \in 1 .. Len(Tail(q)), Tail(q)[i] = a, Tail(q)[j] = b
          PROVE  i < j
        <3>1. i + 1 < j + 1
            BY <2>1, <1>1, <1>3 DEF InOrder
        <3>. QED BY <3>1, <1>1, <1>2
    <2>. QED BY <2>1 DEF InOrder
<1>. QED BY <1>1, <1>2, <1>3, <1>4, <1>5, <1>6, <1>7, <1>8 DEF Has

(* What may join q: each once, and none that is there.                     *)
MoreFor(q) == {m \in Seq(Actors) : Once(m) /\ \A a \in Actors : Has(m, a) => ~Has(q, a)}

LEMMA GrowEnd ==
    ASSUME NEW q \in Seq(Actors), Once(q), NEW m \in MoreFor(q)
    PROVE  /\ q \o m \in Seq(Actors) /\ Once(q \o m)
           /\ q # <<>> => q \o m # <<>> /\ Head(q \o m) = Head(q)
           /\ \A a \in Actors : Has(q \o m, a) <=> Has(q, a) \/ Has(m, a)
           /\ \A a \in Actors : \A b : ~Has(m, a) /\ InOrder(q, a, b) => InOrder(q \o m, a, b)
<1> DEFINE n == q \o m
<1>1. m \in Seq(Actors) /\ Once(m) /\ \A a \in Actors : Has(m, a) => ~Has(q, a)
    BY DEF MoreFor
<1>2. /\ n \in Seq(Actors) /\ Len(n) = Len(q) + Len(m)
      /\ \A i \in 1 .. Len(q) + Len(m) : n[i] = IF i <= Len(q) THEN q[i] ELSE m[i - Len(q)]
      /\ Len(q) \in Nat /\ Len(m) \in Nat
    BY <1>1, ConcatProperties, LenProperties
<1>3. /\ \A i \in 1 .. Len(q) : q[i] \in Actors
      /\ \A i \in 1 .. Len(m) : m[i] \in Actors
    BY <1>1, ElementOfSeq
<1>4. \A i \in 1 .. Len(n) : \/ i \in 1 .. Len(q) /\ n[i] = q[i]
                             \/ i - Len(q) \in 1 .. Len(m) /\ i > Len(q) /\ n[i] = m[i - Len(q)]
    BY <1>2
<1>5. /\ \A i \in 1 .. Len(q) : i \in 1 .. Len(n) /\ n[i] = q[i]
      /\ \A i \in 1 .. Len(m) : i + Len(q) \in 1 .. Len(n) /\ n[i + Len(q)] = m[i]
    BY <1>2
<1>. HIDE DEF n
<1>6. Once(n)
    <2>1. SUFFICES ASSUME NEW i \in 1 .. Len(n), NEW j \in 1 .. Len(n), n[i] = n[j] PROVE i = j
        BY DEF Once
    <2>2. CASE i \in 1 .. Len(q) /\ j \in 1 .. Len(q)
        BY <2>1, <2>2, <1>5 DEF Once
    <2>3. CASE i - Len(q) \in 1 .. Len(m) /\ j - Len(q) \in 1 .. Len(m) /\ i > Len(q) /\ j > Len(q)
        <3>1. i - Len(q) = j - Len(q)
            BY <2>1, <2>3, <1>1, <1>2 DEF Once
        <3>. QED BY <3>1, <1>2
    <2>4. \A k \in 1 .. Len(q), l \in 1 .. Len(m) : q[k] # m[l]
        BY <1>1, <1>3 DEF Has
    <2>. QED BY <2>1, <2>2, <2>3, <2>4, <1>4
<1>7. q # <<>> => n # <<>> /\ Head(n) = Head(q)
    BY <1>2, <1>5, EmptySeq
<1>8. \A a \in Actors : Has(n, a) <=> Has(q, a) \/ Has(m, a)
    <2>1. ASSUME NEW a \in Actors, Has(n, a) PROVE Has(q, a) \/ Has(m, a)
        BY <2>1, <1>4 DEF Has
    <2>2. ASSUME NEW a \in Actors, Has(q, a) \/ Has(m, a) PROVE Has(n, a)
        BY <2>2, <1>5 DEF Has
    <2>. QED BY <2>1, <2>2
<1>9. \A a \in Actors : \A b : ~Has(m, a) /\ InOrder(q, a, b) => InOrder(n, a, b)
    <2>1. SUFFICES ASSUME NEW a \in Actors, NEW b, ~Has(m, a), InOrder(q, a, b),
                          NEW i \in 1 .. Len(n), NEW j \in 1 .. Len(n), n[i] = a, n[j] = b
                   PROVE  i < j
        BY DEF InOrder
    <2>2. i \in 1 .. Len(q) /\ q[i] = a
        BY <2>1, <1>4 DEF Has
    <2>. QED BY <2>1, <2>2, <1>2, <1>4 DEF InOrder
<1>. QED BY <1>2, <1>6, <1>7, <1>8, <1>9 DEF n

LEMMA MoreIsNoneOrOne ==
    ASSUME NEW q \in Seq(Actors)
    PROVE  /\ <<>> \in MoreFor(q) /\ \A a \in Actors : ~Has(<<>>, a)
           /\ \A a \in Actors : /\ ~Has(q, a) => <<a>> \in MoreFor(q)
                               /\ \A b \in Actors : Has(<<a>>, b) <=> b = a
<1>1. <<>> \in Seq(Actors) /\ Len(<<>>) = 0
    BY EmptySeq
<1>2. Once(<<>>) /\ \A a : ~Has(<<>>, a)
    BY <1>1 DEF Once, Has
<1>3. ASSUME NEW a \in Actors
      PROVE  <<a>> \in Seq(Actors) /\ Once(<<a>>) /\ \A b \in Actors : Has(<<a>>, b) <=> b = a
    <2>1. <<a>> \in Seq(Actors) /\ Len(<<a>>) = 1 /\ <<a>>[1] = a
        OBVIOUS
    <2>. QED BY <2>1 DEF Once, Has
<1>. QED BY <1>1, <1>2, <1>3 DEF MoreFor

LEMMA HeadGoes ==
    ASSUME NEW q \in Seq(Actors), q # <<>>, Once(q), NEW m \in MoreFor(q)
    PROVE  /\ Tail(q) \o m \in Seq(Actors) /\ Once(Tail(q) \o m)
           /\ \A a \in Actors : Has(Tail(q) \o m, a) <=> (Has(q, a) /\ a # Head(q)) \/ Has(m, a)
           /\ \A a \in Actors : \A b : ~Has(m, a) /\ InOrder(q, a, b) => InOrder(Tail(q) \o m, a, b)
<1>1. /\ Tail(q) \in Seq(Actors) /\ Once(Tail(q))
      /\ \A a : Has(Tail(q), a) <=> Has(q, a) /\ a # Head(q)
      /\ \A a, b : InOrder(q, a, b) => InOrder(Tail(q), a, b)
    BY LoseHead
<1>2. m \in MoreFor(Tail(q))
    BY <1>1 DEF MoreFor
<1>. QED BY <1>1, <1>2, GrowEnd

LEMMA ActorsAre ==
    /\ \A r \in Requests : /\ Actor("route", r) \in Actors /\ Actor("discard", r) \in Actors
                           /\ Settlement(r) \in Actors
                           /\ Actor("look", r) \in Actors /\ Actor("removal", r) \in Actors
    /\ Actor("recovery", None) \in Actors
    /\ \A x, y, r, s : Actor(x, r) = Actor(y, s) => x = y /\ r = s
    /\ \A a \in Actors : a = Actor(a.by, a.of) /\ (a.of \in Requests \/ a = Actor("recovery", None))
BY DEF Actors, Actor, Settlement

LEMMA HeadIsDone ==
    ASSUME QueueAgrees, NEW a, NEW m, Saved(a, m) \/ NotSaved(a, m) \/ Passes(a, m)
    PROVE  queue # <<>> /\ Head(queue) = a /\ queue' = Tail(queue) \o m /\ ~saving'
BY DEF QueueAgrees, Saved, NotSaved, Passes, IsSaving, IsNext

(* close() queues the settlements of all pending requests.                 *)
LEMMA CloseQueues ==
    ASSUME TypesAgree, QueueAgrees, \A r \in Requests : RequestAgrees(r), Close
    PROVE  \E m \in MoreFor(queue) :
              /\ Enqueue(m)
              /\ \A a \in Actors : Has(m, a) => \E r \in pending : r \in Requests /\ a = Settlement(r)
<1>1. PICK s \in SetToSeqs(pending) : Enqueue([i \in DOMAIN s |-> Settlement(s[i])])
    BY DEF Close
<1>2. PICK m : m = [i \in DOMAIN s |-> Settlement(s[i])]
    OBVIOUS
<1>3. Cardinality(pending) \in Nat
    <2>1. IsFiniteSet(pending)
        BY RequestsAssumption, FS_Subset DEF TypesAgree, TypeOK
    <2>. QED BY <2>1, FS_CardinalityType
<1>4. PICK n \in Nat : s \in [1 .. n -> pending] /\ \A i, j \in 1 .. n : i # j => s[i] # s[j]
    BY <1>3 DEF SetToSeqs
<1>5. \A i \in 1 .. n : s[i] \in pending /\ s[i] \in Requests /\ m[i] = Settlement(s[i])
    BY <1>2, <1>4 DEF TypesAgree, TypeOK
<1>6. m \in [1 .. n -> Actors] /\ \A i, j \in 1 .. n : m[i] = m[j] => i = j
    BY <1>2, <1>4, <1>5, ActorsAre DEF Settlement
<1>7. m \in Seq(Actors) /\ Len(m) = n
    BY <1>6
<1>8. \A a \in Actors : Has(m, a) => \E r \in pending : r \in Requests /\ a = Settlement(r)
    BY <1>5, <1>7 DEF Has
<1>9. \A r \in pending : r \in Requests => ~Has(queue, Settlement(r))
    <2>1. SUFFICES ASSUME NEW r \in Requests, r \in pending, Has(queue, Settlement(r)) PROVE FALSE
        OBVIOUS
    <2>2. settle[r] = "save"
        <3>1. Settlement(r) \in Actors /\ Settlement(r).by = "settlement" /\ Settlement(r).of = r
            BY ActorsAre DEF Actor, Settlement
        <3>2. Waited(Settlement(r))
            BY <2>1, <3>1 DEF QueueAgrees
        <3>. QED BY <3>1, <3>2 DEF Waited
    <2>3. settle[r] = "off"
        BY <2>1 DEF RequestAgrees
    <2>. QED BY <2>2, <2>3
<1>10. m \in MoreFor(queue)
    BY <1>6, <1>7, <1>8, <1>9 DEF MoreFor, Once
<1>. QED BY <1>1, <1>2, <1>8, <1>10

(* The queue, and what its members' callers wait for; and a settlement     *)
(* stays before the removal of its card until its turn is over.            *)
LEMMA QueueKept ==
    ASSUME TypesAgree, QueueAgrees, \A r \in Requests : RequestAgrees(r), Next
    PROVE  /\ QueueAgrees' /\ queue' \in Seq(Actors)
           /\ \A r \in Requests :
                 SettlementFirst(queue, r) /\ settle'[r] = "save" => SettlementFirst(queue', r)
<1> DEFINE Goal == /\ QueueAgrees' /\ queue' \in Seq(Actors)
                   /\ \A r \in Requests :
                         SettlementFirst(queue, r) /\ settle'[r] = "save" => SettlementFirst(queue', r)
<1> SUFFICES Goal
    OBVIOUS
<1>1. /\ queue \in Seq(Actors) /\ Once(queue)
      /\ settle \in [Requests -> {"off", "save", "apply"}]
      /\ present \in [Requests -> {"off", "post", "route", "apply", "discard", "give_up", "retract"}]
      /\ apply \in [Requests -> {"off", "look", "update", "remove"}]
    BY DEF TypesAgree, TypeOK, QueueAgrees
<1>2. \A a \in Actors : Has(queue, a) => Waited(a)
    BY DEF QueueAgrees
<1>3. queue # <<>> => Has(queue, Head(queue)) /\ Head(queue) \in Actors
    BY <1>1, LoseHead
<1>4. ASSUME NEW m \in MoreFor(queue), queue' = queue \o m, saving' = saving,
             \A a \in Actors : (Has(queue, a) /\ Waited(a)) \/ Has(m, a) => Waited(a)'
      PROVE  Goal
    <2>1. QueueAgrees' /\ queue' \in Seq(Actors)
        BY <1>1, <1>2, <1>4, GrowEnd DEF QueueAgrees
    <2>2. \A a \in Actors : Has(queue, a) => ~Has(m, a)
        BY DEF MoreFor
    <2>3. ASSUME NEW r \in Requests, SettlementFirst(queue, r) PROVE SettlementFirst(queue', r)
        BY <1>1, <1>4, <2>2, <2>3, GrowEnd, ActorsAre DEF SettlementFirst
    <2>. QED BY <2>1, <2>3
<1>5. ASSUME queue # <<>>, NEW m \in MoreFor(queue), queue' = Tail(queue) \o m, ~saving',
             Head(queue).by = "settlement" => settle'[Head(queue).of] # "save",
             \A a \in Actors : (Has(queue, a) /\ Waited(a) /\ a # Head(queue)) \/ Has(m, a) => Waited(a)'
      PROVE  Goal
    <2>1. QueueAgrees' /\ queue' \in Seq(Actors)
        BY <1>1, <1>2, <1>5, HeadGoes DEF QueueAgrees
    <2>2. \A a \in Actors : Has(queue, a) => ~Has(m, a)
        BY DEF MoreFor
    <2>3. ASSUME NEW r \in Requests, SettlementFirst(queue, r), settle'[r] = "save"
          PROVE  SettlementFirst(queue', r)
        <3>1. Settlement(r) # Head(queue)
            BY <1>5, <2>3 DEF Settlement, Actor
        <3>. QED BY <1>1, <1>5, <2>2, <2>3, <3>1, HeadGoes, ActorsAre DEF SettlementFirst
    <2>. QED BY <2>1, <2>3
<1>6. ASSUME queue' = queue, saving' = saving \/ queue # <<>>,
             \A a \in Actors : Has(queue, a) /\ Waited(a) => Waited(a)'
      PROVE  Goal
    BY <1>1, <1>2, <1>6 DEF QueueAgrees, SettlementFirst
<1>7. \A r \in Requests : Look(r) \in MoreFor(queue)
                         /\ \A a \in Actors : Has(Look(r), a) <=> a = Actor("look", r) /\ apply[r] = "off"
    <2>1. \A r \in Requests : apply[r] = "off" => ~Has(queue, Actor("look", r))
        BY <1>2, ActorsAre DEF Waited, Actor
    <2>. QED BY <1>1, <2>1, ActorsAre, MoreIsNoneOrOne DEF Look
<1>8. <<>> \in MoreFor(queue) /\ \A a \in Actors : ~Has(<<>>, a)
    BY <1>1, MoreIsNoneOrOne
<1>9. \A a \in Actors : ~Has(queue, a) => <<a>> \in MoreFor(queue) /\ \A b \in Actors : Has(<<a>>, b) <=> b = a
    BY <1>1, MoreIsNoneOrOne
<1>10. \A a \in Actors : a.of \in Requests \/ a.by = "recovery"
    BY ActorsAre DEF Actor
<1>11. ASSUME NEW r \in Requests, ApplyEnds(r), NEW a \in Actors, Waited(a),
              a # Actor("look", r), a # Actor("removal", r)
       PROVE  Waited(a)'
    BY <1>1, <1>10, <1>11, ActorsAre DEF Waited, ApplyEnds, Actor
<1>12. ASSUME NEW r \in Requests, AuthorizeAtOnce(r) \/ ClickOrphan(r) PROVE Goal
    BY <1>6, <1>12 DEF AuthorizeAtOnce, ClickOrphan, coordinator, mutations, applying, recover, Waited
<1>13. ASSUME NEW r \in Requests, OpenRequest(r) PROVE Goal
    <2>1. present[r] = "off"
        BY <1>13 DEF OpenRequest, RequestAgrees
    <2>2. \A a \in Actors : Waited(a) => Waited(a)'
        BY <1>1, <1>10, <1>13, <2>1 DEF OpenRequest, applying, recover, Waited
    <2>. QED BY <1>6, <1>13, <2>2 DEF OpenRequest, mutations
<1>14. ASSUME NEW r \in Requests, PostCard(r) PROVE Goal
    <2>1. ~Has(queue, Actor("route", r))
        BY <1>2, <1>14, ActorsAre DEF PostCard, Waited, Actor
    <2>2. <<Actor("route", r)>> \in MoreFor(queue)
          /\ \A b \in Actors : Has(<<Actor("route", r)>>, b) <=> b = Actor("route", r)
        BY <1>9, <2>1, ActorsAre
    <2>3. \A a \in Actors : Waited(a) \/ a = Actor("route", r) => Waited(a)'
        BY <1>1, <1>10, <1>14 DEF PostCard, Present, coordinator, applying, recover, Waited, Actor
    <2>. QED BY <1>4, <1>14, <2>2, <2>3 DEF PostCard, Enqueue
<1>15. ASSUME NEW r \in Requests, PostFails(r) PROVE Goal
    <2>1. ~Has(queue, Actor("discard", r))
        BY <1>2, <1>15, ActorsAre DEF PostFails, Waited, Actor
    <2>2. <<Actor("discard", r)>> \in MoreFor(queue)
          /\ \A b \in Actors : Has(<<Actor("discard", r)>>, b) <=> b = Actor("discard", r)
        BY <1>9, <2>1, ActorsAre
    <2>3. \A a \in Actors : Waited(a) \/ a = Actor("discard", r) => Waited(a)'
        BY <1>1, <1>10, <1>15 DEF PostFails, Present, coordinator, applying, recover, Waited, Actor
    <2>. QED BY <1>4, <1>15, <2>2, <2>3 DEF PostFails, Enqueue
<1>16. ASSUME NEW r \in Requests,
              RememberRoute(r) \/ Discard(r) \/ RememberSettlement(r) \/ RemoveCard(r) PROVE Goal
    <2>1. queue' = queue /\ queue # <<>> /\ UNCHANGED <<settle, present, apply, recovery>>
        BY <1>16 DEF RememberRoute, Discard, RememberSettlement, RemoveCard, Change, IsNext,
                     coordinator, applying, recover
    <2>. QED BY <1>6, <2>1 DEF Waited
<1>17. ASSUME CloseUnsettled PROVE Goal
    <2>1. queue' = queue /\ queue # <<>> /\ UNCHANGED <<settle, present, apply, recovery>>
        BY <1>17 DEF CloseUnsettled, Change, IsNext, coordinator, applying, recover
    <2>. QED BY <1>6, <2>1 DEF Waited
<1>18. ASSUME NEW r \in Requests, RouteSaved(r) PROVE Goal
    <2>1. CASE Saved(Actor("route", r), Look(r)) /\ Present(r, "apply") /\ CallApply(r)
        <3>1. queue # <<>> /\ Head(queue) = Actor("route", r) /\ queue' = Tail(queue) \o Look(r) /\ ~saving'
            BY <2>1, HeadIsDone
        <3>2. present[r] = "route"
            BY <1>2, <1>3, <3>1 DEF Waited, Actor
        <3>3. \A a \in Actors : (Waited(a) /\ a # Actor("route", r))
                                \/ (a = Actor("look", r) /\ apply[r] = "off") => Waited(a)'
            BY <1>1, <1>10, <1>18, <2>1, <3>2, ActorsAre
               DEF RouteSaved, Present, CallApply, Waited, Actor, recover
        <3>. QED BY <1>5, <1>7, <3>1, <3>3 DEF Actor
    <2>2. CASE Saved(Actor("route", r), <<>>) /\ Presented(r)
        <3>1. queue # <<>> /\ Head(queue) = Actor("route", r) /\ queue' = Tail(queue) \o <<>> /\ ~saving'
            BY <2>2, HeadIsDone
        <3>2. present[r] = "route"
            BY <1>2, <1>3, <3>1 DEF Waited, Actor
        <3>3. \A a \in Actors : Waited(a) /\ a # Actor("route", r) => Waited(a)'
            BY <1>1, <1>10, <1>18, <2>2, <3>2, ActorsAre
               DEF RouteSaved, Presented, Present, Waited, Actor, recover
        <3>. QED BY <1>5, <1>8, <3>1, <3>3 DEF Actor
    <2>. QED BY <1>18, <2>1, <2>2 DEF RouteSaved
<1>19. ASSUME NEW r \in Requests, RouteNotSaved(r) PROVE Goal
    <2>1. /\ queue # <<>> /\ Head(queue) = Actor("route", r)
          /\ queue' = Tail(queue) \o <<Actor("discard", r)>> /\ ~saving'
        BY <1>19, HeadIsDone DEF RouteNotSaved
    <2>2. present[r] = "route"
        BY <1>2, <1>3, <2>1 DEF Waited, Actor
    <2>3. ~Has(queue, Actor("discard", r))
        BY <1>2, <2>2, ActorsAre DEF Waited, Actor
    <2>4. <<Actor("discard", r)>> \in MoreFor(queue)
          /\ \A b \in Actors : Has(<<Actor("discard", r)>>, b) <=> b = Actor("discard", r)
        BY <1>9, <2>3, ActorsAre
    <2>5. \A a \in Actors : (Waited(a) /\ a # Actor("route", r)) \/ a = Actor("discard", r) => Waited(a)'
        BY <1>1, <1>10, <1>19, <2>2, ActorsAre
           DEF RouteNotSaved, Present, Waited, Actor, coordinator, applying, recover
    <2>6. Head(queue).by # "settlement"
        BY <2>1 DEF Actor
    <2>. QED BY <1>5, <2>1, <2>4, <2>5, <2>6
<1>20. ASSUME NEW r \in Requests, Discarded(r) PROVE Goal
    <2>1. queue # <<>> /\ Head(queue) = Actor("discard", r) /\ queue' = Tail(queue) \o <<>> /\ ~saving'
        BY <1>20, HeadIsDone DEF Discarded
    <2>2. present[r] \in {"discard", "give_up"}
        BY <1>2, <1>3, <2>1 DEF Waited, Actor
    <2>3. \A a \in Actors : Waited(a) /\ a # Actor("discard", r) => Waited(a)'
        BY <1>1, <1>10, <1>20, <2>2, ActorsAre
           DEF Discarded, Throws, Present, Waited, Actor, coordinator, applying, recover
    <2>. QED BY <1>5, <1>8, <2>1, <2>3 DEF Actor
<1>21. ASSUME NEW r \in Requests, RetractCard(r) PROVE Goal
    <2>1. \A a \in Actors : Waited(a) => Waited(a)'
        BY <1>1, <1>10, <1>21 DEF RetractCard, Throws, Present, Waited, applying, recover
    <2>. QED BY <1>6, <1>21, <2>1 DEF RetractCard, mutations
<1>22. ASSUME NEW r \in Requests, SettlementSaved(r) PROVE Goal
    <2>1. /\ queue # <<>> /\ Head(queue) = Settlement(r)
          /\ queue' = Tail(queue) \o Look(r) /\ ~saving'
        BY <1>22, HeadIsDone DEF SettlementSaved
    <2>2. \A a \in Actors : (Waited(a) /\ a # Settlement(r))
                            \/ (a = Actor("look", r) /\ apply[r] = "off") => Waited(a)'
        BY <1>1, <1>10, <1>22, ActorsAre
           DEF SettlementSaved, CallApply, Waited, Actor, Settlement, recover
    <2>3. Head(queue).by = "settlement" => settle'[Head(queue).of] # "save"
        BY <1>1, <1>22, <2>1 DEF SettlementSaved, Settlement, Actor
    <2>. QED BY <1>5, <1>7, <2>1, <2>2, <2>3
<1>23. ASSUME NEW r \in Requests, SettlementNotSaved(r) PROVE Goal
    <2>1. /\ queue # <<>> /\ Head(queue) = Settlement(r)
          /\ queue' = Tail(queue) \o <<>> /\ ~saving'
        BY <1>23, HeadIsDone DEF SettlementNotSaved
    <2>2. \A a \in Actors : Waited(a) /\ a # Settlement(r) => Waited(a)'
        BY <1>1, <1>10, <1>23, ActorsAre
           DEF SettlementNotSaved, Waited, Actor, Settlement, applying, recover
    <2>3. Head(queue).by = "settlement" => settle'[Head(queue).of] # "save"
        BY <1>1, <1>23, <2>1 DEF SettlementNotSaved, Settlement, Actor
    <2>. QED BY <1>5, <1>8, <2>1, <2>2, <2>3
<1>24. ASSUME NEW r \in Requests, ApplyLooks(r) PROVE Goal
    <2>1. queue # <<>> /\ Head(queue) = Actor("look", r) /\ queue' = Tail(queue) \o <<>> /\ ~saving'
        BY <1>24, HeadIsDone DEF ApplyLooks
    <2>2. apply[r] = "look"
        BY <1>2, <1>3, <2>1 DEF Waited, Actor
    <2>3. \A a \in Actors : Waited(a) /\ a # Actor("look", r) => Waited(a)'
        <3>1. CASE CanApply(r)
            BY <1>1, <1>10, <1>24, <2>2, <3>1, ActorsAre
               DEF ApplyLooks, Waited, Actor, coordinator, recover
        <3>2. CASE ~CanApply(r)
            <4>1. ApplyEnds(r)
                BY <1>24, <3>2 DEF ApplyLooks
            <4>. QED BY <1>11, <2>2, <4>1 DEF Waited, Actor
        <3>. QED BY <3>1, <3>2
    <2>. QED BY <1>5, <1>8, <2>1, <2>3 DEF Actor
<1>25. ASSUME NEW r \in Requests, UpdateCard(r) PROVE Goal
    <2>1. ~Has(queue, Actor("removal", r))
        BY <1>2, <1>25, ActorsAre DEF UpdateCard, Waited, Actor
    <2>2. <<Actor("removal", r)>> \in MoreFor(queue)
          /\ \A b \in Actors : Has(<<Actor("removal", r)>>, b) <=> b = Actor("removal", r)
        BY <1>9, <2>1, ActorsAre
    <2>3. \A a \in Actors : Waited(a) \/ a = Actor("removal", r) => Waited(a)'
        BY <1>1, <1>10, <1>25 DEF UpdateCard, coordinator, recover, Waited, Actor
    <2>. QED BY <1>4, <1>25, <2>2, <2>3 DEF UpdateCard, Enqueue
<1>26. ASSUME NEW r \in Requests, UpdateFails(r) PROVE Goal
    <2>1. apply[r] = "update" /\ ApplyEnds(r) /\ queue' = queue /\ saving' = saving
        BY <1>26 DEF UpdateFails, mutations
    <2>2. \A a \in Actors : Waited(a) => Waited(a)'
        BY <1>11, <2>1 DEF Waited, Actor
    <2>. QED BY <1>6, <2>1, <2>2
<1>27. ASSUME NEW r \in Requests, CardRemoved(r) PROVE Goal
    <2>1. queue # <<>> /\ Head(queue) = Actor("removal", r) /\ queue' = Tail(queue) \o <<>> /\ ~saving'
        BY <1>27, HeadIsDone DEF CardRemoved
    <2>2. apply[r] = "remove" /\ ApplyEnds(r)
        BY <1>2, <1>3, <1>27, <2>1 DEF CardRemoved, Waited, Actor
    <2>3. \A a \in Actors : Waited(a) /\ a # Actor("removal", r) => Waited(a)'
        BY <1>11, <2>2 DEF Waited, Actor
    <2>. QED BY <1>5, <1>8, <2>1, <2>3 DEF Actor
<1>28. ASSUME NEW r \in Requests, NEW d \in Decisions, Answer(r, d) \/ CutOff(r) PROVE Goal
    <2>1. r \in pending /\ (Take({r}, d) \/ Take({r}, "deny")) /\ Enqueue(<<Settlement(r)>>)
          /\ UNCHANGED <<present, applying, recover>>
        BY <1>28 DEF Answer, CutOff, MayAnswer
    <2>2. ~Has(queue, Settlement(r))
        BY <1>2, <2>1, ActorsAre DEF RequestAgrees, Waited, Actor, Settlement
    <2>3. <<Settlement(r)>> \in MoreFor(queue) /\ \A b \in Actors : Has(<<Settlement(r)>>, b) <=> b = Settlement(r)
        BY <1>9, <2>2, ActorsAre
    <2>4. \A a \in Actors : Waited(a) \/ a = Settlement(r) => Waited(a)'
        BY <1>1, <1>10, <2>1 DEF Take, applying, recover, Waited, Actor, Settlement
    <2>. QED BY <1>4, <2>1, <2>3, <2>4 DEF Enqueue
<1>29. ASSUME NEW r \in Requests, AnswerSettled(r) \/ RecoverCard(r) PROVE Goal
    <2>1. CallApply(r) /\ Enqueue(Look(r)) /\ UNCHANGED <<settle, present, recovery>>
        BY <1>29 DEF AnswerSettled, RecoverCard, coordinator, recover
    <2>2. \A a \in Actors : Waited(a) \/ (a = Actor("look", r) /\ apply[r] = "off") => Waited(a)'
        BY <1>1, <1>10, <2>1 DEF CallApply, Waited, Actor
    <2>. QED BY <1>4, <1>7, <2>1, <2>2 DEF Enqueue
<1>30. ASSUME Close PROVE Goal
    <2>1. PICK m \in MoreFor(queue) :
              /\ Enqueue(m)
              /\ \A a \in Actors : Has(m, a) => \E r \in pending : r \in Requests /\ a = Settlement(r)
        BY <1>30, CloseQueues
    <2>2. \A a \in Actors : Waited(a) \/ Has(m, a) => Waited(a)'
        BY <1>1, <1>10, <1>30, <2>1 DEF Close, Take, applying, recover, Waited, Actor, Settlement
    <2>. QED BY <1>4, <2>1, <2>2 DEF Enqueue
<1>31. ASSUME Restart PROVE Goal
    <2>1. queue' = <<>> /\ ~saving'
        BY <1>31 DEF Restart
    <2>2. <<>> \in Seq(Actors) /\ Once(<<>>)
        BY <1>8 DEF MoreFor
    <2>3. \A r \in Requests : settle'[r] = "off"
        BY <1>31 DEF Restart
    <2>. QED BY <1>8, <2>1, <2>2, <2>3 DEF QueueAgrees
<1>32. ASSUME StartRecovery PROVE Goal
    <2>1. ~Has(queue, Actor("recovery", None))
        BY <1>2, <1>32, ActorsAre DEF StartRecovery, Waited, Actor
    <2>2. <<Actor("recovery", None)>> \in MoreFor(queue)
          /\ \A b \in Actors : Has(<<Actor("recovery", None)>>, b) <=> b = Actor("recovery", None)
        BY <1>9, <2>1, ActorsAre
    <2>3. \A a \in Actors : Waited(a) \/ a = Actor("recovery", None) => Waited(a)'
        BY <1>1, <1>32 DEF StartRecovery, coordinator, applying, Waited, Actor
    <2>. QED BY <1>4, <1>32, <2>2, <2>3 DEF StartRecovery, Enqueue
<1>33. ASSUME ClosedUnsettled \/ CloseUnsettledFails PROVE Goal
    <2>1. queue # <<>> /\ Head(queue) = Actor("recovery", None) /\ queue' = Tail(queue) \o <<>> /\ ~saving'
        BY <1>33, HeadIsDone DEF ClosedUnsettled, CloseUnsettledFails
    <2>2. \A a \in Actors : Waited(a) /\ a # Actor("recovery", None) => Waited(a)'
        BY <1>33, ActorsAre DEF ClosedUnsettled, CloseUnsettledFails, coordinator, applying, Waited, Actors, Actor
    <2>. QED BY <1>5, <1>8, <2>1, <2>2 DEF Actor
<1>34. ASSUME NEW r \in Requests, PresenterStep(r) \/ SettleStep(r) \/ ApplyStep(r) PROVE Goal
    BY <1>14, <1>15, <1>16, <1>18, <1>19, <1>20, <1>21, <1>22, <1>23, <1>24, <1>25, <1>26, <1>27, <1>34
       DEF PresenterStep, SettleStep, ApplyStep
<1>35. ASSUME RecoveryStep PROVE Goal
    BY <1>17, <1>29, <1>32, <1>33, <1>35 DEF RecoveryStep
<1>36. ASSUME NEW r \in Requests, CutOff(r) PROVE Goal
    BY <1>28, <1>36 DEF Decisions
<1>. QED BY <1>12, <1>13, <1>28, <1>29, <1>30, <1>31, <1>34, <1>35, <1>36 DEF Next

-----------------------------------------------------------------------------
(* What a step does to the tables.                                         *)

TablesStay ==
    /\ UNCHANGED <<routes, settled, disk, saving, prev>>
    /\ saving => queue' # <<>> /\ Head(queue') = Head(queue)
ListSaved ==
    /\ saving /\ saving' = FALSE /\ disk' = List(routes, settled) /\ prev' = NoCards
    /\ UNCHANGED <<routes, settled>>
    /\ \A r \in Requests : /\ Head(queue) = Settlement(r) => SettlementSaved(r)
                           /\ Head(queue) = Actor("route", r) => RouteSaved(r)
ListPutBack ==
    /\ saving /\ saving' = FALSE /\ routes' = prev.routes /\ settled' = prev.settled /\ prev' = NoCards
    /\ disk' = disk
    /\ \A r \in Requests : /\ Head(queue) = Settlement(r) => SettlementNotSaved(r)
                           /\ Head(queue) = Actor("route", r) => RouteNotSaved(r)
ListChanged(r) == RememberRoute(r) \/ Discard(r) \/ RememberSettlement(r) \/ RemoveCard(r)

LEMMA HeadStays ==
    ASSUME NEW q \in Seq(Actors), q # <<>>, NEW m \in Seq(Actors)
    PROVE  q \o m # <<>> /\ Head(q \o m) = Head(q)
<1>1. Len(q) \in Nat \ {0} /\ Len(m) \in Nat
    BY EmptySeq, LenProperties
<1>2. /\ q \o m \in Seq(Actors) /\ Len(q \o m) = Len(q) + Len(m)
      /\ \A i \in 1 .. Len(q) + Len(m) : (q \o m)[i] = IF i <= Len(q) THEN q[i] ELSE m[i - Len(q)]
    BY ConcatProperties
<1>3. (q \o m)[1] = q[1] /\ Len(q \o m) # 0
    BY <1>1, <1>2
<1>. QED BY <1>1, <1>2, <1>3, EmptySeq

LEMMA StepOfTables ==
    ASSUME TypesAgree, QueueAgrees, \A r \in Requests : RequestAgrees(r), Next
    PROVE  \/ TablesStay \/ ListSaved \/ ListPutBack \/ Restart
           \/ CloseUnsettled \/ \E r \in Requests : ListChanged(r)
<1> DEFINE Goal == \/ TablesStay \/ ListSaved \/ ListPutBack \/ Restart
                   \/ CloseUnsettled \/ \E r \in Requests : ListChanged(r)
<1> SUFFICES Goal
    OBVIOUS
<1>1. queue \in Seq(Actors) /\ (saving => queue # <<>>)
    BY DEF TypesAgree, QueueAgrees
<1>2. ASSUME UNCHANGED <<routes, settled, disk, queue, saving, prev>> PROVE Goal
    BY <1>1, <1>2 DEF TablesStay
<1>3. ASSUME NEW m \in Seq(Actors), Enqueue(m), UNCHANGED cards PROVE Goal
    BY <1>1, <1>3, HeadStays DEF TablesStay, Enqueue, cards
<1>4. ASSUME NEW a, NEW m, Passes(a, m) PROVE Goal
    BY <1>4 DEF TablesStay, Passes, IsNext, cards
<1>5. ASSUME NEW a, NEW m, Saved(a, m),
             \A r \in Requests : a # Settlement(r) /\ a # Actor("route", r) PROVE Goal
    BY <1>5 DEF Saved, IsSaving, ListSaved
<1>6. ASSUME NEW a, NEW m, NotSaved(a, m),
             \A r \in Requests : a # Settlement(r) /\ a # Actor("route", r) PROVE Goal
    BY <1>6 DEF NotSaved, IsSaving, ListPutBack
<1>7. /\ \A r \in Requests : <<Actor("route", r)>> \in Seq(Actors) /\ <<Actor("discard", r)>> \in Seq(Actors)
                          /\ <<Settlement(r)>> \in Seq(Actors) /\ Look(r) \in Seq(Actors)
                          /\ <<Actor("removal", r)>> \in Seq(Actors)
      /\ <<Actor("recovery", None)>> \in Seq(Actors)
    BY <1>1, ActorsAre, MoreIsNoneOrOne DEF Look, MoreFor
<1>8. /\ \A r, s : /\ Actor("discard", r) # Settlement(s) /\ Actor("discard", r) # Actor("route", s)
                   /\ Actor("removal", r) # Settlement(s) /\ Actor("removal", r) # Actor("route", s)
                   /\ Actor("recovery", r) # Settlement(s) /\ Actor("recovery", r) # Actor("route", s)
                   /\ Settlement(r) # Actor("route", s)
                   /\ Settlement(r) = Settlement(s) => r = s
                   /\ Actor("route", r) = Actor("route", s) => r = s
    BY ActorsAre DEF Settlement
<1>9. ASSUME NEW r \in Requests, AuthorizeAtOnce(r) \/ ClickOrphan(r) \/ OpenRequest(r) PROVE Goal
    BY <1>2, <1>9 DEF AuthorizeAtOnce, ClickOrphan, OpenRequest, mutations, cards
<1>10. ASSUME NEW r \in Requests, RetractCard(r) \/ UpdateFails(r) PROVE Goal
    BY <1>2, <1>10 DEF RetractCard, UpdateFails, mutations, cards
<1>11. ASSUME NEW r \in Requests, PostCard(r) PROVE Goal
    BY <1>3, <1>7, <1>11 DEF PostCard
<1>12. ASSUME NEW r \in Requests, PostFails(r) PROVE Goal
    BY <1>3, <1>7, <1>12 DEF PostFails
<1>13. ASSUME NEW r \in Requests, UpdateCard(r) PROVE Goal
    BY <1>3, <1>7, <1>13 DEF UpdateCard
<1>14. ASSUME NEW r \in Requests, CutOff(r) \/ \E d \in Decisions : Answer(r, d) PROVE Goal
    BY <1>3, <1>7, <1>14 DEF CutOff, Answer
<1>15. ASSUME NEW r \in Requests, AnswerSettled(r) \/ RecoverCard(r) PROVE Goal
    BY <1>3, <1>7, <1>15 DEF AnswerSettled, RecoverCard
<1>16. ASSUME StartRecovery PROVE Goal
    BY <1>3, <1>7, <1>16 DEF StartRecovery
<1>17. ASSUME Close PROVE Goal
    <2>1. PICK m \in MoreFor(queue) : Enqueue(m)
        BY <1>17, CloseQueues
    <2>. QED BY <1>3, <1>17, <2>1 DEF Close, MoreFor
<1>18. ASSUME NEW r \in Requests, RouteSaved(r) PROVE Goal
    <2>1. IsSaving(Actor("route", r)) /\ disk' = List(routes, settled) /\ saving' = FALSE /\ prev' = NoCards
          /\ UNCHANGED <<routes, settled>>
        BY <1>18 DEF RouteSaved, Saved
    <2>. QED BY <1>8, <1>18, <2>1 DEF IsSaving, ListSaved
<1>19. ASSUME NEW r \in Requests, SettlementSaved(r) PROVE Goal
    <2>1. IsSaving(Settlement(r)) /\ disk' = List(routes, settled) /\ saving' = FALSE /\ prev' = NoCards
          /\ UNCHANGED <<routes, settled>>
        BY <1>19 DEF SettlementSaved, Saved
    <2>. QED BY <1>8, <1>19, <2>1 DEF IsSaving, ListSaved
<1>20. ASSUME NEW r \in Requests, RouteNotSaved(r) PROVE Goal
    <2>1. IsSaving(Actor("route", r)) /\ disk' = disk /\ saving' = FALSE /\ prev' = NoCards
          /\ routes' = prev.routes /\ settled' = prev.settled
        BY <1>20 DEF RouteNotSaved, NotSaved
    <2>. QED BY <1>8, <1>20, <2>1 DEF IsSaving, ListPutBack
<1>21. ASSUME NEW r \in Requests, SettlementNotSaved(r) PROVE Goal
    <2>1. IsSaving(Settlement(r)) /\ disk' = disk /\ saving' = FALSE /\ prev' = NoCards
          /\ routes' = prev.routes /\ settled' = prev.settled
        BY <1>21 DEF SettlementNotSaved, NotSaved
    <2>. QED BY <1>8, <1>21, <2>1 DEF IsSaving, ListPutBack
<1>22. ASSUME NEW r \in Requests, Discarded(r) \/ CardRemoved(r) \/ ApplyLooks(r) PROVE Goal
    BY <1>4, <1>5, <1>6, <1>8, <1>22 DEF Discarded, CardRemoved, ApplyLooks
<1>23. ASSUME ClosedUnsettled \/ CloseUnsettledFails PROVE Goal
    BY <1>4, <1>5, <1>6, <1>8, <1>23 DEF ClosedUnsettled, CloseUnsettledFails
<1>24. ASSUME NEW r \in Requests, PresenterStep(r) PROVE Goal
    BY <1>10, <1>11, <1>12, <1>18, <1>20, <1>22, <1>24 DEF PresenterStep, ListChanged
<1>25. ASSUME NEW r \in Requests, SettleStep(r) \/ ApplyStep(r) PROVE Goal
    BY <1>10, <1>13, <1>19, <1>21, <1>22, <1>25 DEF SettleStep, ApplyStep, ListChanged
<1>26. ASSUME RecoveryStep PROVE Goal
    BY <1>15, <1>16, <1>23, <1>26 DEF RecoveryStep
<1>. QED BY <1>9, <1>14, <1>15, <1>17, <1>24, <1>25, <1>26 DEF Next

-----------------------------------------------------------------------------
(* The types.                                                              *)

TableTypes ==
    /\ routes \subseteq Requests
    /\ DOMAIN settled \subseteq Requests /\ \A r \in DOMAIN settled : settled[r] \in Decisions
    /\ saving \in BOOLEAN /\ IsList(prev) /\ IsList(disk)
CoordinatorTypes ==
    /\ caller \in [Requests -> {"new", "presenting", "presented", "allowed", "denied", "threw"}]
    /\ pending \subseteq Requests
    /\ answer \in [Requests -> {"none", "allow", "deny"}]
    /\ grants \subseteq {Grant[r] : r \in Requests} /\ closed \in BOOLEAN
    /\ settle \in [Requests -> {"off", "save", "apply"}]
    /\ decision \in [Requests -> Decisions]
CardTypes ==
    /\ present \in [Requests -> {"off", "post", "route", "apply", "discard", "give_up", "retract"}]
    /\ card \in [Requests -> {"none", "buttons", "allowed", "refused", "inactive"}]
    /\ text \subseteq Requests
    /\ apply \in [Requests -> {"off", "look", "update", "remove"}]
    /\ applied \in [Requests -> Decisions]
    /\ recovery \in {"start", "close", "apply", "failed"}
    /\ toApply \subseteq Requests /\ recovering \in Requests \cup {None}
    /\ failures \in 0 .. MaxFailures /\ restarts \in 0 .. MaxRestarts

LEMMA TypesAre ==
    queue \in Seq(Actors) => (TypesAgree <=> TableTypes /\ CoordinatorTypes /\ CardTypes)
<1>1. queue \in Seq(Actors) => \A i \in 1 .. Len(queue) : queue[i] \in Actors
    BY ElementOfSeq
<1>2. TypeOK => CoordinatorTypes
    BY Zenon DEF TypeOK, CoordinatorTypes
<1>3. TypeOK => CardTypes
    BY Zenon DEF TypeOK, CardTypes
<1>4. TypesAgree => TableTypes
    BY Zenon DEF TypesAgree, TypeOK, TableTypes
<1>5. ASSUME queue \in Seq(Actors), TableTypes, CoordinatorTypes, CardTypes PROVE TypeOK
    BY Zenon, <1>1, <1>5 DEF TypeOK, TableTypes, CoordinatorTypes, CardTypes
<1>6. ASSUME queue \in Seq(Actors), TableTypes, TypeOK PROVE TypesAgree
    BY Zenon, <1>6 DEF TypesAgree, TableTypes
<1>. QED BY Zenon, <1>2, <1>3, <1>4, <1>5, <1>6 DEF TypesAgree

LEMMA ListIsList ==
    ASSUME NEW rt, NEW st, rt \subseteq Requests, \A r \in DOMAIN st : st[r] \in Decisions
    PROVE  /\ IsList(List(rt, st)) /\ IsList(NoCards)
           /\ List(rt, st).routes = rt
           /\ \A r : Allowed(List(rt, st).settled, r) <=> r \in rt /\ Allowed(st, r)
           /\ \A r : r \in DOMAIN List(rt, st).settled <=> r \in rt /\ r \in DOMAIN st
           /\ NoCards.routes = {} /\ DOMAIN NoCards.settled = {}
BY DEF IsList, List, NoCards, Allowed

LEMMA TableTypesKept ==
    ASSUME TypesAgree, QueueAgrees, \A r \in Requests : RequestAgrees(r), Next
    PROVE  TableTypes'
<1>1. TableTypes
    BY TypesAre DEF TypesAgree
<1>2. IsList(List(routes, settled)) /\ IsList(NoCards)
    BY <1>1, ListIsList DEF TableTypes
<1>3. decision \in [Requests -> Decisions]
    BY DEF TypesAgree, TypeOK
<1>4. CASE TablesStay
    BY <1>1, <1>4 DEF TableTypes, TablesStay
<1>5. CASE ListSaved
    BY <1>1, <1>2, <1>5 DEF TableTypes, ListSaved
<1>6. CASE ListPutBack
    BY <1>1, <1>2, <1>6 DEF TableTypes, ListPutBack, IsList
<1>7. CASE Restart
    BY <1>1, <1>2, <1>7 DEF TableTypes, Restart, IsList
<1>8. CASE CloseUnsettled
    BY <1>1, <1>2, <1>8 DEF TableTypes, CloseUnsettled, Change, Decisions
<1>9. ASSUME NEW r \in Requests, ListChanged(r) PROVE TableTypes'
    <2>1. CASE RememberRoute(r)
        BY <1>1, <1>2, <2>1 DEF TableTypes, RememberRoute, Change
    <2>2. CASE Discard(r) \/ RemoveCard(r)
        BY <1>1, <1>2, <2>2 DEF TableTypes, Discard, RemoveCard, Change, WithoutDecision
    <2>3. CASE RememberSettlement(r)
        BY <1>1, <1>2, <1>3, <2>3 DEF TableTypes, RememberSettlement, Change, WithDecision
    <2>. QED BY <1>9, <2>1, <2>2, <2>3 DEF ListChanged
<1>. QED BY <1>4, <1>5, <1>6, <1>7, <1>8, <1>9, StepOfTables

LEMMA OtherTypesKept ==
    ASSUME TypesAgree, QueueAgrees, \A r \in Requests : RequestAgrees(r), Next
    PROVE  CoordinatorTypes' /\ CardTypes'
<1>1. CoordinatorTypes /\ CardTypes /\ TableTypes
    BY TypesAre DEF TypesAgree
<1> DEFINE Goal == CoordinatorTypes' /\ CardTypes'
<1> SUFFICES Goal
    OBVIOUS
<1>2. MaxFailures \in Nat /\ MaxRestarts \in Nat
    BY RequestsAssumption
<1>3. Fails => failures' \in 0 .. MaxFailures
    BY <1>1, <1>2 DEF Fails, CardTypes
<1>4. UNCHANGED coordinator => CoordinatorTypes'
    BY <1>1, Zenon DEF coordinator, CoordinatorTypes
<1>5. \A r \in Requests : Finish(r) =>
          /\ answer' \in [Requests -> {"none", "allow", "deny"}]
          /\ grants' \subseteq {Grant[q] : q \in Requests}
    BY <1>1 DEF Finish, CoordinatorTypes
<1>6. ASSUME NEW r \in Requests, ApplyEnds(r)
      PROVE  /\ CoordinatorTypes'
             /\ apply' \in [Requests -> {"off", "look", "update", "remove"}]
             /\ applied' \in [Requests -> Decisions]
             /\ present' \in [Requests -> {"off", "post", "route", "apply", "discard", "give_up", "retract"}]
             /\ recovery' \in {"start", "close", "apply", "failed"}
             /\ toApply' \subseteq Requests /\ recovering' \in Requests \cup {None}
    <2>1. /\ answer' \in [Requests -> {"none", "allow", "deny"}]
          /\ grants' \subseteq {Grant[q] : q \in Requests}
        BY <1>1, <1>5, <1>6 DEF ApplyEnds, CoordinatorTypes
    <2>2. closed' \in BOOLEAN
        BY <1>1, <1>6 DEF ApplyEnds, CoordinatorTypes
    <2>3. CoordinatorTypes'
        BY <1>1, <1>6, <2>1, <2>2 DEF ApplyEnds, CoordinatorTypes
    <2>. QED BY <1>1, <1>6, <2>3 DEF ApplyEnds, CardTypes
<1>7. ASSUME NEW r \in Requests, Throws(r)
      PROVE  /\ CoordinatorTypes'
             /\ present' \in [Requests -> {"off", "post", "route", "apply", "discard", "give_up", "retract"}]
    <2>1. closed' \in BOOLEAN
        BY <1>1, <1>7 DEF Throws, CoordinatorTypes
    <2>. QED BY <1>1, <1>7, <2>1 DEF Throws, Present, CoordinatorTypes, CardTypes
<1>8. \A S, d : S \subseteq Requests /\ d \in Decisions /\ Take(S, d) =>
          /\ pending' \subseteq Requests /\ text' \subseteq Requests
          /\ settle' \in [Requests -> {"off", "save", "apply"}]
          /\ decision' \in [Requests -> Decisions]
    BY <1>1 DEF Take, CoordinatorTypes, CardTypes
<1>9. \A r \in Requests : CallApply(r) => apply' \in [Requests -> {"off", "look", "update", "remove"}]
    BY <1>1 DEF CallApply, CardTypes
<1>10. \A r \in Requests : \A pc : Present(r, pc) /\ pc \in {"off", "route", "apply", "discard", "give_up", "retract"}
           => present' \in [Requests -> {"off", "post", "route", "apply", "discard", "give_up", "retract"}]
    BY <1>1 DEF Present, CardTypes
<1>11. ASSUME NEW r \in Requests, AuthorizeAtOnce(r) \/ OpenRequest(r) PROVE Goal
    <2>1. closed' \in BOOLEAN
        BY <1>1, <1>11 DEF AuthorizeAtOnce, OpenRequest, CoordinatorTypes
    <2>2. CoordinatorTypes'
        BY <1>1, <1>11, <2>1 DEF AuthorizeAtOnce, OpenRequest, CoordinatorTypes
    <2>3. CardTypes'
        BY <1>1, <1>11 DEF AuthorizeAtOnce, OpenRequest, CardTypes, applying, recover, bounds
    <2>. QED BY <2>2, <2>3
<1>12. ASSUME NEW r \in Requests, PostCard(r) \/ PostFails(r) \/ RetractCard(r) PROVE Goal
    <2>1. CoordinatorTypes'
        BY <1>4, <1>7, <1>12 DEF PostCard, PostFails, RetractCard
    <2>2. present' \in [Requests -> {"off", "post", "route", "apply", "discard", "give_up", "retract"}]
        BY <1>7, <1>10, <1>12 DEF PostCard, PostFails, RetractCard
    <2>. QED BY <1>1, <1>3, <1>12, <2>1, <2>2
             DEF PostCard, PostFails, RetractCard, CardTypes, applying, recover, bounds
<1>13. ASSUME NEW r \in Requests, ListChanged(r) PROVE Goal
    <2>1. UNCHANGED <<coordinator, present, card, text, applying, recover, bounds>>
        BY <1>13 DEF ListChanged, RememberRoute, Discard, RememberSettlement, RemoveCard
    <2>2. CardTypes'
        BY <1>1, <2>1 DEF CardTypes, applying, recover, bounds
    <2>. QED BY <1>4, <2>1, <2>2
<1>14. ASSUME NEW r \in Requests, RouteSaved(r) PROVE Goal
    <2>1. closed' \in BOOLEAN
        BY <1>1, <1>14 DEF RouteSaved, CoordinatorTypes
    <2>2. CoordinatorTypes'
        BY <1>1, <1>14, <2>1 DEF RouteSaved, Presented, CoordinatorTypes
    <2>. QED BY <1>1, <1>9, <1>10, <1>14, <2>2 DEF RouteSaved, Presented, Saved, CardTypes, recover
<1>15. ASSUME NEW r \in Requests, RouteNotSaved(r) PROVE Goal
    BY <1>1, <1>3, <1>4, <1>10, <1>15 DEF RouteNotSaved, NotSaved, CardTypes, applying, recover
<1>16. ASSUME NEW r \in Requests, Discarded(r) PROVE Goal
    <2>1. failures' \in 0 .. MaxFailures
        BY <1>1, <1>3, <1>16 DEF Discarded, Saved, NotSaved, Passes, CardTypes
    <2>2. CoordinatorTypes'
        BY <1>4, <1>7, <1>16 DEF Discarded
    <2>3. present' \in [Requests -> {"off", "post", "route", "apply", "discard", "give_up", "retract"}]
        BY <1>7, <1>10, <1>16 DEF Discarded
    <2>. QED BY <1>1, <1>16, <2>1, <2>2, <2>3 DEF Discarded, CardTypes, applying, recover
<1>17. ASSUME NEW r \in Requests, SettlementSaved(r) \/ SettlementNotSaved(r) PROVE Goal
    <2>1. closed' \in BOOLEAN
        BY <1>1, <1>17 DEF SettlementSaved, SettlementNotSaved, CoordinatorTypes
    <2>2. CoordinatorTypes'
        BY <1>1, <1>17, <2>1 DEF SettlementSaved, SettlementNotSaved, CoordinatorTypes
    <2>. QED BY <1>1, <1>3, <1>9, <1>17, <2>2
             DEF SettlementSaved, SettlementNotSaved, Saved, NotSaved, CardTypes, applying, recover
<1>18. ASSUME NEW r \in Requests, ApplyLooks(r) PROVE Goal
    <2>1. failures' = failures /\ restarts' = restarts /\ card' = card /\ text' \subseteq Requests
        BY <1>1, <1>18 DEF ApplyLooks, Passes, CardTypes
    <2>2. CASE CanApply(r)
        <3>1. settled[r] \in Decisions
            BY <1>1, <2>2 DEF CanApply, TableTypes
        <3>2. CoordinatorTypes'
            BY <1>4, <1>18, <2>2 DEF ApplyLooks
        <3>. QED BY <1>1, <1>18, <2>1, <2>2, <3>1, <3>2 DEF ApplyLooks, CardTypes, recover
    <2>3. CASE ~CanApply(r)
        BY <1>1, <1>6, <1>18, <2>1, <2>3 DEF ApplyLooks, CardTypes
    <2>. QED BY <2>2, <2>3
<1>19. ASSUME NEW r \in Requests, UpdateCard(r) PROVE Goal
    BY <1>1, <1>4, <1>19 DEF UpdateCard, CardTypes, Shown, recover, bounds
<1>20. ASSUME NEW r \in Requests, UpdateFails(r) PROVE Goal
    BY <1>1, <1>3, <1>6, <1>20 DEF UpdateFails, CardTypes, Shown
<1>21. ASSUME NEW r \in Requests, CardRemoved(r) PROVE Goal
    <2>1. failures' \in 0 .. MaxFailures
        BY <1>1, <1>3, <1>21 DEF CardRemoved, Saved, NotSaved, Passes, CardTypes
    <2>. QED BY <1>1, <1>6, <1>21, <2>1 DEF CardRemoved, CardTypes
<1>22. ASSUME NEW r \in Requests, CutOff(r) \/ \E d \in Decisions : Answer(r, d) PROVE Goal
    <2>1. /\ \E d \in Decisions : Take({r}, d)
          /\ UNCHANGED <<caller, answer, grants, closed, present, card, applying, recover, bounds>>
        BY <1>22 DEF CutOff, Answer, Decisions
    <2>2. closed' \in BOOLEAN
        BY <1>1, <2>1 DEF CoordinatorTypes
    <2>3. {r} \subseteq Requests
        OBVIOUS
    <2>4. /\ pending' \subseteq Requests /\ text' \subseteq Requests
          /\ settle' \in [Requests -> {"off", "save", "apply"}]
          /\ decision' \in [Requests -> Decisions]
        BY <1>8, <2>1, <2>3
    <2>. QED BY <1>1, <2>1, <2>2, <2>4 DEF CoordinatorTypes, CardTypes, applying, recover, bounds
<1>23. ASSUME NEW r \in Requests, AnswerSettled(r) \/ ClickOrphan(r) \/ RecoverCard(r) PROVE Goal
    <2>1. apply' \in [Requests -> {"off", "look", "update", "remove"}]
        BY <1>1, <1>9, <1>23 DEF AnswerSettled, ClickOrphan, RecoverCard, CardTypes, applying
    <2>. QED BY <1>1, <1>4, <1>23, <2>1
             DEF AnswerSettled, ClickOrphan, RecoverCard, CardTypes, applying, recover, bounds
<1>24. ASSUME Close PROVE Goal
    <2>1. closed' \in BOOLEAN /\ grants' = {} /\ Take(pending, "deny")
          /\ UNCHANGED <<caller, answer, present, card, applying, recover, bounds>>
        BY <1>24 DEF Close
    <2>2. "deny" \in Decisions /\ pending \subseteq Requests
        BY <1>1 DEF Decisions, CoordinatorTypes
    <2>3. /\ pending' \subseteq Requests /\ text' \subseteq Requests
          /\ settle' \in [Requests -> {"off", "save", "apply"}]
          /\ decision' \in [Requests -> Decisions]
        BY <1>8, <2>1, <2>2
    <2>. QED BY <1>1, <2>1, <2>3 DEF CoordinatorTypes, CardTypes, applying, recover, bounds
<1>25. ASSUME Restart PROVE Goal
    <2>1. closed' \in BOOLEAN
        BY <1>25 DEF Restart
    <2>2. CoordinatorTypes'
        BY <1>1, <1>25, <2>1 DEF Restart, CoordinatorTypes
    <2>. QED BY <1>1, <1>2, <1>25, <2>2 DEF Restart, CardTypes
<1>26. ASSUME StartRecovery \/ CloseUnsettled \/ ClosedUnsettled \/ CloseUnsettledFails PROVE Goal
    <2>1. failures' \in 0 .. MaxFailures
        BY <1>1, <1>3, <1>26
           DEF StartRecovery, CloseUnsettled, ClosedUnsettled, CloseUnsettledFails, Saved, NotSaved, Passes,
               CardTypes, bounds
    <2>2. CoordinatorTypes'
        BY <1>4, <1>26 DEF StartRecovery, CloseUnsettled, ClosedUnsettled, CloseUnsettledFails
    <2>3. recovery' \in {"start", "close", "apply", "failed"} /\ toApply' \subseteq Requests
          /\ UNCHANGED <<present, card, text, apply, applied, recovering, restarts>>
        BY <1>1, <1>26
           DEF StartRecovery, CloseUnsettled, ClosedUnsettled, CloseUnsettledFails, CardTypes, TableTypes,
               applying, recover, bounds
    <2>. QED BY <1>1, <2>1, <2>2, <2>3 DEF CardTypes
<1>27. ASSUME NEW r \in Requests, PresenterStep(r) \/ SettleStep(r) \/ ApplyStep(r) PROVE Goal
    BY <1>12, <1>13, <1>14, <1>15, <1>16, <1>17, <1>18, <1>19, <1>20, <1>21, <1>27
       DEF PresenterStep, SettleStep, ApplyStep, ListChanged
<1>28. ASSUME RecoveryStep PROVE Goal
    BY <1>23, <1>26, <1>28 DEF RecoveryStep
<1>. QED BY <1>11, <1>22, <1>23, <1>24, <1>25, <1>27, <1>28 DEF Next

LEMMA TypesKept ==
    ASSUME TypesAgree, QueueAgrees, \A r \in Requests : RequestAgrees(r), Next
    PROVE  TypesAgree'
<1>1. queue' \in Seq(Actors)
    BY QueueKept
<1>2. TableTypes' /\ CoordinatorTypes' /\ CardTypes'
    BY TableTypesKept, OtherTypesKept
<1>3. (queue \in Seq(Actors) => (TypesAgree <=> TableTypes /\ CoordinatorTypes /\ CardTypes))'
    BY TypesAre, PTL
<1>. QED BY <1>1, <1>2, <1>3

-----------------------------------------------------------------------------
(* What a step does to one request.                                        *)

Idle(r) ==
    /\ caller'[r] = caller[r] /\ answer'[r] = answer[r]
    /\ settle'[r] = settle[r] /\ decision'[r] = decision[r]
    /\ present'[r] = present[r] /\ card'[r] = card[r]
    /\ apply'[r] = apply[r] /\ applied'[r] = applied[r]
    /\ r \in pending' <=> r \in pending
    /\ r \in text' <=> r \in text

(* Its settlement is asked for.                                            *)
Taken(r) ==
    /\ r \in pending /\ r \notin pending' /\ r \notin text' /\ settle'[r] = "save"
    /\ decision'[r] = "deny" \/ \E d \in Decisions : decision'[r] = d /\ Answer(r, d)
    /\ caller'[r] = caller[r] /\ answer'[r] = answer[r]
    /\ present'[r] = present[r] /\ card'[r] = card[r]
    /\ apply'[r] = apply[r] /\ applied'[r] = applied[r]
    /\ UNCHANGED <<routes, settled, disk, saving, prev>>

(* Its card is to be looked at.                                            *)
Called(r) ==
    /\ apply'[r] = (IF apply[r] = "off" THEN "look" ELSE apply[r])
    /\ caller'[r] = caller[r] /\ answer'[r] = answer[r]
    /\ settle'[r] = settle[r] /\ decision'[r] = decision[r]
    /\ present'[r] = present[r] /\ card'[r] = card[r] /\ applied'[r] = applied[r]
    /\ r \in pending' <=> r \in pending
    /\ r \in text' <=> r \in text
    /\ UNCHANGED <<routes, settled, disk, saving, prev>>

OwnStep(r) ==
    \/ AuthorizeAtOnce(r) \/ OpenRequest(r) \/ PostCard(r) \/ PostFails(r) \/ RouteSaved(r)
    \/ RouteNotSaved(r) \/ Discarded(r) \/ RetractCard(r) \/ SettlementSaved(r)
    \/ SettlementNotSaved(r) \/ ApplyLooks(r) \/ UpdateCard(r) \/ UpdateFails(r)
    \/ CardRemoved(r) \/ Taken(r) \/ Called(r) \/ ClickOrphan(r) \/ Restart

LEMMA StepOfRequest ==
    ASSUME TypesAgree, NEW r \in Requests, Next
    PROVE  Idle(r) \/ OwnStep(r)
<1>1. CoordinatorTypes /\ CardTypes
    BY TypesAre DEF TypesAgree
<1>2. UNCHANGED coordinator =>
          /\ caller'[r] = caller[r] /\ answer'[r] = answer[r]
          /\ settle'[r] = settle[r] /\ decision'[r] = decision[r]
          /\ r \in pending' <=> r \in pending
    BY DEF coordinator
<1>3. ASSUME NEW q \in Requests, q # r, ApplyEnds(q)
      PROVE  /\ caller'[r] = caller[r] /\ answer'[r] = answer[r]
             /\ settle'[r] = settle[r] /\ decision'[r] = decision[r]
             /\ present'[r] = present[r] /\ apply'[r] = apply[r] /\ applied'[r] = applied[r]
             /\ r \in pending' <=> r \in pending
    BY <1>1, <1>3 DEF ApplyEnds, Finish, CoordinatorTypes, CardTypes
<1>4. ASSUME NEW q \in Requests, q # r, Throws(q)
      PROVE  /\ caller'[r] = caller[r] /\ answer'[r] = answer[r]
             /\ settle'[r] = settle[r] /\ decision'[r] = decision[r]
             /\ present'[r] = present[r]
             /\ r \in pending' <=> r \in pending
    BY <1>1, <1>4 DEF Throws, Present, CoordinatorTypes, CardTypes
<1>5. ASSUME NEW q \in Requests, q # r, AuthorizeAtOnce(q) \/ OpenRequest(q) PROVE Idle(r)
    BY <1>1, <1>5 DEF AuthorizeAtOnce, OpenRequest, Idle, CoordinatorTypes, CardTypes, applying
<1>6. ASSUME NEW q \in Requests, q # r, PostCard(q) \/ PostFails(q) PROVE Idle(r)
    BY <1>1, <1>2, <1>6 DEF PostCard, PostFails, Present, Idle, CardTypes, applying
<1>7. ASSUME NEW q \in Requests, ListChanged(q) PROVE Idle(r)
    <2>1. UNCHANGED <<coordinator, present, card, text, applying>>
        BY <1>7 DEF ListChanged, RememberRoute, Discard, RememberSettlement, RemoveCard
    <2>. QED BY <1>2, <2>1 DEF Idle, applying
<1>8. ASSUME NEW q \in Requests, q # r, RouteSaved(q) PROVE Idle(r)
    <2>1. CASE Present(q, "apply") /\ CallApply(q) /\ UNCHANGED <<caller, text>>
        BY <1>1, <1>8, <2>1 DEF RouteSaved, Present, CallApply, Idle, CoordinatorTypes, CardTypes
    <2>2. CASE Presented(q)
        BY <1>1, <1>8, <2>2 DEF RouteSaved, Presented, Present, Idle, CoordinatorTypes, CardTypes
    <2>. QED BY <1>8, <2>1, <2>2 DEF RouteSaved
<1>9. ASSUME NEW q \in Requests, q # r, RouteNotSaved(q) PROVE Idle(r)
    BY <1>1, <1>2, <1>9 DEF RouteNotSaved, Present, Idle, CardTypes, applying
<1>10. ASSUME NEW q \in Requests, q # r, Discarded(q) PROVE Idle(r)
    <2>1. UNCHANGED <<card, text, applying>>
          /\ (Throws(q) \/ (Present(q, "retract") /\ UNCHANGED coordinator))
        BY <1>10 DEF Discarded
    <2>2. CASE Throws(q)
        BY <1>4, <1>10, <2>1, <2>2 DEF Idle, applying
    <2>3. CASE Present(q, "retract") /\ UNCHANGED coordinator
        BY <1>1, <1>2, <1>10, <2>1, <2>3 DEF Present, Idle, CardTypes, applying
    <2>. QED BY <2>1, <2>2, <2>3
<1>11. ASSUME NEW q \in Requests, q # r, RetractCard(q) PROVE Idle(r)
    BY <1>1, <1>4, <1>11 DEF RetractCard, Idle, CardTypes, applying
<1>12. ASSUME NEW q \in Requests, q # r, SettlementSaved(q) \/ SettlementNotSaved(q) PROVE Idle(r)
    BY <1>1, <1>12 DEF SettlementSaved, SettlementNotSaved, CallApply, Idle, CoordinatorTypes,
                       CardTypes, applying
<1>13. ASSUME NEW q \in Requests, q # r, ApplyLooks(q) PROVE Idle(r)
    <2>1. CASE CanApply(q)
        BY <1>1, <1>2, <1>13, <2>1 DEF ApplyLooks, Idle, CardTypes
    <2>2. CASE ~CanApply(q)
        BY <1>3, <1>13, <2>2 DEF ApplyLooks, Idle
    <2>. QED BY <2>1, <2>2
<1>14. ASSUME NEW q \in Requests, q # r, UpdateCard(q) PROVE Idle(r)
    BY <1>1, <1>2, <1>14 DEF UpdateCard, Idle, CardTypes
<1>15. ASSUME NEW q \in Requests, q # r, UpdateFails(q) \/ CardRemoved(q) PROVE Idle(r)
    BY <1>1, <1>3, <1>15 DEF UpdateFails, CardRemoved, Idle, CardTypes
<1>16. ASSUME NEW S, NEW d, Take(S, d), r \notin S, UNCHANGED <<caller, answer, present, card, applying>>
       PROVE  Idle(r)
    BY <1>1, <1>16 DEF Take, Idle, CoordinatorTypes, applying
<1>17. ASSUME NEW S, NEW d, Take(S, d), r \in S, r \in pending,
              UNCHANGED <<caller, answer, present, card, cards, saving, prev, applying>>,
              d = "deny" \/ (d \in Decisions /\ Answer(r, d))
       PROVE  Taken(r)
    BY <1>1, <1>17 DEF Take, Taken, cards, applying, CoordinatorTypes
<1>18. ASSUME NEW q \in Requests, CutOff(q) PROVE Idle(r) \/ Taken(r)
    <2>1. Take({q}, "deny") /\ q \in pending
          /\ UNCHANGED <<caller, answer, present, card, cards, saving, prev, applying>>
        BY <1>18 DEF CutOff, Enqueue
    <2>. QED BY <1>16, <1>17, <2>1
<1>19. ASSUME NEW q \in Requests, NEW d \in Decisions, Answer(q, d) PROVE Idle(r) \/ Taken(r)
    <2>1. Take({q}, d) /\ q \in pending
          /\ UNCHANGED <<caller, answer, present, card, cards, saving, prev, applying>>
        BY <1>19 DEF Answer, MayAnswer, Enqueue
    <2>. QED BY <1>16, <1>17, <1>19, <2>1
<1>20. ASSUME Close PROVE Idle(r) \/ Taken(r)
    <2>1. Take(pending, "deny")
          /\ UNCHANGED <<caller, answer, present, card, cards, saving, prev, applying>>
        BY <1>20 DEF Close, Enqueue
    <2>. QED BY <1>16, <1>17, <2>1
<1>21. ASSUME NEW q \in Requests, AnswerSettled(q) \/ RecoverCard(q) PROVE Idle(r) \/ Called(r)
    <2>1. /\ CallApply(q) /\ UNCHANGED <<coordinator, present, card, text, cards, applied, saving, prev>>
        BY <1>21 DEF AnswerSettled, RecoverCard, Enqueue
    <2>2. apply'[r] = apply[r] \/ q = r
        BY <1>1, <2>1 DEF CallApply, CardTypes
    <2>3. q = r => apply'[r] = (IF apply[r] = "off" THEN "look" ELSE apply[r])
        BY <1>1, <2>1 DEF CallApply, CardTypes
    <2>. QED BY <1>2, <2>1, <2>2, <2>3 DEF Idle, Called, cards
<1>22. ASSUME NEW q \in Requests, q # r, ClickOrphan(q) PROVE Idle(r)
    BY <1>1, <1>2, <1>22 DEF ClickOrphan, Idle, CardTypes, applying
<1>23. ASSUME StartRecovery \/ CloseUnsettled \/ ClosedUnsettled \/ CloseUnsettledFails PROVE Idle(r)
    BY <1>2, <1>23 DEF StartRecovery, CloseUnsettled, ClosedUnsettled, CloseUnsettledFails, Idle, applying
<1>24. ASSUME NEW q \in Requests, PresenterStep(q) PROVE Idle(r) \/ OwnStep(r)
    BY <1>6, <1>7, <1>8, <1>9, <1>10, <1>11, <1>24 DEF PresenterStep, ListChanged, OwnStep
<1>25. ASSUME NEW q \in Requests, SettleStep(q) \/ ApplyStep(q) PROVE Idle(r) \/ OwnStep(r)
    BY <1>7, <1>12, <1>13, <1>14, <1>15, <1>25 DEF SettleStep, ApplyStep, ListChanged, OwnStep
<1>26. ASSUME NEW q \in Requests,
              AuthorizeAtOnce(q) \/ OpenRequest(q) \/ AnswerSettled(q) \/ ClickOrphan(q)
       PROVE  Idle(r) \/ OwnStep(r)
    BY <1>5, <1>21, <1>22, <1>26 DEF OwnStep
<1>27. ASSUME RecoveryStep PROVE Idle(r) \/ OwnStep(r)
    BY <1>21, <1>23, <1>27 DEF RecoveryStep, OwnStep
<1>. QED BY <1>18, <1>19, <1>20, <1>24, <1>25, <1>26, <1>27 DEF Next, OwnStep

(* What the invariant says of the mutation whose turn it is.               *)
LEMMA HeadIsWaited ==
    ASSUME TypesAgree, QueueAgrees, queue # <<>>
    PROVE  /\ Head(queue) \in Actors /\ Has(queue, Head(queue)) /\ Waited(Head(queue))
           /\ \A r \in Requests :
                 /\ Head(queue) = Settlement(r) => settle[r] = "save"
                 /\ Head(queue) = Actor("route", r) => present[r] = "route"
                 /\ Head(queue) = Actor("discard", r) => present[r] \in {"discard", "give_up"}
                 /\ Head(queue) = Actor("look", r) => apply[r] = "look"
                 /\ Head(queue) = Actor("removal", r) => apply[r] = "remove"
<1>1. Head(queue) \in Actors /\ Has(queue, Head(queue))
    BY LoseHead DEF TypesAgree, QueueAgrees
<1>2. Waited(Head(queue))
    BY <1>1 DEF QueueAgrees
<1>. QED BY <1>1, <1>2 DEF Waited, Actor, Settlement

(* A step that is the turn of a mutation.                                  *)
LEMMA TurnsAre ==
    ASSUME TypesAgree, QueueAgrees, NEW r \in Requests
    PROVE  /\ RememberRoute(r) => ~saving /\ saving' = TRUE /\ queue' = queue /\ Head(queue) = Actor("route", r)
                                  /\ present[r] = "route"
           /\ RememberSettlement(r) => ~saving /\ saving' = TRUE /\ queue' = queue
                                       /\ Head(queue) = Settlement(r) /\ settle[r] = "save"
           /\ RemoveCard(r) => ~saving /\ saving' = TRUE /\ queue' = queue /\ Head(queue) = Actor("removal", r)
                               /\ apply[r] = "remove"
           /\ Discard(r) => ~saving /\ saving' = TRUE /\ queue' = queue /\ Head(queue) = Actor("discard", r)
           /\ CloseUnsettled => ~saving /\ saving' = TRUE /\ queue' = queue
                                /\ Head(queue) = Actor("recovery", None)
           /\ RouteSaved(r) \/ RouteNotSaved(r) => saving /\ ~saving' /\ Head(queue) = Actor("route", r)
                                                   /\ present[r] = "route"
           /\ SettlementSaved(r) \/ SettlementNotSaved(r) => saving /\ ~saving' /\ Head(queue) = Settlement(r)
                                                             /\ settle[r] = "save"
           /\ ApplyLooks(r) => ~saving /\ apply[r] = "look" /\ UNCHANGED <<cards, saving, prev>>
           /\ CardRemoved(r) => Head(queue) = Actor("removal", r) /\ apply[r] = "remove" /\ ~saving'
           /\ Discarded(r) => Head(queue) = Actor("discard", r) /\ present[r] \in {"discard", "give_up"} /\ ~saving'
<1>1. saving => queue # <<>>
    BY DEF QueueAgrees
<1>2. queue # <<>> => \A q \in Requests :
          /\ Head(queue) = Settlement(q) => settle[q] = "save"
          /\ Head(queue) = Actor("route", q) => present[q] = "route"
          /\ Head(queue) = Actor("discard", q) => present[q] \in {"discard", "give_up"}
          /\ Head(queue) = Actor("look", q) => apply[q] = "look"
          /\ Head(queue) = Actor("removal", q) => apply[q] = "remove"
    BY HeadIsWaited
<1>3. \A a, rt, st : Change(a, rt, st) => ~saving /\ saving' = TRUE /\ queue' = queue
                                         /\ Head(queue) = a /\ queue # <<>>
    BY DEF Change, IsNext
<1>4. \A a, m : Saved(a, m) \/ NotSaved(a, m) => saving /\ saving' = FALSE /\ Head(queue) = a /\ queue # <<>>
    BY <1>1 DEF Saved, NotSaved, IsSaving
<1>5. \A a, m : Passes(a, m) => ~saving /\ ~saving' /\ Head(queue) = a /\ queue # <<>>
                               /\ UNCHANGED <<cards, saving, prev>>
    BY DEF Passes, IsNext
<1>. QED BY <1>2, <1>3, <1>4, <1>5
         DEF RememberRoute, RememberSettlement, RemoveCard, Discard, CloseUnsettled, RouteSaved,
             RouteNotSaved, SettlementSaved, SettlementNotSaved, ApplyLooks, CardRemoved, Discarded

LEMMA RouteTurn ==
    ASSUME TypesAgree, NEW r \in Requests, RouteSaved(r) \/ RouteNotSaved(r)
    PROVE  present'[r] \in {"apply", "off", "discard"}
BY DEF TypesAgree, TypeOK, RouteSaved, RouteNotSaved, Present, Presented

(* How the parts of a request may change, whatever the step.               *)
CoordinatorMoves(r) ==
    /\ caller'[r] = "new" => caller[r] = "new"
    /\ caller'[r] = "presented" => caller[r] = "presented" \/ present[r] \in {"route", "apply"}
    /\ r \in pending' => (r \in pending /\ settle'[r] = settle[r] /\ answer'[r] = answer[r]) \/ OpenRequest(r)
    /\ decision'[r] = decision[r] \/ Taken(r)
    /\ settle'[r] = "save" => settle[r] = "save" \/ Taken(r)
    /\ settle'[r] = "apply" => settle[r] = "apply" \/ SettlementSaved(r)
    /\ \/ answer'[r] = answer[r]
       \/ /\ settle[r] = "apply" /\ settle'[r] = "off"
          /\ answer'[r] = IF decision[r] \in Allows THEN "allow" ELSE "deny"
       \/ SettlementNotSaved(r) /\ answer'[r] = "deny" /\ settle'[r] = "off"
       \/ r \in pending /\ answer'[r] = "deny" /\ settle'[r] = settle[r]
CardMoves(r) ==
    /\ present'[r] = "post" => present[r] = "post" \/ OpenRequest(r)
    /\ present'[r] = "route" => present[r] = "route" \/ PostCard(r)
    /\ present'[r] # "off" => (present[r] # "off" /\ caller'[r] = caller[r]) \/ OpenRequest(r)
    /\ Undone(r)' => Undone(r) \/ OpenRequest(r)
    /\ r \in text' => r \in text \/ RouteSaved(r)
    /\ Updating(r)' => \/ Updating(r) /\ applied'[r] = applied[r]
                       \/ ApplyLooks(r) /\ CanApply(r) /\ applied'[r] = settled[r] /\ r \notin text'
    /\ apply'[r] = "remove" => apply[r] = "remove" \/ UpdateCard(r)
    /\ \/ card'[r] = card[r]
       \/ present[r] \in {"post", "retract"} /\ card'[r] # "allowed"
       \/ card[r] = "buttons" /\ card'[r] = "inactive"
       \/ apply[r] = "update" /\ card'[r] = Shown(applied[r])

LEMMA OwnMoves ==
    ASSUME TypesAgree, QueueAgrees, NEW r \in Requests, RequestAgrees(r), Next
    PROVE  CoordinatorMoves(r) /\ CardMoves(r)
<1>1. CoordinatorTypes /\ CardTypes
    BY TypesAre DEF TypesAgree
<1> DEFINE Goal == CoordinatorMoves(r) /\ CardMoves(r)
<1> SUFFICES Goal
    OBVIOUS
<1>2. CASE Idle(r)
    BY <1>2 DEF Idle, CoordinatorMoves, CardMoves, Undone, Updating
<1>3. CASE AuthorizeAtOnce(r) \/ OpenRequest(r)
    BY <1>1, <1>3 DEF AuthorizeAtOnce, OpenRequest, RouteSaved, RouteNotSaved, Present, Presented, RequestAgrees,
                      applying, CoordinatorMoves, CardMoves, Undone, Updating, CoordinatorTypes, CardTypes
<1>4. CASE PostCard(r) \/ PostFails(r)
    BY <1>1, <1>4 DEF PostCard, PostFails, Present, coordinator, applying, CoordinatorMoves, CardMoves, Undone, Updating, CoordinatorTypes, CardTypes
<1>5. CASE RouteSaved(r)
    <2>1. present[r] = "route" /\ caller[r] = "presenting"
        BY <1>5, TurnsAre DEF RequestAgrees
    <2>2. CASE Present(r, "apply") /\ CallApply(r) /\ UNCHANGED <<caller, text>>
        BY <1>1, <1>5, <2>1, <2>2 DEF RouteSaved, Present, CallApply, CoordinatorMoves, CardMoves, Undone, Updating, CoordinatorTypes, CardTypes
    <2>3. CASE Presented(r)
        BY <1>1, <1>5, <2>1, <2>3 DEF RouteSaved, Presented, Present, CoordinatorMoves, CardMoves, Undone, Updating, CoordinatorTypes, CardTypes
    <2>. QED BY <1>5, <2>2, <2>3 DEF RouteSaved
<1>6. CASE RouteNotSaved(r)
    BY <1>1, <1>6, TurnsAre DEF RouteNotSaved, Present, coordinator, applying, CoordinatorMoves, CardMoves, Undone, Updating, CoordinatorTypes, CardTypes
<1>7. ASSUME Throws(r), present[r] # "off", card'[r] = card[r] \/ (present[r] = "retract" /\ card'[r] = "refused"),
             UNCHANGED <<text, applying>>
      PROVE  Goal
    BY <1>1, <1>7 DEF Throws, Present, applying, CoordinatorMoves, CardMoves, Undone, Updating, CoordinatorTypes, CardTypes
<1>8. CASE Discarded(r)
    <2>1. present[r] \in {"discard", "give_up"}
        BY <1>8, TurnsAre
    <2>2. CASE Throws(r)
        BY <1>7, <1>8, <2>1, <2>2 DEF Discarded
    <2>3. CASE Present(r, "retract") /\ UNCHANGED coordinator
        BY <1>1, <1>8, <2>1, <2>3 DEF Discarded, Present, coordinator, applying, CoordinatorMoves, CardMoves, Undone, Updating, CoordinatorTypes, CardTypes
    <2>. QED BY <1>8, <2>2, <2>3 DEF Discarded
<1>9. CASE RetractCard(r)
    BY <1>1, <1>7, <1>9 DEF RetractCard, CardTypes
<1>10. CASE SettlementSaved(r) \/ SettlementNotSaved(r)
    <2>1. settle[r] = "save" /\ r \notin pending
        BY <1>10, TurnsAre DEF RequestAgrees
    <2>2. CASE SettlementSaved(r)
        BY <1>1, <2>1, <2>2 DEF SettlementSaved, CallApply, CoordinatorMoves, CardMoves, Undone, Updating, CoordinatorTypes, CardTypes
    <2>3. CASE SettlementNotSaved(r)
        BY <1>1, <2>1, <2>3 DEF SettlementNotSaved, applying, CoordinatorMoves, CardMoves, Undone, Updating, CoordinatorTypes, CardTypes
    <2>. QED BY <1>10, <2>2, <2>3
<1>11. ASSUME ApplyEnds(r), card'[r] = card[r] \/ (apply[r] = "update" /\ card'[r] = Shown(applied[r])),
              UNCHANGED text
       PROVE  Goal
    <2>1. (r \in pending => settle[r] = "off") /\ (present[r] = "apply" => caller[r] = "presenting")
        BY DEF RequestAgrees
    <2>2. answer'[r] = IF settle[r] # "apply" THEN answer[r]
                      ELSE IF decision[r] \in Allows THEN "allow" ELSE "deny"
        BY <1>1, <1>11 DEF ApplyEnds, Finish, CoordinatorTypes
    <2>. QED BY <1>1, <1>11, <2>1, <2>2 DEF ApplyEnds, CoordinatorMoves, CardMoves, Undone, Updating, CoordinatorTypes, CardTypes
<1>12. CASE ApplyLooks(r)
    <2>1. CASE CanApply(r)
        BY <1>1, <1>12, <2>1 DEF ApplyLooks, coordinator, CoordinatorMoves, CardMoves, Undone, Updating, CoordinatorTypes, CardTypes
    <2>2. CASE ~CanApply(r)
        BY <1>1, <1>11, <1>12, <2>2 DEF ApplyLooks
    <2>. QED BY <2>1, <2>2
<1>13. CASE UpdateCard(r)
    BY <1>1, <1>13 DEF UpdateCard, coordinator, CoordinatorMoves, CardMoves, Undone, Updating, CoordinatorTypes, CardTypes
<1>14. CASE UpdateFails(r)
    BY <1>1, <1>11, <1>14 DEF UpdateFails, CardTypes
<1>15. CASE CardRemoved(r)
    BY <1>1, <1>11, <1>15 DEF CardRemoved
<1>16. CASE Taken(r)
    BY <1>1, <1>16 DEF Taken, CoordinatorMoves, CardMoves, Undone, Updating, CoordinatorTypes, CardTypes
<1>17. CASE Called(r) \/ ClickOrphan(r)
    <2>2. CASE Called(r)
        BY <1>1, <2>2 DEF Called, CoordinatorMoves, CardMoves, Undone, Updating, CoordinatorTypes, CardTypes
    <2>3. CASE ClickOrphan(r)
        BY <1>1, <2>3 DEF ClickOrphan, coordinator, applying, CoordinatorMoves, CardMoves, Undone, Updating, CoordinatorTypes, CardTypes
    <2>. QED BY <1>17, <2>2, <2>3
<1>18. CASE Restart
    BY <1>1, <1>18 DEF Restart, Waits, RequestAgrees, CoordinatorMoves, CardMoves, Undone, Updating, CoordinatorTypes, CardTypes
<1>. QED BY <1>2, <1>3, <1>4, <1>5, <1>6, <1>8, <1>9, <1>10, <1>12, <1>13, <1>14, <1>15, <1>16, <1>17,
            <1>18, StepOfRequest DEF OwnStep

(* What the changes of the tables are.                                     *)
Changed(a) ==
    /\ ~saving /\ saving' = TRUE /\ queue' = queue /\ Head(queue') = a /\ Head(queue) = a
    /\ disk' = disk /\ prev' = List(routes, settled) /\ prev'.routes = routes
    /\ \A r : r \in DOMAIN prev'.settled <=> r \in routes /\ r \in DOMAIN settled
    /\ \A r : Allowed(prev'.settled, r) <=> r \in routes /\ Allowed(settled, r)

LEMMA ChangesAre ==
    /\ CloseUnsettled => /\ Changed(Actor("recovery", None)) /\ routes' = routes
                         /\ DOMAIN settled' = routes \cup DOMAIN settled
                         /\ \A r \in DOMAIN settled : settled'[r] = settled[r]
                         /\ \A r \in DOMAIN settled' : r \in DOMAIN settled \/ settled'[r] = "deny"
    /\ \A q : RememberRoute(q) =>
            /\ Changed(Actor("route", q)) /\ settled' = settled
            /\ \A r : r \in routes' <=> r \in routes \/ r = q
    /\ \A q : Discard(q) =>
            /\ Changed(Actor("discard", q)) /\ routes' = routes /\ q \notin routes
            /\ \A r : r \in DOMAIN settled' <=> r \in DOMAIN settled /\ r # q
            /\ \A r \in DOMAIN settled' : settled'[r] = settled[r]
    /\ \A q : RememberSettlement(q) =>
            /\ Changed(Settlement(q)) /\ routes' = routes
            /\ \A r : r \in DOMAIN settled' <=> r \in DOMAIN settled \/ r = q
            /\ settled'[q] = decision[q] /\ decision' = decision
            /\ \A r \in DOMAIN settled : r # q => settled'[r] = settled[r]
    /\ \A q : RemoveCard(q) =>
            /\ Changed(Actor("removal", q)) /\ StillApplied(q)
            /\ \A r : r \in routes' <=> r \in routes /\ r # q
            /\ \A r : r \in DOMAIN settled' <=> r \in DOMAIN settled /\ r # q
            /\ \A r \in DOMAIN settled' : settled'[r] = settled[r]
<1>1. \A a, rt, st : Change(a, rt, st) => Changed(a) /\ routes' = rt /\ settled' = st
    BY DEF Change, IsNext, List, Allowed, Changed
<1>2. CloseUnsettled =>
          /\ Changed(Actor("recovery", None)) /\ routes' = routes
          /\ settled' = [r \in routes \cup DOMAIN settled |-> IF r \in DOMAIN settled THEN settled[r] ELSE "deny"]
    BY <1>1 DEF CloseUnsettled
<1>3. \A q : RememberRoute(q) => Changed(Actor("route", q)) /\ settled' = settled /\ routes' = routes \cup {q}
    BY <1>1 DEF RememberRoute
<1>4. \A q : Discard(q) => Changed(Actor("discard", q)) /\ routes' = routes /\ q \notin routes
                          /\ settled' = WithoutDecision(settled, q)
    BY <1>1 DEF Discard, MustDiscard
<1>5. \A q : RememberSettlement(q) => Changed(Settlement(q)) /\ routes' = routes /\ decision' = decision
                                      /\ settled' = WithDecision(settled, q, decision[q])
    BY <1>1 DEF RememberSettlement, coordinator
<1>6. \A q : RemoveCard(q) => Changed(Actor("removal", q)) /\ StillApplied(q) /\ routes' = routes \ {q}
                             /\ settled' = WithoutDecision(settled, q)
    BY <1>1 DEF RemoveCard
<1>7. CloseUnsettled => /\ DOMAIN settled' = routes \cup DOMAIN settled
                        /\ \A r \in DOMAIN settled : settled'[r] = settled[r]
                        /\ \A r \in DOMAIN settled' : r \in DOMAIN settled \/ settled'[r] = "deny"
    BY <1>2
<1>8. \A q : settled' = WithoutDecision(settled, q) =>
          /\ \A r : r \in DOMAIN settled' <=> r \in DOMAIN settled /\ r # q
          /\ \A r \in DOMAIN settled' : settled'[r] = settled[r]
    BY DEF WithoutDecision
<1>9. \A q : settled' = WithDecision(settled, q, decision[q]) =>
          /\ \A r : r \in DOMAIN settled' <=> r \in DOMAIN settled \/ r = q
          /\ settled'[q] = decision[q]
          /\ \A r \in DOMAIN settled : r # q => settled'[r] = settled[r]
    BY DEF WithDecision
<1>10. ASSUME NEW q, RememberRoute(q)
       PROVE  /\ Changed(Actor("route", q)) /\ settled' = settled
              /\ \A r : r \in routes' <=> r \in routes \/ r = q
    BY <1>3, <1>10
<1>11. ASSUME NEW q, Discard(q)
       PROVE  /\ Changed(Actor("discard", q)) /\ routes' = routes /\ q \notin routes
              /\ \A r : r \in DOMAIN settled' <=> r \in DOMAIN settled /\ r # q
              /\ \A r \in DOMAIN settled' : settled'[r] = settled[r]
    BY <1>4, <1>8, <1>11
<1>12. ASSUME NEW q, RememberSettlement(q)
       PROVE  /\ Changed(Settlement(q)) /\ routes' = routes
              /\ \A r : r \in DOMAIN settled' <=> r \in DOMAIN settled \/ r = q
              /\ settled'[q] = decision[q] /\ decision' = decision
              /\ \A r \in DOMAIN settled : r # q => settled'[r] = settled[r]
    BY <1>5, <1>9, <1>12
<1>13. ASSUME NEW q, RemoveCard(q)
       PROVE  /\ Changed(Actor("removal", q)) /\ StillApplied(q)
              /\ \A r : r \in routes' <=> r \in routes /\ r # q
              /\ \A r : r \in DOMAIN settled' <=> r \in DOMAIN settled /\ r # q
              /\ \A r \in DOMAIN settled' : settled'[r] = settled[r]
    BY <1>6, <1>8, <1>13
<1>. QED BY <1>2, <1>7, <1>10, <1>11, <1>12, <1>13

LEMMA TablesKept ==
    ASSUME TypesAgree, QueueAgrees, TablesAgree, \A r \in Requests : RequestAgrees(r), Next
    PROVE  TablesAgree'
<1>1. TableTypes /\ CoordinatorTypes
    BY TypesAre DEF TypesAgree
<1>2. (saving => \A r \in routes : r \in prev.routes \/ Head(queue) = Actor("route", r))'
    <2>1. CASE TablesStay
        BY <2>1 DEF TablesStay, TablesAgree
    <2>2. CASE ListSaved \/ ListPutBack \/ Restart
        BY <2>2 DEF ListSaved, ListPutBack, Restart
    <2>3. CASE CloseUnsettled
        BY <2>3, ChangesAre DEF Changed
    <2>4. ASSUME NEW r \in Requests, RememberRoute(r)
          PROVE  routes' = prev'.routes \cup {r} /\ Head(queue') = Actor("route", r)
        BY <2>4, ChangesAre DEF Changed
    <2>5. ASSUME NEW r \in Requests, Discard(r) \/ RememberSettlement(r) \/ RemoveCard(r)
          PROVE  routes' \subseteq prev'.routes
        BY <2>5, ChangesAre DEF Changed
    <2>. QED BY <2>1, <2>2, <2>3, <2>4, <2>5, StepOfTables DEF ListChanged
<1> SUFFICES ASSUME NEW r \in Requests
             PROVE  /\ (Writes(Actor("route", r)) => r \in routes)'
                    /\ (Writes(Settlement(r)) => r \in DOMAIN settled /\ settled[r] = decision[r])'
                    /\ (r \in text => r \in routes /\ ~Updating(r))'
                    /\ (Updating(r) /\ r \in pending =>
                          /\ r \in DOMAIN settled \/ r \notin routes
                          /\ saving => r \in DOMAIN prev.settled \/ r \notin prev.routes)'
    BY <1>2 DEF TablesAgree
<1>3. /\ saving /\ r \in routes => r \in prev.routes \/ Head(queue) = Actor("route", r)
      /\ Writes(Actor("route", r)) => r \in routes
      /\ Writes(Settlement(r)) => r \in DOMAIN settled /\ settled[r] = decision[r]
      /\ r \in text => r \in routes /\ ~Updating(r)
      /\ Updating(r) /\ r \in pending =>
            /\ r \in DOMAIN settled \/ r \notin routes
            /\ saving => r \in DOMAIN prev.settled \/ r \notin prev.routes
    BY DEF TablesAgree
<1>4. RequestAgrees(r) /\ CoordinatorMoves(r) /\ CardMoves(r)
    BY OwnMoves
<1>5. saving => \A q \in Requests :
          /\ Head(queue) = Settlement(q) => settle[q] = "save"
          /\ Head(queue) = Actor("route", q) => present[q] = "route"
    BY HeadIsWaited DEF QueueAgrees
<1>6. /\ \A q \in Requests : Actor("route", q) = Actor("route", r) => q = r
      /\ \A q \in Requests : Settlement(q) = Settlement(r) => q = r
      /\ \A q \in Requests : /\ Settlement(q) # Actor("route", r) /\ Actor("route", q) # Settlement(r)
                            /\ Actor("discard", q) # Actor("route", r) /\ Actor("discard", q) # Settlement(r)
                            /\ Actor("removal", q) # Actor("route", r) /\ Actor("removal", q) # Settlement(r)
      /\ Actor("recovery", None) # Actor("route", r) /\ Actor("recovery", None) # Settlement(r)
    BY ActorsAre DEF Settlement
<1>7. (Writes(Actor("route", r)) => r \in routes)'
    <2>1. CASE TablesStay
        BY <1>3, <2>1 DEF TablesStay, Writes
    <2>2. CASE ListSaved \/ ListPutBack \/ Restart
        BY <2>2 DEF ListSaved, ListPutBack, Restart, Writes
    <2>3. CASE CloseUnsettled
        BY <1>6, <2>3, ChangesAre DEF Changed, Writes
    <2>4. ASSUME NEW q \in Requests, ListChanged(q) PROVE (Writes(Actor("route", r)) => r \in routes)'
        BY <1>6, <2>4, ChangesAre DEF Changed, ListChanged, Writes
    <2>. QED BY <2>1, <2>2, <2>3, <2>4, StepOfTables
<1>8. (Writes(Settlement(r)) => r \in DOMAIN settled /\ settled[r] = decision[r])'
    <2>1. CASE TablesStay
        <3>1. Writes(Settlement(r))' => Writes(Settlement(r))
            BY <2>1 DEF TablesStay, Writes
        <3>2. Writes(Settlement(r)) => decision'[r] = decision[r]
            BY <1>4, <1>5 DEF Writes, CoordinatorMoves, Taken, RequestAgrees
        <3>. QED BY <1>3, <2>1, <3>1, <3>2 DEF TablesStay
    <2>2. CASE ListSaved \/ ListPutBack \/ Restart
        BY <2>2 DEF ListSaved, ListPutBack, Restart, Writes
    <2>3. CASE CloseUnsettled
        BY <1>6, <2>3, ChangesAre DEF Changed, Writes
    <2>4. ASSUME NEW q \in Requests, RememberSettlement(q), Writes(Settlement(r))'
          PROVE  r \in DOMAIN settled' /\ settled'[r] = decision'[r]
        <3>1. q = r
            BY <1>6, <2>4, ChangesAre DEF Changed, Writes
        <3>. QED BY <2>4, <3>1, ChangesAre
    <2>5. ASSUME NEW q \in Requests, RememberRoute(q) \/ Discard(q) \/ RemoveCard(q)
          PROVE  ~Writes(Settlement(r))'
        BY <1>6, <2>5, ChangesAre DEF Changed, Writes
    <2>. QED BY <2>1, <2>2, <2>3, <2>4, <2>5, StepOfTables DEF ListChanged
<1>9. (r \in text => r \in routes /\ ~Updating(r))'
    <2>1. ASSUME RouteSaved(r), r \in text' PROVE r \in routes' /\ ~Updating(r)'
        <3>1. present[r] = "route" /\ Writes(Actor("route", r))
            BY <2>1, TurnsAre DEF Writes
        <3>2. r \notin text /\ ~Updating(r)
            BY <1>4, <3>1 DEF RequestAgrees, Fresh
        <3>3. Presented(r) /\ UNCHANGED routes
            BY <2>1, <3>2 DEF RouteSaved, Saved
        <3>. QED BY <1>3, <3>1, <3>2, <3>3 DEF Presented, Updating
    <2>2. ASSUME r \in text, r \in text' PROVE ~Updating(r)'
        BY <1>3, <1>4, <2>2 DEF CardMoves
    <2>3. ASSUME r \in text, r \in text', ~RouteSaved(r) PROVE r \in routes'
        <3>1. r \in routes /\ apply[r] # "remove" /\ present[r] # "route"
            BY <1>3, <1>4, <2>3 DEF Updating, RequestAgrees, Fresh
        <3>2. CASE TablesStay \/ ListSaved
            BY <3>1, <3>2 DEF TablesStay, ListSaved
        <3>3. CASE ListPutBack
            BY <1>3, <1>5, <3>1, <3>3 DEF ListPutBack
        <3>4. CASE CloseUnsettled
            BY <3>1, <3>4, ChangesAre DEF Changed
        <3>5. ASSUME NEW q \in Requests, RememberRoute(q) \/ Discard(q) \/ RememberSettlement(q)
              PROVE  r \in routes'
            BY <3>1, <3>5, ChangesAre DEF Changed
        <3>6. ASSUME NEW q \in Requests, RemoveCard(q) PROVE r \in routes'
            <4>1. q # r
                BY <3>1, <3>6, TurnsAre
            <4>. QED BY <3>1, <3>6, <4>1, ChangesAre DEF Changed
        <3>7. ~Restart
            BY <2>3 DEF Restart
        <3>. QED BY <3>2, <3>3, <3>4, <3>5, <3>6, <3>7, StepOfTables DEF ListChanged
    <2>. QED BY <1>4, <2>1, <2>2, <2>3 DEF CardMoves
<1>10. (Updating(r) /\ r \in pending =>
            /\ r \in DOMAIN settled \/ r \notin routes
            /\ saving => r \in DOMAIN prev.settled \/ r \notin prev.routes)'
    <2>1. SUFFICES ASSUME Updating(r)', r \in pending'
                   PROVE  /\ r \in DOMAIN settled' \/ r \notin routes'
                          /\ saving' => r \in DOMAIN prev'.settled \/ r \notin prev'.routes
        OBVIOUS
    <2>2. CASE ApplyLooks(r) /\ CanApply(r)
        BY <2>2, TurnsAre DEF CanApply, cards
    <2>3. ASSUME Updating(r) PROVE r \in pending
        <3>1. OpenRequest(r) => ~Updating(r)
            BY <1>4 DEF OpenRequest, RequestAgrees, Fresh
        <3>. QED BY <1>4, <2>1, <2>3, <3>1 DEF CoordinatorMoves
    <2>4. CASE Updating(r)
        <3>1. /\ r \in DOMAIN settled \/ r \notin routes
              /\ saving => r \in DOMAIN prev.settled \/ r \notin prev.routes
            BY <1>3, <2>3, <2>4
        <3>2. CASE TablesStay
            BY <3>1, <3>2 DEF TablesStay
        <3>3. CASE ListSaved \/ ListPutBack
            BY <3>1, <3>3 DEF ListSaved, ListPutBack
        <3>4. CASE CloseUnsettled
            BY <3>1, <3>4, ChangesAre DEF Changed
        <3>5. ASSUME NEW q \in Requests, RememberRoute(q)
              PROVE  /\ r \in DOMAIN settled' \/ r \notin routes'
                     /\ saving' => r \in DOMAIN prev'.settled \/ r \notin prev'.routes
            <4>1. q # r
                BY <1>4, <2>4, <3>5, TurnsAre DEF RequestAgrees, Fresh
            <4>. QED BY <3>1, <3>5, <4>1, ChangesAre DEF Changed
        <3>6. ASSUME NEW q \in Requests, Discard(q) \/ RememberSettlement(q) \/ RemoveCard(q)
              PROVE  /\ r \in DOMAIN settled' \/ r \notin routes'
                     /\ saving' => r \in DOMAIN prev'.settled \/ r \notin prev'.routes
            BY <3>1, <3>6, ChangesAre DEF Changed
        <3>7. ~Restart
            BY <2>1 DEF Restart
        <3>. QED BY <3>2, <3>3, <3>4, <3>5, <3>6, <3>7, StepOfTables DEF ListChanged
    <2>. QED BY <1>4, <2>1, <2>2, <2>4 DEF CardMoves
<1>. QED BY <1>7, <1>8, <1>9, <1>10

(* A request keeps what the invariant says of it.                          *)
LEMMA FreshKept ==
    ASSUME TypesAgree, QueueAgrees, TablesAgree, \A q \in Requests : RequestAgrees(q), Next,
           NEW r \in Requests, Fresh(r),
           \/ caller[r] = "new" /\ caller'[r] = "new"
           \/ present'[r] \in {"post", "route"}
    PROVE  Fresh(r)'
<1>1. CoordinatorMoves(r) /\ CardMoves(r) /\ RequestAgrees(r)
    BY OwnMoves
<1>2. ~RouteSaved(r) /\ ~RouteNotSaved(r)
    <2>1. RouteSaved(r) \/ RouteNotSaved(r) => present[r] = "route"
        BY TurnsAre
    <2>. QED BY <1>1, <2>1, RouteTurn DEF RequestAgrees
<1>3. /\ r \notin text /\ ~Updating(r)
      /\ ~Writes(Actor("route", r)) => r \notin routes
      /\ saving => r \notin prev.routes
    BY DEF Fresh
<1>4. Restart => r \notin disk.routes
    BY <1>1 DEF Restart, RequestAgrees
<1>5. r \notin text' /\ ~Updating(r)'
    <2>1. ApplyLooks(r) => ~saving
        BY TurnsAre
    <2>. QED BY <1>1, <1>2, <1>3, <2>1 DEF CardMoves, CanApply, Writes
<1>6. (~Writes(Actor("route", r)) => r \notin routes)'
    <2>1. CASE TablesStay
        BY <1>3, <2>1 DEF TablesStay, Writes
    <2>2. CASE ListSaved
        BY <1>2, <1>3, <2>2 DEF ListSaved, Writes
    <2>3. CASE ListPutBack
        BY <1>3, <2>3 DEF ListPutBack
    <2>4. CASE Restart
        BY <1>4, <2>4 DEF Restart
    <2>5. CASE CloseUnsettled
        BY <1>3, <2>5, ChangesAre DEF Changed, Writes
    <2>6. ASSUME NEW q \in Requests, ListChanged(q) PROVE (~Writes(Actor("route", r)) => r \notin routes)'
        BY <1>3, <2>6, ChangesAre DEF ListChanged, Changed, Writes
    <2>. QED BY <2>1, <2>2, <2>3, <2>4, <2>5, <2>6, StepOfTables
<1>7. (saving => r \notin prev.routes)'
    <2>1. CASE TablesStay
        BY <1>3, <2>1 DEF TablesStay
    <2>2. CASE ListSaved \/ ListPutBack \/ Restart
        BY <2>2 DEF ListSaved, ListPutBack, Restart
    <2>3. CASE CloseUnsettled
        BY <1>3, <2>3, ChangesAre DEF Changed, Writes
    <2>4. ASSUME NEW q \in Requests, ListChanged(q) PROVE (saving => r \notin prev.routes)'
        BY <1>3, <2>4, ChangesAre DEF ListChanged, Changed, Writes
    <2>. QED BY <2>1, <2>2, <2>3, <2>4, StepOfTables
<1>. QED BY <1>5, <1>6, <1>7 DEF Fresh

LEMMA RequestKept ==
    ASSUME TypesAgree, QueueAgrees, TablesAgree, \A q \in Requests : RequestAgrees(q), Next,
           NEW r \in Requests
    PROVE  RequestAgrees(r)'
<1>1. CoordinatorMoves(r) /\ CardMoves(r) /\ RequestAgrees(r)
    BY OwnMoves
<1>2. CoordinatorTypes' /\ CardTypes'
    BY OtherTypesKept
<1>3. /\ SettlementSaved(r) \/ SettlementNotSaved(r) => settle[r] = "save"
      /\ RouteSaved(r) \/ RouteNotSaved(r) => present[r] = "route"
    BY TurnsAre
<1>4. OpenRequest(r) => /\ caller[r] = "new" /\ caller'[r] = "presenting"
                        /\ answer' = answer /\ settle' = settle
    BY DEF OpenRequest, TypesAgree, TypeOK
<1>5. (caller[r] = "new" => /\ r \notin pending /\ present[r] = "off" /\ settle[r] = "off"
                            /\ answer[r] = "none" /\ Fresh(r) /\ r \notin disk.routes)'
    <2>1. SUFFICES ASSUME caller'[r] = "new"
                   PROVE  /\ r \notin pending' /\ present'[r] = "off" /\ settle'[r] = "off"
                          /\ answer'[r] = "none" /\ Fresh(r)' /\ r \notin disk'.routes
        OBVIOUS
    <2>2. caller[r] = "new"
        BY <1>1, <2>1 DEF CoordinatorMoves
    <2>3. /\ r \notin pending /\ present[r] = "off" /\ settle[r] = "off" /\ answer[r] = "none"
          /\ Fresh(r) /\ r \notin disk.routes /\ ~OpenRequest(r)
        BY <1>1, <1>4, <2>1, <2>2 DEF RequestAgrees
    <2>4. r \notin pending' /\ present'[r] = "off" /\ answer'[r] = "none"
        BY <1>1, <1>3, <2>3 DEF CoordinatorMoves, CardMoves
    <2>5. settle'[r] = "off"
        BY <1>1, <1>2, <1>3, <2>3 DEF CoordinatorMoves, CoordinatorTypes, Taken
    <2>6. Fresh(r)'
        BY <2>1, <2>2, <2>3, FreshKept
    <2>7. r \notin disk'.routes
        <3>1. CASE TablesStay \/ ListPutBack \/ Restart
            BY <2>3, <3>1 DEF TablesStay, ListPutBack, Restart
        <3>2. CASE ListSaved
            BY <1>3, <2>3, <3>2 DEF ListSaved, List, Fresh, Writes
        <3>3. CASE CloseUnsettled \/ \E q \in Requests : ListChanged(q)
            BY <2>3, <3>3, ChangesAre DEF ListChanged, Changed
        <3>. QED BY <3>1, <3>2, <3>3, StepOfTables
    <2>. QED BY <2>4, <2>5, <2>6, <2>7
<1>6. (present[r] \in {"post", "route"} => Fresh(r))'
    <2>1. SUFFICES ASSUME present'[r] \in {"post", "route"} PROVE Fresh(r)'
        OBVIOUS
    <2>2. present[r] \in {"post", "route"} \/ caller[r] = "new"
        BY <1>1, <1>4, <2>1 DEF CardMoves, PostCard
    <2>3. Fresh(r)
        BY <1>1, <2>2 DEF RequestAgrees
    <2>. QED BY <2>1, <2>3, FreshKept
<1>7. (present[r] # "off" => caller[r] = "presenting")'
    BY <1>1, <1>4 DEF CardMoves, RequestAgrees
<1>8. (r \in pending => settle[r] = "off" /\ answer[r] = "none")'
    BY <1>1, <1>4 DEF CoordinatorMoves, RequestAgrees
<1>9. (settle[r] # "off" => answer[r] = "none")'
    <2>1. ASSUME settle'[r] # "off", settle[r] # "off" PROVE answer'[r] = "none"
        BY <1>1, <2>1 DEF CoordinatorMoves, RequestAgrees
    <2>2. ASSUME Taken(r) PROVE answer'[r] = "none"
        BY <1>1, <2>2 DEF Taken, RequestAgrees
    <2>3. settle'[r] # "off" => settle[r] # "off" \/ Taken(r)
        BY <1>1, <1>2, <1>3 DEF CoordinatorMoves, CoordinatorTypes
    <2>. QED BY <2>1, <2>2, <2>3
<1>10. (decision[r] = "allow_session" => r \notin Restricted)'
    BY <1>1 DEF CoordinatorMoves, RequestAgrees, Taken, Answer, MayAnswer
<1>. QED BY <1>5, <1>6, <1>7, <1>8, <1>9, <1>10 DEF RequestAgrees

-----------------------------------------------------------------------------
(* An allowance is written by its settlement alone.                        *)
LEMMA SaysKept ==
    ASSUME TypesAgree, QueueAgrees, TablesAgree, \A q \in Requests : RequestAgrees(q), Next,
           NEW r \in Requests, SaysTrue(r)
    PROVE  SaysTrue(r)'
<1>1. CoordinatorMoves(r) /\ CardMoves(r) /\ RequestAgrees(r)
    BY OwnMoves
<1>2. Settlement(r) \in Actors /\ \A q \in Requests : Settlement(q) = Settlement(r) => q = r
    BY ActorsAre DEF Settlement
<1>3. SettlementSaved(r) \/ SettlementNotSaved(r) => settle[r] = "save"
    BY TurnsAre
<1> DEFINE Told == /\ caller[r] # "new" /\ r \notin pending /\ settle[r] # "save"
                   /\ decision[r] \in Allows /\ answer[r] # "deny"
           ToldNext == /\ caller'[r] # "new" /\ r \notin pending' /\ settle'[r] # "save"
                       /\ decision'[r] \in Allows /\ answer'[r] # "deny"
(* What is true of a written allowance stays true.                         *)
<1>4. ASSUME Told PROVE ToldNext
    <2>1. ~OpenRequest(r) /\ ~Taken(r) /\ ~SettlementNotSaved(r)
        BY <1>3, <1>4 DEF OpenRequest, Taken
    <2>. QED BY <1>1, <1>4, <2>1 DEF CoordinatorMoves
<1>5. ASSUME SettlementSaved(r), decision[r] \in Allows PROVE ToldNext
    <2>1. settle[r] = "save" /\ answer[r] = "none" /\ r \notin pending /\ caller[r] # "new"
        BY <1>1, <1>3, <1>5 DEF RequestAgrees
    <2>2. settle'[r] = "apply" /\ UNCHANGED <<caller, pending, answer, decision>>
        BY <1>5 DEF SettlementSaved, TypesAgree, TypeOK
    <2>. QED BY <1>5, <2>1, <2>2
<1>. HIDE DEF Told, ToldNext
<1>6. SettlementSaved(r) \/ ~(ListSaved /\ Head(queue) = Settlement(r))
    BY DEF ListSaved
<1>7. ListPutBack /\ Head(queue) = Settlement(r) => settle[r] = "save" /\ SettlementNotSaved(r)
    BY <1>3 DEF ListPutBack
(* The lists.                                                              *)
<1>8. ASSUME (Allowed(settled, r) /\ ~Writes(Settlement(r)))' \/ (saving /\ Allowed(prev.settled, r))'
             \/ Allowed(disk.settled, r)'
      PROVE  \/ Allowed(settled, r) /\ ~Writes(Settlement(r))
             \/ saving /\ Allowed(prev.settled, r)
             \/ Allowed(disk.settled, r)
             \/ SettlementSaved(r) /\ decision[r] \in Allows
    <2>1. Writes(Settlement(r)) => settled[r] = decision[r]
        BY DEF TablesAgree
    <2>2. CASE TablesStay
        BY <1>8, <2>2 DEF TablesStay, Writes, Allowed
    <2>3. CASE ListSaved
        <3>1. Allowed(settled, r)
              /\ (Writes(Settlement(r)) => SettlementSaved(r))
            BY <1>8, <2>3 DEF ListSaved, Allowed, List, Writes
        <3>. QED BY <2>1, <3>1 DEF Allowed
    <2>4. CASE ListPutBack
        BY <1>8, <2>4 DEF ListPutBack, Allowed
    <2>5. CASE Restart
        BY <1>8, <2>5 DEF Restart, Allowed
    <2>6. CASE CloseUnsettled
        BY <1>8, <2>6, ChangesAre DEF Changed, Writes, Allowed, Allows
    <2>7. ASSUME NEW q \in Requests, RememberRoute(q) \/ Discard(q) \/ RemoveCard(q)
          PROVE  (Allowed(settled, r) /\ ~Writes(Settlement(r))) \/ Allowed(disk.settled, r)
        BY <1>8, <2>7, ChangesAre DEF Changed, Writes, Allowed
    <2>8. ASSUME NEW q \in Requests, RememberSettlement(q)
          PROVE  (Allowed(settled, r) /\ ~Writes(Settlement(r))) \/ Allowed(disk.settled, r)
        BY <1>2, <1>8, <2>8, ChangesAre DEF Changed, Writes, Allowed
    <2>. QED BY <2>2, <2>3, <2>4, <2>5, <2>6, <2>7, <2>8, StepOfTables DEF ListChanged
(* The card and the one who applies.                                       *)
<1>9. ASSUME Updating(r)', applied'[r] \in Allows
      PROVE  (Updating(r) /\ applied[r] \in Allows) \/ (Allowed(settled, r) /\ ~Writes(Settlement(r)))
    <2>1. ApplyLooks(r) => ~saving
        BY TurnsAre
    <2>. QED BY <1>1, <1>9, <2>1 DEF CardMoves, CanApply, Allowed, Writes
<1>10. card'[r] = "allowed" => card[r] = "allowed" \/ (Updating(r) /\ applied[r] \in Allows)
    BY <1>1 DEF CardMoves, Shown, Updating
<1>11. Says(r)' => Says(r) \/ (SettlementSaved(r) /\ decision[r] \in Allows)
    BY <1>8, <1>9, <1>10 DEF Says
<1>12. Says(r) => Told
    BY DEF SaysTrue, Told
<1>13. Says(r)' => ToldNext
    BY <1>4, <1>5, <1>11, <1>12
<1>. QED BY <1>13 DEF SaysTrue, ToldNext

(* An allowance that waits for its save keeps its card.                    *)
LEMMA WaitsKept ==
    ASSUME TypesAgree, QueueAgrees, TablesAgree, \A q \in Requests : RequestAgrees(q), Next,
           NEW r \in Requests, AllowanceWaits(r)
    PROVE  AllowanceWaits(r)'
<1>1. CoordinatorMoves(r) /\ CardMoves(r) /\ RequestAgrees(r)
    BY OwnMoves
<1>2. SUFFICES ASSUME Undone(r)', settle'[r] = "save", decision'[r] \in Allows
               PROVE  /\ present'[r] # "post" /\ r \in routes'
                      /\ present'[r] = "route" => Writes(Actor("route", r))'
                      /\ SettlementFirst(queue', r)
    BY DEF AllowanceWaits
<1>3. Undone(r) /\ ~OpenRequest(r)
    <2>1. OpenRequest(r) => settle'[r] = "off"
        BY <1>1 DEF OpenRequest, RequestAgrees
    <2>. QED BY <1>1, <1>2, <2>1 DEF CardMoves
<1>4. ~Restart
    BY <1>2 DEF Restart
<1>5. ASSUME Taken(r)
      PROVE  /\ present[r] # "post" /\ r \in routes
             /\ present[r] = "route" => Writes(Actor("route", r))
             /\ SettlementFirst(queue', r)
    <2>1. PICK d \in Decisions : decision'[r] = d /\ Answer(r, d)
        BY <1>2, <1>5 DEF Taken, Allows
    <2>2. r \in pending /\ r \notin DOMAIN settled /\ (r \in routes \/ r \in text)
          /\ queue' = queue \o <<Settlement(r)>>
        BY <2>1 DEF Answer, MayAnswer, Enqueue
    <2>3. r \in routes
        BY <2>2 DEF TablesAgree
    <2>4. present[r] \in {"post", "route"} => Writes(Actor("route", r))
        BY <1>1, <2>3 DEF RequestAgrees, Fresh
    <2>5. Writes(Actor("route", r)) => present[r] = "route"
        BY HeadIsWaited DEF Writes, QueueAgrees
    <2>6. ~Has(queue, Actor("removal", r)) /\ ~Has(queue, Settlement(r))
        <3>1. ~Updating(r)
            BY <2>2, <2>3 DEF TablesAgree
        <3>2. Has(queue, Actor("removal", r)) => apply[r] = "remove"
            <4>1. /\ Actor("removal", r) \in Actors
                  /\ Actor("removal", r).by = "removal" /\ Actor("removal", r).of = r
                BY ActorsAre DEF Actor
            <4>. QED BY <4>1 DEF QueueAgrees, Waited
        <3>3. Has(queue, Settlement(r)) => settle[r] = "save"
            <4>1. Settlement(r) \in Actors /\ Settlement(r).by = "settlement" /\ Settlement(r).of = r
                BY ActorsAre DEF Settlement, Actor
            <4>. QED BY <4>1 DEF QueueAgrees, Waited
        <3>. QED BY <1>1, <2>2, <3>1, <3>2, <3>3 DEF Updating, RequestAgrees
    <2>7. /\ Settlement(r) \in Actors /\ Actor("removal", r) \in Actors
          /\ Settlement(r) # Actor("removal", r) /\ queue \in Seq(Actors) /\ Once(queue)
        BY ActorsAre DEF Settlement, TypesAgree, QueueAgrees
    <2>8. /\ <<Settlement(r)>> \in MoreFor(queue)
          /\ \A b \in Actors : Has(<<Settlement(r)>>, b) <=> b = Settlement(r)
        BY <2>6, <2>7, MoreIsNoneOrOne
    <2>9. Has(queue', Settlement(r)) /\ ~Has(queue', Actor("removal", r))
        BY <2>2, <2>6, <2>7, <2>8, GrowEnd
    <2>. QED BY <2>3, <2>4, <2>5, <2>9 DEF SettlementFirst, InOrder, Has
<1>6. ASSUME settle[r] = "save"
      PROVE  /\ decision[r] \in Allows /\ ~Taken(r)
             /\ present[r] # "post" /\ r \in routes
             /\ present[r] = "route" => Writes(Actor("route", r))
             /\ SettlementFirst(queue, r) /\ SettlementFirst(queue', r)
    <2>1. ~Taken(r)
        BY <1>1, <1>6 DEF Taken, RequestAgrees
    <2>2. decision[r] \in Allows
        BY <1>1, <1>2, <2>1 DEF CoordinatorMoves
    <2>. QED BY <1>2, <1>3, <1>6, <2>1, <2>2, QueueKept DEF AllowanceWaits
<1>7. /\ present[r] # "post" /\ r \in routes
      /\ present[r] = "route" => Writes(Actor("route", r))
      /\ SettlementFirst(queue', r)
    BY <1>1, <1>2, <1>5, <1>6 DEF CoordinatorMoves
<1>8. present'[r] # "post"
    BY <1>1, <1>3, <1>7 DEF CardMoves
<1>9. present'[r] = "route" => present[r] = "route"
    BY <1>1, <1>7 DEF CardMoves, PostCard
<1>10. present'[r] = "route" => Writes(Actor("route", r))'
    <2>1. SUFFICES ASSUME present'[r] = "route" PROVE Writes(Actor("route", r))'
        OBVIOUS
    <2>2. Writes(Actor("route", r)) /\ ~RouteSaved(r) /\ ~RouteNotSaved(r)
        BY <1>7, <1>9, <2>1, RouteTurn
    <2>3. TablesStay
        BY <1>4, <2>2, StepOfTables, ChangesAre DEF Changed, ListChanged, ListSaved, ListPutBack, Writes
    <2>. QED BY <2>2, <2>3 DEF TablesStay, Writes
<1>11. r \in routes'
    <2>1. ~RouteNotSaved(r)
        BY <1>2 DEF RouteNotSaved, Present, Undone, TypesAgree, TypeOK
    <2>2. CASE TablesStay \/ ListSaved
        BY <1>7, <2>2 DEF TablesStay, ListSaved
    <2>3. CASE ListPutBack
        BY <1>7, <2>1, <2>3 DEF ListPutBack, TablesAgree
    <2>4. CASE CloseUnsettled \/ \E q \in Requests : RememberRoute(q) \/ Discard(q) \/ RememberSettlement(q)
        BY <1>7, <2>4, ChangesAre
    <2>5. ASSUME NEW q \in Requests, RemoveCard(q) PROVE r \in routes'
        <3>1. q # r
            <4>1. SUFFICES ASSUME q = r PROVE FALSE
                OBVIOUS
            <4>2. queue # <<>> /\ Head(queue) = Actor("removal", r) /\ queue' = queue /\ apply[r] = "remove"
                BY <2>5, <4>1, TurnsAre DEF RemoveCard, Change, IsNext
            <4>3. 1 \in 1 .. Len(queue) /\ queue[1] = Actor("removal", r)
                BY <4>2, EmptySeq DEF TypesAgree
            <4>4. PICK i \in 1 .. Len(queue) : queue[i] = Settlement(r)
                BY <1>7, <4>2 DEF SettlementFirst, Has
            <4>5. i < 1
                BY <1>7, <4>2, <4>3, <4>4 DEF SettlementFirst, InOrder
            <4>. QED BY <4>5
        <3>. QED BY <1>7, <2>5, <3>1, ChangesAre
    <2>. QED BY <1>4, <2>2, <2>3, <2>4, <2>5, StepOfTables DEF ListChanged
<1>. QED BY <1>7, <1>8, <1>10, <1>11

(* A saved allowance stands in every list, or its card tells it.           *)
LEMMA StandsKept ==
    ASSUME TypesAgree, QueueAgrees, TablesAgree, \A q \in Requests : RequestAgrees(q), Next,
           NEW r \in Requests, SaysTrue(r), AllowanceWaits(r), AllowanceStands(r)
    PROVE  AllowanceStands(r)'
<1>1. CoordinatorMoves(r) /\ CardMoves(r) /\ RequestAgrees(r) /\ CardTypes
    BY OwnMoves, TypesAre DEF TypesAgree
<1>2. SUFFICES ASSUME Undone(r)', answer'[r] = "allow" \/ (settle'[r] = "apply" /\ decision'[r] \in Allows)
               PROVE  AllowanceStands(r)'
    BY DEF AllowanceStands
<1>3. Undone(r) /\ ~OpenRequest(r)
    <2>1. OpenRequest(r) => settle'[r] = "off" /\ answer'[r] = "none"
        BY <1>1 DEF OpenRequest, RequestAgrees
    <2>. QED BY <1>1, <1>2, <2>1 DEF CardMoves
<1>4. ListStands(List(routes, settled), r) <=> IF r \in routes THEN Allowed(settled, r) ELSE card[r] = "allowed"
    BY DEF ListStands, List, Allowed
<1>5. (ListStands(List(routes, settled), r)
        <=> IF r \in routes THEN Allowed(settled, r) ELSE card[r] = "allowed")'
    BY DEF ListStands, List, Allowed
<1>6. List(routes, settled).routes = routes
    BY DEF List
(* Its settlement was saved by this step.                                  *)
<1>7. CASE SettlementSaved(r)
    <2>1. settle[r] = "save" /\ Writes(Settlement(r)) /\ answer[r] = "none"
        BY <1>1, <1>7, TurnsAre DEF Writes, RequestAgrees
    <2>2. /\ answer' = answer /\ decision' = decision /\ present' = present /\ card' = card /\ applied' = applied
          /\ disk' = List(routes, settled) /\ UNCHANGED <<routes, settled>> /\ saving' = FALSE
          /\ CallApply(r)
        BY <1>7 DEF SettlementSaved, Saved
    <2>3. decision[r] \in Allows
        BY <1>2, <2>1, <2>2
    <2>4. /\ present[r] # "post" /\ r \in routes
          /\ present[r] = "route" => Writes(Actor("route", r))
        BY <1>3, <2>1, <2>3 DEF AllowanceWaits
    <2>5. present[r] # "route"
        BY <2>1, <2>4, ActorsAre DEF Writes, Settlement
    <2>6. r \in DOMAIN settled /\ Allowed(settled, r)
        BY <2>1, <2>3 DEF TablesAgree, Allowed
    <2>7. Updating(r) => applied[r] \notin Allows
        BY <2>1 DEF SaysTrue, Says
    <2>8. apply'[r] = IF apply[r] = "off" THEN "look" ELSE apply[r]
        BY <1>1, <2>2 DEF CallApply, CardTypes
    <2>9. ListStands(List(routes, settled), r)' /\ ListStands(disk, r)' /\ r \in disk'.routes
        BY <1>5, <1>6, <2>2, <2>4, <2>6 DEF ListStands, List, Allowed
    <2>. QED BY <2>2, <2>4, <2>5, <2>7, <2>8, <2>9 DEF AllowanceStands, Updating
(* It was saved before.                                                    *)
<1>8. CASE ~SettlementSaved(r)
    <2>1. answer[r] = "allow" \/ (settle[r] = "apply" /\ decision[r] \in Allows)
        <3>1. Taken(r) => settle'[r] = "save" /\ answer'[r] = answer[r]
            BY DEF Taken
        <3>. QED BY <1>1, <1>2, <1>8, <3>1 DEF CoordinatorMoves
    <2>2. /\ present[r] \notin {"post", "route"}
          /\ ListStands(List(routes, settled), r) /\ ListStands(disk, r)
          /\ saving => ListStands(prev, r)
          /\ Updating(r) /\ applied[r] \notin Allows =>
                r \in routes /\ r \in disk.routes /\ (saving => r \in prev.routes)
          /\ apply[r] = "remove" /\ applied[r] \in Allows => card[r] = "allowed"
        BY <1>3, <2>1 DEF AllowanceStands
    <2>3. present'[r] \notin {"post", "route"}
        BY <1>1, <1>3, <2>2 DEF CardMoves, PostCard
    <2>4. settle[r] # "save" /\ present[r] # "retract"
        BY <1>1, <1>3, <2>1 DEF RequestAgrees, Undone
    (* Its card tells no less. *)
    <2>5. card[r] = "allowed" => \/ card'[r] = "allowed"
                                 \/ r \in routes /\ r \in disk.routes /\ (saving => r \in prev.routes)
        BY <1>1, <2>2, <2>4 DEF CardMoves, Updating, Shown
    (* So what stands goes on to stand. *)
    <2>6. /\ r \notin routes => card'[r] = "allowed"
          /\ r \notin disk.routes => card'[r] = "allowed"
          /\ saving /\ r \notin prev.routes => card'[r] = "allowed"
          /\ r \in routes => Allowed(settled, r)
          /\ r \in disk.routes => Allowed(disk.settled, r)
          /\ saving /\ r \in prev.routes => Allowed(prev.settled, r)
        BY <1>4, <2>2, <2>5 DEF ListStands
    <2>7. /\ (IF r \in routes' THEN Allowed(settled', r) ELSE card'[r] = "allowed")
          /\ (IF r \in disk'.routes THEN Allowed(disk'.settled, r) ELSE card'[r] = "allowed")
          /\ saving' => (IF r \in prev'.routes THEN Allowed(prev'.settled, r) ELSE card'[r] = "allowed")
        <3>1. CASE TablesStay
            BY <2>6, <3>1 DEF TablesStay
        <3>2. CASE ListSaved
            BY <2>6, <3>2 DEF ListSaved, List, Allowed
        <3>3. CASE ListPutBack
            BY <2>6, <3>3 DEF ListPutBack
        <3>4. CASE Restart
            BY <2>6, <3>4 DEF Restart
        <3>5. CASE CloseUnsettled
            BY <2>6, <3>5, ChangesAre DEF Changed, Allowed
        <3>6. ASSUME NEW q \in Requests, RememberRoute(q)
              PROVE  /\ (IF r \in routes' THEN Allowed(settled', r) ELSE card'[r] = "allowed")
                     /\ Changed(Actor("route", q))
            <4>1. q # r
                BY <2>2, <3>6, TurnsAre
            <4>. QED BY <2>6, <3>6, <4>1, ChangesAre DEF Allowed
        <3>7. ASSUME NEW q \in Requests, Discard(q)
              PROVE  /\ (IF r \in routes' THEN Allowed(settled', r) ELSE card'[r] = "allowed")
                     /\ Changed(Actor("discard", q))
            BY <2>6, <3>7, ChangesAre DEF Allowed
        <3>8. ASSUME NEW q \in Requests, RememberSettlement(q)
              PROVE  /\ (IF r \in routes' THEN Allowed(settled', r) ELSE card'[r] = "allowed")
                     /\ Changed(Settlement(q))
            <4>1. q # r
                BY <2>4, <3>8, TurnsAre
            <4>. QED BY <2>6, <3>8, <4>1, ChangesAre DEF Allowed
        <3>9. ASSUME NEW q \in Requests, RemoveCard(q)
              PROVE  /\ (IF r \in routes' THEN Allowed(settled', r) ELSE card'[r] = "allowed")
                     /\ Changed(Actor("removal", q))
            <4>1. CASE q # r
                BY <2>6, <3>9, <4>1, ChangesAre DEF Allowed
            <4>2. CASE q = r
                <5>1. apply[r] = "remove" /\ StillApplied(r) /\ card' = card
                    BY <3>9, <4>2, TurnsAre DEF RemoveCard
                <5>2. applied[r] \in Allows
                    BY <2>6, <5>1 DEF StillApplied, CanApply, Allowed
                <5>. QED BY <2>2, <3>9, <4>2, <5>1, <5>2, ChangesAre
            <4>. QED BY <4>1, <4>2
        <3>10. ASSUME NEW a, Changed(a)
               PROVE  /\ (IF r \in disk'.routes THEN Allowed(disk'.settled, r) ELSE card'[r] = "allowed")
                      /\ (IF r \in prev'.routes THEN Allowed(prev'.settled, r) ELSE card'[r] = "allowed")
            BY <2>6, <3>10 DEF Changed
        <3>. QED BY <3>1, <3>2, <3>3, <3>4, <3>5, <3>6, <3>7, <3>8, <3>9, <3>10, StepOfTables DEF ListChanged
    (* A card that is to tell otherwise is not about to go. *)
    <2>8. ASSUME Updating(r)', applied'[r] \notin Allows
           PROVE  r \in routes' /\ r \in disk'.routes /\ (saving' => r \in prev'.routes)
        <3>1. ~(ApplyLooks(r) /\ CanApply(r) /\ applied'[r] = settled[r])
            BY <2>6, <2>8 DEF CanApply, Allowed
        <3>2. Updating(r) /\ applied[r] \notin Allows
            BY <1>1, <2>8, <3>1 DEF CardMoves
        <3>3. r \in routes /\ r \in disk.routes /\ (saving => r \in prev.routes)
            BY <2>2, <3>2
        <3>4. CASE TablesStay \/ ListPutBack
            BY <3>3, <3>4 DEF TablesStay, ListPutBack
        <3>5. CASE ListSaved
            BY <3>3, <3>5 DEF ListSaved, List
        <3>6. ~Restart
            BY <2>8 DEF Restart, Updating
        <3>7. CASE CloseUnsettled
            BY <3>3, <3>7, ChangesAre DEF Changed
        <3>8. ASSUME NEW q \in Requests, RememberRoute(q) \/ Discard(q) \/ RememberSettlement(q)
              PROVE  r \in routes' /\ r \in disk'.routes /\ r \in prev'.routes
            BY <3>3, <3>8, ChangesAre DEF Changed
        <3>9. ASSUME NEW q \in Requests, RemoveCard(q)
              PROVE  r \in routes' /\ r \in disk'.routes /\ r \in prev'.routes
            <4>1. q # r
                <5>1. SUFFICES ASSUME q = r PROVE FALSE
                    OBVIOUS
                <5>2. StillApplied(r)
                    BY <3>9, <5>1, ChangesAre
                <5>. QED BY <2>6, <3>2, <3>3, <5>2 DEF StillApplied, CanApply, Allowed
            <4>. QED BY <3>3, <3>9, <4>1, ChangesAre DEF Changed
        <3>. QED BY <3>4, <3>5, <3>6, <3>7, <3>8, <3>9, StepOfTables DEF ListChanged
    <2>9. ASSUME apply'[r] = "remove", applied'[r] \in Allows PROVE card'[r] = "allowed"
        <3>1. CASE UpdateCard(r)
            BY <1>1, <2>9, <3>1 DEF UpdateCard, Shown, CardTypes
        <3>2. CASE ~UpdateCard(r)
            <4>1. apply[r] = "remove" /\ ~ApplyLooks(r)
                BY <1>1, <2>9, <3>2, TurnsAre DEF CardMoves
            <4>2. applied'[r] = applied[r] /\ card[r] = "allowed"
                BY <1>1, <2>2, <2>9, <4>1 DEF CardMoves, Updating
            <4>. QED BY <1>1, <2>2, <2>4, <4>1, <4>2 DEF CardMoves
        <3>. QED BY <3>1, <3>2
    <2>10. ListStands(List(routes, settled), r)' /\ ListStands(disk, r)' /\ (saving => ListStands(prev, r))'
        BY <1>5, <2>7 DEF ListStands
    <2>. QED BY <2>3, <2>8, <2>9, <2>10 DEF AllowanceStands
<1>. QED BY <1>7, <1>8

-----------------------------------------------------------------------------
(* The session grants.                                                     *)

GivenBy(q, g) == Grant[q] = g /\ decision[q] = "allow_session" /\ answer[q] = "allow"

(* What gave a grant goes on to have given it.                             *)
LEMMA GivenStays ==
    ASSUME TypesAgree, QueueAgrees, Next, NEW q \in Requests, RequestAgrees(q), NEW g, GivenBy(q, g)
    PROVE  GivenBy(q, g)'
<1>1. CoordinatorMoves(q)
    BY OwnMoves
<1>2. q \notin pending /\ settle[q] = "off"
    BY DEF GivenBy, RequestAgrees
<1>3. ~Taken(q) /\ ~SettlementNotSaved(q)
    BY <1>2, TurnsAre DEF Taken
<1>. QED BY <1>1, <1>2, <1>3 DEF GivenBy, CoordinatorMoves

LEMMA GrantsKept ==
    ASSUME TypesAgree, QueueAgrees, \A q \in Requests : RequestAgrees(q), Next,
           GrantsAgree, GrantWasGiven
    PROVE  GrantsAgree' /\ GrantWasGiven'
<1>1. CoordinatorTypes
    BY TypesAre DEF TypesAgree
<1>2. \A q \in Requests : \A g : GivenBy(q, g) => GivenBy(q, g)'
    BY GivenStays
<1>3. ASSUME NEW r \in Requests, ApplyEnds(r), NEW g \in grants', g \notin grants
      PROVE  r \notin Restricted /\ GivenBy(r, g)'
    <2>1. settle[r] = "apply" /\ Finish(r) /\ decision' = decision
        BY <1>3 DEF ApplyEnds
    <2>2. decision[r] = "allow_session" /\ g = Grant[r] /\ r \notin Restricted
        BY <1>3, <2>1 DEF Finish, RequestAgrees
    <2>. QED BY <1>1, <2>1, <2>2 DEF Finish, GivenBy, Allows, CoordinatorTypes
<1>4. \/ grants' \subseteq grants
      \/ \E r \in Requests : ApplyEnds(r)
    <2>1. ASSUME NEW r \in Requests, PresenterStep(r)
          PROVE  grants' = grants
        BY <2>1 DEF PresenterStep, PostCard, PostFails, RememberRoute, RouteSaved, RouteNotSaved, Discard,
                    Discarded, RetractCard, Throws, coordinator
    <2>2. ASSUME NEW r \in Requests, SettleStep(r) PROVE grants' = grants
        BY <2>2 DEF SettleStep, RememberSettlement, SettlementSaved, SettlementNotSaved, coordinator
    <2>3. ASSUME NEW r \in Requests, ApplyStep(r) PROVE grants' = grants \/ ApplyEnds(r)
        BY <2>3 DEF ApplyStep, ApplyLooks, UpdateCard, UpdateFails, RemoveCard, CardRemoved, coordinator
    <2>4. ASSUME NEW r \in Requests,
                 \/ AuthorizeAtOnce(r) \/ OpenRequest(r) \/ CutOff(r) \/ AnswerSettled(r) \/ ClickOrphan(r)
                 \/ \E d \in Decisions : Answer(r, d)
          PROVE  grants' = grants
        BY <2>4 DEF AuthorizeAtOnce, OpenRequest, CutOff, AnswerSettled, ClickOrphan, Answer, coordinator
    <2>5. ASSUME Close \/ Restart PROVE grants' = {}
        BY <2>5 DEF Close, Restart
    <2>6. ASSUME RecoveryStep PROVE grants' = grants
        BY <2>6 DEF RecoveryStep, StartRecovery, CloseUnsettled, ClosedUnsettled, CloseUnsettledFails,
                    RecoverCard, coordinator
    <2>. QED BY <2>1, <2>2, <2>3, <2>4, <2>5, <2>6 DEF Next
<1>5. \A g \in grants : \E q \in Requests \ Restricted : GivenBy(q, g)
    BY DEF GrantsAgree, GivenBy
<1>6. \A g \in grants' : \E q \in Requests \ Restricted : GivenBy(q, g)'
    BY <1>2, <1>3, <1>4, <1>5
<1>7. GrantsAgree'
    BY <1>6 DEF GrantsAgree, GivenBy
<1>8. ASSUME NEW r \in Requests, caller'[r] = "allowed"
      PROVE  \E q \in Requests \ Restricted : GivenBy(q, Grant[r])'
    <2>1. caller[r] = "allowed" \/ AuthorizeAtOnce(r)
        <3>1. CASE Idle(r) \/ Taken(r) \/ Called(r)
            BY <1>8, <3>1 DEF Idle, Taken, Called
        <3>2. ASSUME ApplyEnds(r) \/ Throws(r) \/ Presented(r) PROVE caller[r] = "allowed"
            BY <1>1, <1>8, <3>2 DEF ApplyEnds, Throws, Presented, CoordinatorTypes
        <3>3. CASE \/ OpenRequest(r) \/ PostCard(r) \/ PostFails(r) \/ RouteSaved(r) \/ RouteNotSaved(r)
                   \/ Discarded(r) \/ RetractCard(r)
            BY <1>1, <1>8, <3>2, <3>3
               DEF OpenRequest, PostCard, PostFails, RouteSaved, RouteNotSaved, Discarded, RetractCard,
                   coordinator, CoordinatorTypes
        <3>4. CASE \/ SettlementSaved(r) \/ SettlementNotSaved(r) \/ ApplyLooks(r) \/ UpdateCard(r)
                   \/ UpdateFails(r) \/ CardRemoved(r) \/ ClickOrphan(r)
            BY <1>8, <3>2, <3>4
               DEF SettlementSaved, SettlementNotSaved, ApplyLooks, UpdateCard, UpdateFails, CardRemoved,
                   ClickOrphan, coordinator
        <3>5. CASE Restart
            BY <1>1, <1>8, <3>5 DEF Restart, CoordinatorTypes
        <3>. QED BY <3>1, <3>3, <3>4, <3>5, StepOfRequest DEF OwnStep
    <2>2. CASE caller[r] = "allowed"
        BY <1>2, <2>2 DEF GrantWasGiven, GivenBy
    <2>3. CASE AuthorizeAtOnce(r)
        <3>1. Grant[r] \in grants
            BY <1>1, <1>8, <2>3 DEF AuthorizeAtOnce, CoordinatorTypes
        <3>. QED BY <1>2, <1>5, <3>1
    <2>. QED BY <2>1, <2>2, <2>3
<1>9. GrantWasGiven'
    BY <1>8 DEF GrantWasGiven, GivenBy
<1>. QED BY <1>7, <1>9

-----------------------------------------------------------------------------
(* The invariant, and what follows from it.                                *)

LEMMA InitApprovals == Init => ApprovalIInv
<1> SUFFICES ASSUME Init PROVE ApprovalIInv
    OBVIOUS
<1>1. queue = <<>> /\ <<>> \in Seq(Actors) /\ Len(<<>>) = 0
    BY EmptySeq DEF Init
<1>2. NoCards.routes = {} /\ DOMAIN NoCards.settled = {} /\ IsList(NoCards)
    BY DEF NoCards, List, IsList
<1>3. CoordinatorTypes
    <2>1. closed \in BOOLEAN
        BY DEF Init
    <2>. QED BY <2>1 DEF Init, CoordinatorTypes, Decisions
<1>4. CardTypes
    BY RequestsAssumption DEF Init, CardTypes, Decisions
<1>5. TableTypes
    BY <1>2 DEF Init, TableTypes
<1>6. TypesAgree
    BY <1>1, <1>3, <1>4, <1>5, TypesAre
<1>7. QueueAgrees
    BY <1>1 DEF Init, QueueAgrees, Once, Has
<1>8. TablesAgree
    BY <1>2 DEF Init, TablesAgree, Writes, Updating
<1>9. ASSUME NEW r \in Requests
      PROVE  RequestAgrees(r) /\ SaysTrue(r) /\ AllowanceWaits(r) /\ AllowanceStands(r)
    <2>1. /\ caller[r] = "new" /\ r \notin pending /\ answer[r] = "none" /\ settle[r] = "off"
          /\ decision[r] = "deny" /\ present[r] = "off" /\ card[r] = "none" /\ r \notin text
          /\ apply[r] = "off" /\ saving = FALSE
          /\ routes = {} /\ DOMAIN settled = {} /\ disk.routes = {} /\ DOMAIN disk.settled = {}
        BY <1>2 DEF Init
    <2>2. RequestAgrees(r)
        BY <2>1 DEF RequestAgrees, Fresh, Updating
    <2>3. SaysTrue(r)
        BY <2>1 DEF SaysTrue, Says, Allowed, Updating
    <2>. QED BY <2>1, <2>2, <2>3 DEF AllowanceWaits, AllowanceStands, Undone
<1>10. GrantsAgree /\ GrantWasGiven
    BY DEF Init, GrantsAgree, GrantWasGiven
<1>. QED BY <1>6, <1>7, <1>8, <1>9, <1>10 DEF ApprovalIInv

LEMMA ApprovalsKept == ApprovalIInv /\ [Next]_vars => ApprovalIInv'
<1> SUFFICES ASSUME ApprovalIInv, [Next]_vars PROVE ApprovalIInv'
    OBVIOUS
<1>1. /\ TypesAgree /\ QueueAgrees /\ TablesAgree /\ GrantsAgree /\ GrantWasGiven
      /\ \A r \in Requests : RequestAgrees(r) /\ SaysTrue(r) /\ AllowanceWaits(r) /\ AllowanceStands(r)
    BY DEF ApprovalIInv
<1>2. CASE Next
    <2>1. TypesAgree' /\ QueueAgrees' /\ TablesAgree'
        BY <1>1, <1>2, TypesKept, QueueKept, TablesKept
    <2>2. \A r \in Requests : RequestAgrees(r)'
        BY <1>1, <1>2, RequestKept
    <2>3. \A r \in Requests : SaysTrue(r)' /\ AllowanceWaits(r)' /\ AllowanceStands(r)'
        BY <1>1, <1>2, SaysKept, WaitsKept, StandsKept
    <2>4. GrantsAgree' /\ GrantWasGiven'
        BY <1>1, <1>2, GrantsKept
    <2>. QED BY <2>1, <2>2, <2>3, <2>4 DEF ApprovalIInv
<1>3. CASE UNCHANGED vars
    <2>1. /\ UNCHANGED <<caller, pending, answer, grants, closed, settle, decision, present, card, text>>
          /\ UNCHANGED <<routes, settled, disk, queue, saving, prev, apply, applied>>
          /\ UNCHANGED <<recovery, toApply, recovering, failures, restarts>>
        BY <1>3 DEF vars, coordinator, cards, mutations, applying, recover, bounds
    <2>2. TypesAgree'
        BY <1>1, <2>1 DEF TypesAgree, TypeOK
    <2>3. QueueAgrees'
        BY <1>1, <2>1 DEF QueueAgrees, Waited
    <2>4. TablesAgree' /\ GrantsAgree' /\ GrantWasGiven'
        BY <1>1, <2>1 DEF TablesAgree, Writes, Updating, GrantsAgree, GrantWasGiven
    <2>5. \A r \in Requests : RequestAgrees(r)' /\ SaysTrue(r)'
        BY <1>1, <2>1 DEF RequestAgrees, Fresh, SaysTrue, Says, Writes, Updating
    <2>6. \A r \in Requests : AllowanceWaits(r)' /\ AllowanceStands(r)'
        BY <1>1, <2>1 DEF AllowanceWaits, AllowanceStands, Undone, Writes, Updating, ListStands
    <2>. QED BY <2>2, <2>3, <2>4, <2>5, <2>6 DEF ApprovalIInv
<1>. QED BY <1>2, <1>3

LEMMA ApprovalsAgree == SafetySpec => []ApprovalIInv
BY InitApprovals, ApprovalsKept, PTL DEF SafetySpec

(* The states of the model are what TypeOK says: in particular the stages  *)
(* of authorize, of the presenter and of the settlement never mix up.      *)
THEOREM ApprovalTypes == SafetySpec => []TypeOK
<1>1. ApprovalIInv => TypeOK
    BY DEF ApprovalIInv, TypesAgree
<1>. QED BY <1>1, ApprovalsAgree, PTL

(* An operation goes to work on an answer to its own request only when the *)
(* allowance is final: the card tells it, or state.json does.  It holds    *)
(* for any number of requests, failed saves, failed Slack calls and ends   *)
(* of the process.                                                         *)
THEOREM AllowedStaysFinal == SafetySpec => []AllowedIsFinal
<1>1. ASSUME ApprovalIInv, NEW r \in Requests, caller[r] = "presented", answer[r] = "allow"
      PROVE  Final(r)
    <2>1. RequestAgrees(r) /\ AllowanceStands(r)
        BY <1>1 DEF ApprovalIInv
    <2>2. Undone(r)
        BY <1>1, <2>1 DEF RequestAgrees, Undone
    <2>3. ListStands(disk, r)
        BY <1>1, <2>1, <2>2 DEF AllowanceStands
    <2>. QED BY <2>3 DEF ListStands, Allowed, Final
<1>2. ApprovalIInv => AllowedIsFinal
    BY <1>1 DEF AllowedIsFinal
<1>. QED BY <1>2, ApprovalsAgree, PTL

(* A card that tells an approver "allowed" belongs to a request that was   *)
(* not denied, before or after, in this process or a later one.            *)
THEOREM CardsTellTheTruth == SafetySpec => []AllowedCardIsTrue
<1>1. ApprovalIInv => AllowedCardIsTrue
    BY DEF ApprovalIInv, AllowedCardIsTrue, SaysTrue, Says
<1>. QED BY <1>1, ApprovalsAgree, PTL

(* Who goes to work without asking holds a session grant that an answered  *)
(* request of the same scope gave, which was free to give one.             *)
THEOREM GrantsWereGiven == SafetySpec => []GrantWasGiven
<1>1. ApprovalIInv => GrantWasGiven
    BY DEF ApprovalIInv
<1>. QED BY <1>1, ApprovalsAgree, PTL
=============================================================================

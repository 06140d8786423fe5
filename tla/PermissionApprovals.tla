------------------------ MODULE PermissionApprovals ------------------------
(***************************************************************************)
(* Human approval of an operation: PermissionApprovalCoordinator           *)
(* (permissions/approval-coordinator) with the Slack side it calls,        *)
(* presentPermissionApproval and settlePermissionApproval                  *)
(* (slack/frontend) over the durable cards of                              *)
(* PermissionApprovalCardTracker (slack/permission-card-tracker).          *)
(*                                                                         *)
(* An authorize call under policy "approval" registers a single-use        *)
(* pending request, posts a card with buttons and waits.  Whoever comes    *)
(* first settles it: a click, the timer, the caller's abort, close().  The *)
(* settlement is saved and the card updated before the caller is told.     *)
(* Meanwhile the card's own post and the save of its route may be under    *)
(* way, saves and Slack calls may fail, and the process may end; the next  *)
(* one closes the cards it finds.                                          *)
(*                                                                         *)
(* The policies allow and deny return at once and are left out, as are     *)
(* the validation of the Slack coordinates and of the clicking user.       *)
(***************************************************************************)
EXTENDS Naturals, FiniteSets, Sequences, SequencesExt

CONSTANTS
    Requests,           \* calls of authorize under policy "approval"
    Grant,              \* grantKey of each request
    Restricted,         \* requests with allowSessionGrant = false
    MaxFailures,        \* bound: failed saves and Slack calls
    MaxRestarts,        \* bound: ends of the process followed by a new one
    None                \* no request

ASSUME RequestsAssumption ==
    /\ IsFiniteSet(Requests) /\ Restricted \subseteq Requests
    /\ DOMAIN Grant = Requests
    /\ None \notin Requests
    /\ MaxFailures \in Nat /\ MaxRestarts \in Nat

VARIABLES
    caller,             \* the authorize call
    pending,            \* #pending of the coordinator
    answer,             \* what the request's promise resolved to
    grants, closed,     \* #sessionGrants, #closed
    settle, decision,   \* the #settle that took the request, and its reason
    present,            \* presentPermissionApproval
    card,               \* what Slack shows
    text,               \* requests a reply can answer: the ApprovalTextStore
    routes, settled,    \* #routes and #settlements of the card tracker
    queue,              \* #mutationQueue: the mutations and those who wait for them
    saving, prev,       \* whether its head waits for its save; list() before it
    disk,               \* permissionApprovalCards in state.json
    apply,              \* #applyTasks
    applied,            \* the settlement each of them puts on the card
    recovery,           \* #recoverPermissionApprovalCards
    toApply, recovering,\* the cards it has left, the card it is at
    failures, restarts

coordinator == <<caller, pending, answer, grants, closed, settle, decision>>
cards == <<routes, settled, disk>>
mutations == <<queue, saving, prev>>
applying == <<apply, applied>>
recover == <<recovery, toApply, recovering>>
bounds == <<failures, restarts>>
vars == <<coordinator, present, card, text, cards, mutations, applying, recover, bounds>>

-----------------------------------------------------------------------------

(* The reasons deny, cancel, expired, caller_cancelled and                 *)
(* coordinator_closed all refuse.                                          *)
Decisions == {"allow_once", "allow_session", "deny"}
Allows == {"allow_once", "allow_session"}

Actor(a, r) == [by |-> a, of |-> r]
Actors == [by : {"route", "discard", "settlement", "look", "removal"}, of : Requests]
          \cup {Actor("recovery", None)}

TypeOK ==
    /\ caller \in [Requests -> {"new", "presenting", "presented", "allowed", "denied", "threw"}]
    /\ pending \subseteq Requests
    /\ answer \in [Requests -> {"none", "allow", "deny"}]
    /\ grants \subseteq {Grant[r] : r \in Requests} /\ closed \in BOOLEAN
    /\ settle \in [Requests -> {"off", "save", "apply"}]
    /\ decision \in [Requests -> Decisions]
    /\ present \in [Requests -> {"off", "post", "route", "apply", "discard", "give_up", "retract"}]
    /\ card \in [Requests -> {"none", "buttons", "allowed", "refused", "inactive"}]
    /\ text \subseteq Requests /\ routes \subseteq Requests
    /\ DOMAIN settled \subseteq Requests /\ \A r \in DOMAIN settled : settled[r] \in Decisions
    /\ \A i \in 1 .. Len(queue) : queue[i] \in Actors
    /\ saving \in BOOLEAN
    /\ apply \in [Requests -> {"off", "look", "update", "remove"}]
    /\ applied \in [Requests -> Decisions]
    /\ recovery \in {"start", "close", "apply", "failed"}
    /\ toApply \subseteq Requests /\ recovering \in Requests \cup {None}
    /\ failures \in 0 .. MaxFailures /\ restarts \in 0 .. MaxRestarts

(* list(): a settlement without a route is not part of it.                 *)
List(rt, st) == [routes |-> rt, settled |-> [r \in DOMAIN st \cap rt |-> st[r]]]
NoCards == List({}, [r \in {} |-> "deny"])

Init ==
    /\ caller = [r \in Requests |-> "new"]
    /\ pending = {}
    /\ answer = [r \in Requests |-> "none"]
    /\ grants = {} /\ closed = FALSE
    /\ settle = [r \in Requests |-> "off"]
    /\ decision = [r \in Requests |-> "deny"]
    /\ present = [r \in Requests |-> "off"]
    /\ card = [r \in Requests |-> "none"] /\ text = {}
    /\ routes = NoCards.routes /\ settled = NoCards.settled /\ disk = NoCards
    /\ queue = <<>> /\ saving = FALSE /\ prev = NoCards
    /\ apply = [r \in Requests |-> "off"]
    /\ applied = [r \in Requests |-> "deny"]
    /\ recovery = "start" /\ toApply = {} /\ recovering = None
    /\ failures = 0 /\ restarts = 0

-----------------------------------------------------------------------------
(* The tracker's #mutate.  Mutations run one at a time in the order of     *)
(* their calls; each changes the tables, saves list(), and on a failed     *)
(* save puts the earlier list() back, losing with it whatever list() does  *)
(* not hold.  What its caller queues when it goes on is `more`.            *)

IsNext(a) == ~saving /\ queue # <<>> /\ Head(queue) = a
IsSaving(a) == saving /\ Head(queue) = a

Change(a, rt, st) ==
    /\ IsNext(a)
    /\ prev' = List(routes, settled) /\ saving' = TRUE
    /\ routes' = rt /\ settled' = st
    /\ UNCHANGED <<queue, disk>>

Saved(a, more) ==
    /\ IsSaving(a)
    /\ disk' = List(routes, settled)
    /\ saving' = FALSE /\ prev' = NoCards /\ queue' = Tail(queue) \o more
    /\ UNCHANGED <<routes, settled, failures>>

Fails == failures < MaxFailures /\ failures' = failures + 1

(* A failed save that leaves the tables as they are (no code).             *)
NotSavedKept(a, more) ==
    /\ IsSaving(a) /\ Fails
    /\ saving' = FALSE /\ prev' = NoCards /\ queue' = Tail(queue) \o more
    /\ UNCHANGED cards

NotSaved(a, more) ==
    /\ IsSaving(a) /\ Fails
    /\ routes' = prev.routes /\ settled' = prev.settled
    /\ saving' = FALSE /\ prev' = NoCards /\ queue' = Tail(queue) \o more
    /\ UNCHANGED disk

(* A turn in the queue that changes nothing.                               *)
Passes(a, more) ==
    /\ IsNext(a)
    /\ queue' = Tail(queue) \o more
    /\ UNCHANGED <<cards, saving, prev, failures>>

Enqueue(more) == queue' = queue \o more /\ UNCHANGED <<saving, prev>>

WithDecision(st, r, d) == [q \in DOMAIN st \cup {r} |-> IF q = r THEN d ELSE st[q]]
WithoutDecision(st, r) == [q \in DOMAIN st \ {r} |-> st[q]]

-----------------------------------------------------------------------------
(* PermissionApprovalCardTracker's apply: one task per card, which         *)
(* everybody who calls meanwhile joins.  The task waits for the mutations  *)
(* queued before it, updates the card, and takes it off the tables.        *)

Look(r) == IF apply[r] = "off" THEN <<Actor("look", r)>> ELSE <<>>
CallApply(r) == apply' = [apply EXCEPT ![r] = IF @ = "off" THEN "look" ELSE @]

(* beforeResolve, and the promise.                                         *)
Finish(r) ==
    /\ answer' = [answer EXCEPT ![r] = IF decision[r] \in Allows THEN "allow" ELSE "deny"]
    /\ grants' = IF decision[r] = "allow_session" THEN grants \cup {Grant[r]} ELSE grants

(* The task of r ends, well or not, and those who awaited it go on: the    *)
(* #settle of r, its presenter, recovery.                                  *)
ApplyEnds(r) ==
    /\ apply' = [apply EXCEPT ![r] = "off"]
    /\ settle' = [settle EXCEPT ![r] = IF @ = "apply" THEN "off" ELSE @]
    /\ IF settle[r] = "apply" THEN Finish(r) ELSE UNCHANGED <<answer, grants>>
    /\ present' = [present EXCEPT ![r] = IF @ = "apply" THEN "off" ELSE @]
    /\ caller' = [caller EXCEPT ![r] = IF present[r] = "apply" THEN "presented" ELSE @]
    /\ recovering' = IF recovering = r THEN None ELSE recovering
    /\ UNCHANGED <<pending, closed, decision, applied, recovery, toApply>>

(* Without a route or a settlement there is nothing to apply.              *)
CanApply(r) == r \in routes /\ r \in DOMAIN settled
ApplyLooks(r) ==
    /\ Passes(Actor("look", r), <<>>)
    /\ IF CanApply(r)
       THEN /\ apply' = [apply EXCEPT ![r] = "update"]
            /\ applied' = [applied EXCEPT ![r] = settled[r]]
            /\ text' = text \ {r}
            /\ UNCHANGED <<coordinator, present, recover>>
       ELSE ApplyEnds(r) /\ UNCHANGED text
    /\ UNCHANGED <<card, restarts>>

Shown(d) == IF d \in Allows THEN "allowed" ELSE "refused"

UpdateCard(r) ==
    /\ apply[r] = "update"
    /\ card' = [card EXCEPT ![r] = Shown(applied[r])]
    /\ apply' = [apply EXCEPT ![r] = "remove"]
    /\ Enqueue(<<Actor("removal", r)>>)
    /\ UNCHANGED <<coordinator, present, text, cards, applied, recover, bounds>>

(* A call to Slack that fails may have reached it.                         *)
UpdateFails(r) ==
    /\ apply[r] = "update" /\ Fails
    /\ \/ card' = [card EXCEPT ![r] = Shown(applied[r])]
       \/ UNCHANGED card
    /\ ApplyEnds(r)
    /\ UNCHANGED <<text, cards, mutations, restarts>>

(* The card leaves the tables if it is still what was applied.             *)
StillApplied(r) == CanApply(r) /\ settled[r] = applied[r]
RemoveCard(r) ==
    /\ StillApplied(r)
    /\ Change(Actor("removal", r), routes \ {r}, WithoutDecision(settled, r))
    /\ UNCHANGED <<coordinator, present, card, text, applying, recover, bounds>>

CardRemoved(r) ==
    /\ \/ Saved(Actor("removal", r), <<>>)
       \/ NotSaved(Actor("removal", r), <<>>)
       \/ ~StillApplied(r) /\ Passes(Actor("removal", r), <<>>)
    /\ ApplyEnds(r)
    /\ UNCHANGED <<card, text, restarts>>

-----------------------------------------------------------------------------
(* authorize: the early answers, and a request that must be asked.         *)

AuthorizeAtOnce(r) ==
    /\ caller[r] = "new"
    /\ \/ closed /\ caller' = [caller EXCEPT ![r] = "denied"]
       \/ /\ ~closed /\ r \notin Restricted /\ Grant[r] \in grants
          /\ caller' = [caller EXCEPT ![r] = "allowed"]
    /\ UNCHANGED <<pending, answer, grants, closed, settle, decision, present, card, text, cards,
                   mutations, applying, recover, bounds>>

(* Between the call and its return: the presenter has returned, and the    *)
(* promise is resolved.                                                    *)
Waits(r) == caller[r] = "presenting" \/ (caller[r] = "presented" /\ answer[r] = "none")

OpenRequest(r) ==
    /\ caller[r] = "new" /\ ~closed
    /\ r \in Restricted \/ Grant[r] \notin grants
    /\ pending' = pending \cup {r}
    /\ caller' = [caller EXCEPT ![r] = "presenting"]
    /\ present' = [present EXCEPT ![r] = "post"]
    /\ UNCHANGED <<answer, grants, closed, settle, decision, card, text, cards, mutations,
                   applying, recover, bounds>>

-----------------------------------------------------------------------------
(* presentPermissionApproval: post, rememberRoute, and a settlement that   *)
(* came before the route was known.                                        *)

Present(r, pc) == present' = [present EXCEPT ![r] = pc]

PostCard(r) ==
    /\ present[r] = "post"
    /\ card' = [card EXCEPT ![r] = "buttons"]
    /\ Present(r, "route") /\ Enqueue(<<Actor("route", r)>>)
    /\ UNCHANGED <<coordinator, text, cards, applying, recover, bounds>>

PostFails(r) ==
    /\ present[r] = "post" /\ Fails
    /\ \/ card' = [card EXCEPT ![r] = "buttons"]
       \/ UNCHANGED card
    /\ Present(r, "give_up") /\ Enqueue(<<Actor("discard", r)>>)
    /\ UNCHANGED <<coordinator, text, cards, applying, recover, restarts>>

RememberRoute(r) ==
    /\ Change(Actor("route", r), routes \cup {r}, settled)
    /\ UNCHANGED <<coordinator, present, card, text, applying, recover, bounds>>

(* Nobody waits for the request yet but its caller.                        *)
Presented(r) ==
    /\ Present(r, "off") /\ caller' = [caller EXCEPT ![r] = "presented"]
    /\ text' = text \cup {r}
    /\ UNCHANGED apply

(* The next mutation has started when the presenter looks.                 *)
SettledEarly(r) ==
    \/ r \in DOMAIN settled
    \/ Len(queue) > 1 /\ queue[2] \in {Actor("settlement", r), Actor("recovery", None)}
RouteSaved(r) ==
    /\ \/ /\ SettledEarly(r)
          /\ Saved(Actor("route", r), Look(r))
          /\ Present(r, "apply") /\ CallApply(r)
          /\ UNCHANGED <<caller, text>>
       \/ /\ ~SettledEarly(r)
          /\ Saved(Actor("route", r), <<>>)
          /\ Presented(r)
    /\ UNCHANGED <<pending, answer, grants, closed, settle, decision, card, applied, recover,
                   restarts>>

RouteNotSaved(r) ==
    /\ NotSaved(Actor("route", r), <<Actor("discard", r)>>)
    /\ Present(r, "discard")
    /\ UNCHANGED <<coordinator, card, text, applying, recover, restarts>>

(* The coordinator's catch clause denies silently and rethrows.  An        *)
(* aborted caller gets the result instead, and discards it.                *)
Throws(r) ==
    /\ Present(r, "off")
    /\ caller' = [caller EXCEPT ![r] = "threw"]
    /\ pending' = pending \ {r}
    /\ answer' = [answer EXCEPT ![r] = IF r \in pending THEN "deny" ELSE @]
    /\ UNCHANGED <<grants, closed, settle, decision>>

(* The presenter's catch clause: discardUnroutedSettlement, whose failure  *)
(* is swallowed; then a posted card is marked cancelled, if Slack agrees.  *)
MustDiscard(r) == r \notin routes /\ r \in DOMAIN settled
Discard(r) ==
    /\ MustDiscard(r)
    /\ Change(Actor("discard", r), routes, WithoutDecision(settled, r))
    /\ UNCHANGED <<coordinator, present, card, text, applying, recover, bounds>>

Discarded(r) ==
    /\ \/ Saved(Actor("discard", r), <<>>)
       \/ NotSaved(Actor("discard", r), <<>>)
       \/ ~MustDiscard(r) /\ Passes(Actor("discard", r), <<>>)
    /\ IF present[r] = "give_up" THEN Throws(r) ELSE Present(r, "retract") /\ UNCHANGED coordinator
    /\ UNCHANGED <<card, text, applying, recover, restarts>>

RetractCard(r) ==
    /\ present[r] = "retract"
    /\ \/ card' = [card EXCEPT ![r] = "refused"] /\ UNCHANGED failures
       \/ Fails /\ UNCHANGED card
    /\ Throws(r)
    /\ UNCHANGED <<text, cards, mutations, applying, recover, restarts>>

-----------------------------------------------------------------------------
(* resolve, the timer, the abort listener, close: #settle takes a request  *)
(* off the pending table and queues its settlement in the same turn of the *)
(* event loop.                                                             *)

Settlement(r) == Actor("settlement", r)
Take(S, d) ==
    /\ pending' = pending \ S /\ text' = text \ S
    /\ settle' = [r \in Requests |-> IF r \in S THEN "save" ELSE settle[r]]
    /\ decision' = [r \in Requests |-> IF r \in S THEN d ELSE decision[r]]

(* An approver answers: with a button of the card, whose route must be     *)
(* known, or with a reply.                                                 *)
MayAnswer(r, d) ==
    /\ r \in pending /\ r \notin DOMAIN settled
    /\ \/ r \in routes /\ card[r] = "buttons" /\ (d = "allow_session" => r \notin Restricted)
       \/ r \in text /\ d # "allow_session"

(* A grant that does not wait for the settlement (no code).                *)
AnswerGrantsAtOnce(r, d) ==
    /\ MayAnswer(r, d)
    /\ Take({r}, d) /\ Enqueue(<<Settlement(r)>>)
    /\ grants' = IF d = "allow_session" THEN grants \cup {Grant[r]} ELSE grants
    /\ UNCHANGED <<caller, answer, closed, present, card, cards, applying, recover, bounds>>

Answer(r, d) ==
    /\ MayAnswer(r, d)
    /\ Take({r}, d) /\ Enqueue(<<Settlement(r)>>)
    /\ UNCHANGED <<caller, answer, grants, closed, present, card, cards, applying, recover, bounds>>

(* An answer to a settled card updates the card again.                     *)
AnswerSettled(r) ==
    /\ r \in DOMAIN settled
    /\ (r \in routes /\ card[r] = "buttons") \/ r \in text
    /\ apply[r] = "off" /\ CallApply(r) /\ Enqueue(Look(r))
    /\ UNCHANGED <<coordinator, present, card, text, cards, applied, recover, bounds>>

(* A card nobody knows is marked as no longer active.                      *)
ClickOrphan(r) ==
    /\ card[r] = "buttons" /\ r \notin routes
    /\ card' = [card EXCEPT ![r] = "inactive"]
    /\ UNCHANGED <<coordinator, present, text, cards, mutations, applying, recover, bounds>>

(* The timer, a click that comes too late, or the caller's abort.          *)
CutOff(r) ==
    /\ r \in pending
    /\ Take({r}, "deny") /\ Enqueue(<<Settlement(r)>>)
    /\ UNCHANGED <<caller, answer, grants, closed, present, card, cards, applying, recover, bounds>>

Close ==
    /\ ~closed
    /\ closed' = TRUE /\ grants' = {}
    /\ Take(pending, "deny")
    /\ \E s \in SetToSeqs(pending) : Enqueue([i \in DOMAIN s |-> Settlement(s[i])])
    /\ UNCHANGED <<caller, answer, present, card, cards, applying, recover, bounds>>

(* settlePermissionApproval: rememberSettlement, then the card.            *)
RememberSettlement(r) ==
    /\ Change(Settlement(r), routes, WithDecision(settled, r, decision[r]))
    /\ UNCHANGED <<coordinator, present, card, text, applying, recover, bounds>>

SettlementSaved(r) ==
    /\ Saved(Settlement(r), Look(r))
    /\ settle' = [settle EXCEPT ![r] = "apply"] /\ CallApply(r)
    /\ UNCHANGED <<caller, pending, answer, grants, closed, decision, present, card, text,
                   applied, recover, restarts>>

(* A settlement that goes on although it was not saved (no code).          *)
SettlementUnsaved(r) ==
    /\ NotSaved(Settlement(r), Look(r))
    /\ settle' = [settle EXCEPT ![r] = "apply"] /\ CallApply(r)
    /\ UNCHANGED <<caller, pending, answer, grants, closed, decision, present, card, text,
                   applied, recover, restarts>>

(* A failed settlement that answers nobody (no code).                      *)
SettlementForgotten(r) ==
    /\ NotSaved(Settlement(r), <<>>)
    /\ settle' = [settle EXCEPT ![r] = "off"]
    /\ UNCHANGED <<caller, pending, answer, grants, closed, decision, present, card, text, applying,
                   recover, restarts>>

(* What cannot be finalized does not authorize.                            *)
SettlementNotSaved(r) ==
    /\ NotSaved(Settlement(r), <<>>)
    /\ settle' = [settle EXCEPT ![r] = "off"]
    /\ answer' = [answer EXCEPT ![r] = "deny"]
    /\ UNCHANGED <<caller, pending, grants, closed, decision, present, card, text, applying,
                   recover, restarts>>

-----------------------------------------------------------------------------
(* The process: its end, and #recoverPermissionApprovalCards, which        *)
(* start() calls once Slack is connected.  Requests may be opened before:  *)
(* attach resumes queued delegations.                                      *)

Restart ==
    /\ restarts < MaxRestarts /\ restarts' = restarts + 1
    /\ caller' = [r \in Requests |-> IF Waits(r) THEN "threw" ELSE caller[r]]
    /\ pending' = {} /\ grants' = {} /\ closed' = FALSE
    /\ settle' = [r \in Requests |-> "off"]
    /\ present' = [r \in Requests |-> "off"] /\ text' = {}
    /\ routes' = disk.routes /\ settled' = disk.settled
    /\ queue' = <<>> /\ saving' = FALSE /\ prev' = NoCards
    /\ apply' = [r \in Requests |-> "off"]
    /\ recovery' = "start" /\ toApply' = {} /\ recovering' = None
    /\ UNCHANGED <<answer, decision, card, disk, applied, failures>>

StartRecovery ==
    /\ recovery = "start" /\ recovery' = "close"
    /\ Enqueue(<<Actor("recovery", None)>>)
    /\ UNCHANGED <<coordinator, present, card, text, cards, applying, toApply, recovering, bounds>>

(* closeUnsettled.                                                         *)
CloseUnsettled ==
    /\ routes \ DOMAIN settled # {}
    /\ Change(Actor("recovery", None), routes,
              [r \in routes \cup DOMAIN settled |->
                  IF r \in DOMAIN settled THEN settled[r] ELSE "deny"])
    /\ UNCHANGED <<coordinator, present, card, text, applying, recover, bounds>>

ClosedUnsettled ==
    /\ \/ Saved(Actor("recovery", None), <<>>)
       \/ routes \subseteq DOMAIN settled /\ Passes(Actor("recovery", None), <<>>)
    /\ recovery' = "apply" /\ toApply' = routes
    /\ UNCHANGED <<coordinator, present, card, text, applying, recovering, restarts>>

(* The start of the process fails with it.                                 *)
CloseUnsettledFails ==
    /\ NotSaved(Actor("recovery", None), <<>>)
    /\ recovery' = "failed"
    /\ UNCHANGED <<coordinator, present, card, text, applying, toApply, recovering, restarts>>

RecoverCard(r) ==
    /\ recovery = "apply" /\ r \in toApply /\ recovering = None
    /\ toApply' = toApply \ {r} /\ recovering' = r
    /\ CallApply(r) /\ Enqueue(Look(r))
    /\ UNCHANGED <<coordinator, present, card, text, cards, applied, recovery, bounds>>

-----------------------------------------------------------------------------

PresenterStep(r) ==
    \/ PostCard(r) \/ PostFails(r) \/ RememberRoute(r) \/ RouteSaved(r) \/ RouteNotSaved(r)
    \/ Discard(r) \/ Discarded(r) \/ RetractCard(r)
SettleStep(r) == RememberSettlement(r) \/ SettlementSaved(r) \/ SettlementNotSaved(r)
ApplyStep(r) ==
    \/ ApplyLooks(r) \/ UpdateCard(r) \/ UpdateFails(r) \/ RemoveCard(r) \/ CardRemoved(r)
RecoveryStep ==
    \/ StartRecovery \/ CloseUnsettled \/ ClosedUnsettled \/ CloseUnsettledFails
    \/ \E r \in Requests : RecoverCard(r)

Next ==
    \/ \E r \in Requests :
        \/ AuthorizeAtOnce(r) \/ OpenRequest(r)
        \/ PresenterStep(r) \/ SettleStep(r) \/ ApplyStep(r)
        \/ \E d \in Decisions : Answer(r, d)
        \/ CutOff(r) \/ AnswerSettled(r) \/ ClickOrphan(r)
    \/ Close \/ Restart \/ RecoveryStep

(* Timers fire, and saves and Slack calls end one way or the other.        *)
RequestFairness ==
    \A r \in Requests :
        /\ WF_vars(PresenterStep(r)) /\ WF_vars(SettleStep(r)) /\ WF_vars(ApplyStep(r))
        /\ WF_vars(CutOff(r))
Fairness == RequestFairness /\ WF_vars(RecoveryStep)

SafetySpec == Init /\ [][Next]_vars
Spec == SafetySpec /\ Fairness

-----------------------------------------------------------------------------
(* Correctness.                                                            *)

(* "A visible approval must not authorize work until its terminal state is *)
(* durably finalized": the card says allowed, or the next process finds    *)
(* it in state.json with a settlement that allows.                         *)
Final(r) ==
    \/ card[r] = "allowed"
    \/ r \in DOMAIN disk.settled /\ disk.settled[r] \in Allows

(* So it is for whoever goes to work on the answer to his own request,     *)
(* whatever saves and Slack calls failed, whoever else touched the card,   *)
(* and whichever settlement reached it first.                              *)
AllowedIsFinal ==
    \A r \in Requests : caller[r] = "presented" /\ answer[r] = "allow" => Final(r)

(* And a card never tells an approver that work was allowed which was      *)
(* denied in the end.                                                      *)
AllowedCardIsTrue == \A r \in Requests : card[r] = "allowed" => answer[r] # "deny"

(* Whoever goes to work without asking holds a session grant that the      *)
(* answer to an earlier request of the same scope gave, and only once the  *)
(* caller of that request could go to work itself.                         *)
GrantWasGiven ==
    \A r \in Requests : caller[r] = "allowed" =>
        \E q \in Requests \ Restricted :
            Grant[q] = Grant[r] /\ decision[q] = "allow_session" /\ answer[q] = "allow"

(* The comment read for session grants: the card that gave one is final.   *)
(* The code breaks it when a click overtakes the save of the card's route, *)
(* which then fails.                                                       *)
GrantIsFinal ==
    \A r \in Requests : caller[r] = "allowed" =>
        \E q \in Requests \ Restricted :
            Grant[q] = Grant[r] /\ decision[q] = "allow_session" /\ Final(q)

(* Every authorize call returns, whatever fails: the request expires, and  *)
(* a settlement waits for nobody who waits for it.                         *)
EveryCallReturns ==
    \A r \in Requests : Waits(r) ~> ~Waits(r)

=============================================================================

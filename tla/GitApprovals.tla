---------------------------- MODULE GitApprovals ----------------------------
(***************************************************************************)
(* The approval of exact Git plans in one turn of a Koe: the plans that    *)
(* the turn has prepared, the questions of the app-server that are bound   *)
(* to them, the cards in Slack, the private store that a click writes      *)
(* first, and the execution of the approved plan with its one              *)
(* continuation.  adapters/codex/adapter.ts with its lifecycle object      *)
(* (workspace-git-approval-lifecycle.ts) is one side, slack/projector.ts   *)
(* and slack/frontend.ts with the details store the other.                 *)
(*                                                                         *)
(* As runtime.ts composes it: with a broker for human decisions, without   *)
(* a recorder of system rejections and without automation.  A text reply   *)
(* is a click: it takes the same way from #applyGitApproval on.            *)
(***************************************************************************)
EXTENDS Naturals, Sequences, FiniteSets

CONSTANTS
    Asks,       \* questions of the app-server that ask for a Git approval
    Plans,      \* exact plans, each of one operation
    Clicks,     \* clicks on approve or reject, each handled once
    NoPlan

VARIABLES
    gitTurn,        \* "running", "completing", "starting", "over"
    lifecycle,      \* WorkspaceGitApprovalLifecycle
    input,          \* what the adapter keeps of a question, and its plan
    gitTold,        \* what the app-server was answered
    elsewhere,      \* questions the app-server has called resolved
    unbound,        \* #externallyResolvedUserInputBindings has one of the turn
    resolvedInputs, \* #externallyResolvedGitUserInputs
    gitLate,        \* questions whose deadline has passed
    private,        \* workspace-git's store: the decision on a plan, and its question
    gitEvents,      \* the AsyncEventQueue of the turn
    gitProjecting,  \* what the projector awaits
    gitCard,        \* what the card of a question shows
    details,        \* WorkspaceGitApprovalDetailsStore: the entries
    tombstones,     \* ... and #terminalRequestIds
    tails,          \* ... and #actionTails, the one served first
    click,          \* click -> what its handler awaits
    continuations   \* history: continuation turns started for a plan

gitAdapter == <<gitTurn, lifecycle, input, gitTold, elsewhere, unbound, resolvedInputs, continuations>>
gitSlack == <<gitProjecting, gitCard, details, tombstones>>
gitVars == <<gitAdapter, gitLate, private, gitEvents, gitSlack, tails, click>>

Projector == "projector"    \* its place among the actions on a card
NoAsk == "none"

GitTypeOK ==
    /\ gitTurn \in {"running", "completing", "starting", "over"}
    /\ lifecycle \in [captured : SUBSET Plans, invalid : BOOLEAN, watch : Plans \cup {NoPlan},
                      outcome : {"none", "started", "completed", "failed", "failedForGood"},
                      status : BOOLEAN, continued : BOOLEAN, completed : SUBSET Plans]
    /\ input \in [Asks -> [at : {"none", "waiting", "pending", "gone"}, plan : Plans \cup {NoPlan}]]
    /\ gitTold \in [Asks -> {"nothing", "approve", "reject", "error", "unsure"}]
    /\ {elsewhere, resolvedInputs, gitLate, details, tombstones} \subseteq SUBSET Asks
    /\ unbound \in BOOLEAN
    /\ private \in [Plans -> [decision : {"none", "approve", "reject"}, ask : Asks \cup {NoAsk}]]
    /\ \A i \in DOMAIN gitEvents :
          gitEvents[i] \in [type : {"requested", "expired", "resolvedExternally"}, ask : Asks]
    /\ gitProjecting \in [at : {"idle", "post", "posted", "reject", "queued"},
                          type : {"requested", "expired", "resolvedExternally"}, ask : Asks \cup {NoAsk}]
    /\ gitCard \in [Asks -> {"absent", "buttons", "answered", "expired", "unavailable", "failed"}]
    /\ \A a \in Asks : tails[a] \in Seq(Clicks \cup {Projector})
    /\ click \in [Clicks -> [at : {"idle", "queued", "recording", "lost", "recorded", "closing", "draining",
                                   "answered", "failed", "done"},
                             ask : Asks \cup {NoAsk}, decision : {"approve", "reject"}, closes : BOOLEAN]]
    /\ continuations \in [Plans -> 0..2]

GitResting == [at |-> "idle", type |-> "requested", ask |-> NoAsk]
NoLifecycle == [captured |-> {}, invalid |-> FALSE, watch |-> NoPlan, outcome |-> "none",
                status |-> FALSE, continued |-> FALSE, completed |-> {}]

GitInit ==
    /\ gitTurn = "running" /\ lifecycle = NoLifecycle
    /\ input = [a \in Asks |-> [at |-> "none", plan |-> NoPlan]]
    /\ gitTold = [a \in Asks |-> "nothing"]
    /\ elsewhere = {} /\ unbound = FALSE /\ resolvedInputs = {} /\ gitLate = {}
    /\ private = [p \in Plans |-> [decision |-> "none", ask |-> NoAsk]]
    /\ gitEvents = <<>> /\ gitProjecting = GitResting
    /\ gitCard = [a \in Asks |-> "absent"] /\ details = {} /\ tombstones = {}
    /\ tails = [a \in Asks |-> <<>>]
    /\ click = [h \in Clicks |-> [at |-> "idle", ask |-> NoAsk, decision |-> "reject", closes |-> FALSE]]
    /\ continuations = [p \in Plans |-> 0]

-----------------------------------------------------------------------------
(* The lifecycle of the turn's plans.                                      *)

executionSettled == lifecycle.outcome \in {"completed", "failedForGood"}

(* approvedPlan: the plan whose execution is approved and not settled.     *)
approvedPlan == IF executionSettled THEN NoPlan ELSE lifecycle.watch

isCompletedOperation(p) ==
    p \in lifecycle.completed \/ (p = lifecycle.watch /\ executionSettled)

(* beginApprovedExecution puts a settled execution aside.                  *)
BegunExecution(p) ==
    [lifecycle EXCEPT !.watch = p, !.outcome = "none", !.status = FALSE, !.continued = FALSE,
                      !.completed = IF executionSettled THEN @ \cup {lifecycle.watch} ELSE @]

(* clearApprovedExecution of exactly this plan.                            *)
ClearedExecution(p) ==
    IF lifecycle.watch = p
      THEN [lifecycle EXCEPT !.watch = NoPlan, !.outcome = "none", !.status = FALSE, !.continued = FALSE]
      ELSE lifecycle

clearTurnArtifacts == [lifecycle EXCEPT !.captured = {}, !.invalid = FALSE]

PendingAsks == {a \in Asks : input[a].at = "pending"}
Emit(type, a) ==
    gitEvents' = IF gitTurn = "over" THEN gitEvents
                 ELSE Append(gitEvents, [type |-> type, ask |-> a])

(* The completed prepare of a plan; a question that is already resolved    *)
(* takes every plan of its turn with it.                                   *)
CapturePlan(p) ==
    /\ gitTurn = "running" /\ ~lifecycle.invalid /\ p \notin lifecycle.captured
    /\ lifecycle' = [lifecycle EXCEPT !.captured = IF unbound THEN {} ELSE @ \cup {p}]
    /\ UNCHANGED <<gitTurn, input, gitTold, elsewhere, unbound, resolvedInputs, continuations,
                   gitLate, private, gitEvents, gitSlack, tails, click>>

(* What the turn's items, or the snapshot read at its end, show of the      *)
(* approved execution.                                                     *)
ObserveApprovedExecution ==
    /\ gitTurn \in {"running", "completing"} /\ lifecycle.watch # NoPlan
    /\ \/ /\ lifecycle.outcome = "none"
          /\ lifecycle' = [lifecycle EXCEPT !.outcome = "started"]
       \/ /\ lifecycle.outcome \in {"none", "started"}
          /\ \E end \in {"completed", "failed", "failedForGood"} :
                lifecycle' = [lifecycle EXCEPT !.outcome = end]
       \/ /\ ~lifecycle.status
          /\ lifecycle' = [lifecycle EXCEPT !.status = TRUE]
    /\ UNCHANGED <<gitTurn, input, gitTold, elsewhere, unbound, resolvedInputs, continuations,
                   gitLate, private, gitEvents, gitSlack, tails, click>>

-----------------------------------------------------------------------------
(* The adapter and the questions.                                          *)

(* A question is answered with an error and what it leaves of the plans.   *)
Refuse(a, left) ==
    /\ lifecycle' = left
    /\ input' = [input EXCEPT ![a].at = "gone"]
    /\ gitTold' = [gitTold EXCEPT ![a] = "error"]
    /\ UNCHANGED gitEvents

(* #handleUserInputRequest without a wait: one plan exactly must be there, *)
(* not completed, not late, and no other approval pending or executing.    *)
BindQuestion(a) ==
    LET captured == lifecycle.captured
        discarded == [lifecycle EXCEPT !.captured = {}]
    IN  \/ /\ lifecycle.invalid \/ Cardinality(captured) # 1 \/ a \in gitLate
           /\ Refuse(a, discarded)
        \/ Refuse(a, [discarded EXCEPT !.invalid = TRUE])       \* malformed
        \/ \E p \in captured :
              /\ ~lifecycle.invalid /\ Cardinality(captured) = 1
              /\ IF isCompletedOperation(p) \/ approvedPlan # NoPlan \/ PendingAsks # {}
                   THEN Refuse(a, discarded)
                   ELSE /\ a \notin gitLate
                        /\ lifecycle' = discarded
                        /\ input' = [input EXCEPT ![a] = [at |-> "pending", plan |-> p]]
                        /\ Emit("requested", a)
                        /\ UNCHANGED gitTold

(* The request may overtake the notification of its plan: it waits.        *)
HandleUserInputRequest(a) ==
    /\ gitTurn = "running" /\ input[a].at = "none"
    /\ IF lifecycle.captured = {} /\ ~lifecycle.invalid
         THEN /\ input' = [input EXCEPT ![a].at = "waiting"]
              /\ UNCHANGED <<lifecycle, gitTold, gitEvents>>
         ELSE BindQuestion(a)
    /\ UNCHANGED <<gitTurn, elsewhere, unbound, resolvedInputs, continuations, gitLate, private,
                   gitSlack, tails, click>>

(* Mutant of BindingGraceEnds (no code): the binding is tried and kept.    *)
BindingGraceRepeats(a) ==
    /\ input[a].at \in {"waiting", "gone"} /\ gitTurn = "running" /\ BindQuestion(a)
    /\ UNCHANGED <<gitTurn, elsewhere, unbound, resolvedInputs, continuations, gitLate, private,
                   gitSlack, tails, click>>

(* The grace period is over: bound now, or refused.                        *)
BindingGraceEnds(a) ==
    /\ input[a].at = "waiting"
    /\ IF gitTurn = "running" THEN BindQuestion(a)
         ELSE Refuse(a, [lifecycle EXCEPT !.captured = {}])
    /\ UNCHANGED <<gitTurn, elsewhere, unbound, resolvedInputs, continuations, gitLate, private,
                   gitSlack, tails, click>>

DeadlinePassed(a) ==
    /\ input[a].at # "none" /\ a \notin gitLate
    /\ gitLate' = gitLate \cup {a}
    /\ UNCHANGED <<gitAdapter, private, gitEvents, gitSlack, tails, click>>

(* #expireGitUserInput: the question is answered "reject" and the card is  *)
(* told, whatever the private store may be doing.                          *)
GitInputExpired(a) ==
    /\ input[a].at = "pending" /\ a \in gitLate
    /\ input' = [input EXCEPT ![a].at = "gone"]
    /\ gitTold' = [gitTold EXCEPT ![a] = "reject"]
    /\ Emit("expired", a)
    /\ UNCHANGED <<gitTurn, lifecycle, elsewhere, unbound, resolvedInputs, continuations>>

ExpireGitUserInput(a) ==
    GitInputExpired(a) /\ UNCHANGED <<gitLate, private, gitSlack, tails, click>>

(* serverRequest/resolved (#removePendingServerRequestByRpcId): a pending  *)
(* question is fenced in the frontend before anything else can run, one    *)
(* that still waits takes the plans of its turn with it.                   *)
ServerRequestEnds(a) ==
    /\ gitTurn \in {"running", "completing"} /\ input[a].at # "none" /\ a \notin elsewhere
    /\ elsewhere' = elsewhere \cup {a} /\ input' = [input EXCEPT ![a].at = "gone"]
    /\ IF input[a].at = "pending"
         THEN /\ tombstones' = tombstones \cup {a} /\ resolvedInputs' = resolvedInputs \cup {a}
              /\ \/ Emit("resolvedExternally", a)
                 \/ a \in gitLate /\ Emit("expired", a)
         ELSE UNCHANGED <<tombstones, resolvedInputs, gitEvents>>
    /\ IF input[a].at = "waiting"
         THEN unbound' = TRUE /\ lifecycle' = [lifecycle EXCEPT !.captured = {}]
         ELSE UNCHANGED <<unbound, lifecycle>>
    /\ UNCHANGED <<gitTurn, gitTold, continuations, gitLate, private, gitProjecting, gitCard,
                   details, tails, click>>

(* #rejectPendingUserInputBindings: what still waits for a plan is refused *)
(* and its plans are discarded.                                            *)
WaitingAsks == {a \in Asks : input[a].at = "waiting"}
BindingsRejected(told) ==
    /\ input' = [a \in Asks |-> IF a \in WaitingAsks THEN [input[a] EXCEPT !.at = "gone"] ELSE input[a]]
    /\ gitTold' = [a \in Asks |-> IF a \in WaitingAsks THEN told ELSE gitTold[a]]

(* completeTurn up to its first await.                                     *)
CompleteTurn ==
    /\ gitTurn = "running"
    /\ gitTurn' = "completing" /\ unbound' = FALSE /\ BindingsRejected("error")
    /\ lifecycle' = IF unbound \/ WaitingAsks # {} THEN [lifecycle EXCEPT !.captured = {}] ELSE lifecycle
    /\ UNCHANGED <<elsewhere, resolvedInputs, continuations, gitLate, private, gitEvents,
                   gitSlack, tails, click>>

(* #removePendingUserInputs: nothing is answered, no card is told.         *)
InputsRemoved(ins) ==
    [a \in Asks |-> IF ins[a].at = "pending" THEN [ins[a] EXCEPT !.at = "gone"] ELSE ins[a]]

(* Mutant of ContinueApprovedTurn (no code): the flag is not set.          *)
ContinueWithoutFlag ==
    /\ gitTurn = "completing" /\ lifecycle.watch # NoPlan /\ continuations[lifecycle.watch] < 2
    /\ lifecycle.outcome = "none" /\ ~lifecycle.status /\ ~lifecycle.continued
    /\ lifecycle' = clearTurnArtifacts /\ gitTurn' = "starting" /\ input' = InputsRemoved(input)
    /\ continuations' = [continuations EXCEPT ![lifecycle.watch] = @ + 1]
    /\ UNCHANGED <<gitTold, elsewhere, unbound, resolvedInputs, gitLate, private, gitEvents,
                   gitSlack, tails, click>>

(* The hydrated items show no execution: one continuation is started       *)
(* (assessTurnCompletion, startApprovedGitContinuation).                   *)
ContinueApprovedTurn ==
    /\ gitTurn = "completing" /\ lifecycle.watch # NoPlan
    /\ lifecycle.outcome = "none" /\ ~lifecycle.status /\ ~lifecycle.continued
    /\ lifecycle' = [clearTurnArtifacts EXCEPT !.continued = TRUE]
    /\ gitTurn' = "starting" /\ input' = InputsRemoved(input)
    /\ continuations' = [continuations EXCEPT ![lifecycle.watch] = @ + 1]
    /\ UNCHANGED <<gitTold, elsewhere, unbound, resolvedInputs, gitLate, private, gitEvents,
                   gitSlack, tails, click>>

ContinuationStarts ==
    /\ gitTurn = "starting" /\ gitTurn' = "running"
    /\ UNCHANGED <<lifecycle, input, gitTold, elsewhere, unbound, resolvedInputs, continuations,
                   gitLate, private, gitEvents, gitSlack, tails, click>>

(* Any other completion is final, an error when the approved execution was *)
(* not seen to end: clearSession, and the queue is read to its end.        *)
TurnOver ==
    /\ gitTurn = "completing" /\ gitTurn' = "over"
    /\ lifecycle' = NoLifecycle /\ input' = InputsRemoved(input)
    /\ UNCHANGED <<gitTold, elsewhere, unbound, resolvedInputs, continuations, gitLate, private,
                   gitEvents, gitSlack, tails, click>>

(* The stream fails or its reader gives up: sendMessage's finally.  When   *)
(* the app-server itself is gone (#failActiveStreams) nothing is answered. *)
Aborted ==
    /\ gitTurn # "over" /\ gitTurn' = "over" /\ lifecycle' = NoLifecycle /\ unbound' = FALSE
    /\ input' = [a \in Asks |-> IF input[a].at \in {"waiting", "pending"}
                                  THEN [input[a] EXCEPT !.at = "gone"] ELSE input[a]]
    /\ gitEvents' = <<>>

AbortTurn ==
    /\ Aborted
    /\ \/ /\ gitTold' = [a \in Asks |-> IF a \in WaitingAsks THEN "error" ELSE gitTold[a]]
          /\ UNCHANGED resolvedInputs
       \/ UNCHANGED gitTold /\ resolvedInputs' = {}
    /\ UNCHANGED <<elsewhere, continuations, gitLate, private, gitSlack, tails, click>>

-----------------------------------------------------------------------------
(* The projector takes one event at a time.                                *)

ProjectGitEvent ==
    /\ gitProjecting.at = "idle" /\ gitEvents # <<>>
    /\ gitEvents' = Tail(gitEvents)
    /\ LET e == Head(gitEvents) IN
         \/ /\ e.type = "requested"
            /\ gitProjecting' = [at |-> "post", type |-> e.type, ask |-> e.ask] /\ UNCHANGED tails
         \/ /\ e.type # "requested" /\ e.ask \in details
            /\ gitProjecting' = [at |-> "queued", type |-> e.type, ask |-> e.ask]
            /\ tails' = [tails EXCEPT ![e.ask] = Append(@, Projector)]
         \/ e.type # "requested" /\ e.ask \notin details /\ UNCHANGED <<gitProjecting, tails>>
    /\ UNCHANGED <<gitAdapter, gitLate, private, gitCard, details, tombstones, click>>

(* #postUserInput: the card can be clicked from the moment Slack has it.   *)
PostGitCard ==
    /\ gitProjecting.at = "post"
    /\ \/ /\ gitCard' = [gitCard EXCEPT ![gitProjecting.ask] = "buttons"]
          /\ gitProjecting' = [gitProjecting EXCEPT !.at = "posted"]
       \/ gitProjecting' = [gitProjecting EXCEPT !.at = "reject"] /\ UNCHANGED gitCard
    /\ UNCHANGED <<gitAdapter, gitLate, private, gitEvents, details, tombstones, tails, click>>

(* An expired question cannot be remembered for text replies.              *)
RememberGitCard ==
    /\ gitProjecting.at = "posted"
    /\ \/ /\ details' = details \cup {gitProjecting.ask}
          /\ gitProjecting' = IF gitProjecting.ask \in gitLate
                                THEN [gitProjecting EXCEPT !.at = "reject"] ELSE GitResting
       \/ gitProjecting' = [gitProjecting EXCEPT !.at = "reject"] /\ UNCHANGED details
    /\ UNCHANGED <<gitAdapter, gitLate, private, gitEvents, gitCard, tombstones, tails, click>>

(* The card of a question that ends without a decision becomes unavailable *)
(* and is forgotten, or Slack does not take the update.                    *)
CardWithdrawn(a) ==
    \/ a \in details \ tombstones /\ details' = details \ {a}
       /\ gitCard' = [gitCard EXCEPT ![a] = "unavailable"]
    \/ UNCHANGED <<details, gitCard>>

(* #rejectUnprojectedGitApproval; an answer that cannot be given ends the  *)
(* reading of the turn.                                                    *)
RejectUnprojected ==
    /\ gitProjecting.at = "reject" /\ gitProjecting' = GitResting
    /\ LET a == gitProjecting.ask IN
         /\ CardWithdrawn(a)
         /\ \/ /\ input[a].at = "pending" /\ a \notin gitLate
               /\ input' = [input EXCEPT ![a].at = "gone"]
               /\ gitTold' = [gitTold EXCEPT ![a] = "reject"]
               /\ UNCHANGED <<gitTurn, lifecycle, unbound, gitEvents>>
            \/ /\ input[a].at # "pending" /\ a \in resolvedInputs
               /\ UNCHANGED <<gitTurn, lifecycle, unbound, gitEvents, input, gitTold>>
            \/ /\ input[a].at = "pending"
               /\ gitTold' = [b \in Asks |-> IF b = a THEN IF a \in gitLate THEN "reject" ELSE "unsure"
                                             ELSE IF b \in WaitingAsks THEN "error" ELSE gitTold[b]]
               /\ Aborted
            \/ /\ input[a].at # "pending" /\ a \notin resolvedInputs
               /\ gitTurn # "over"
               /\ gitTold' = [b \in Asks |-> IF b \in WaitingAsks THEN "error" ELSE gitTold[b]]
               /\ Aborted
            \/ /\ input[a].at # "pending" /\ gitTurn = "over"
               /\ UNCHANGED <<gitTurn, lifecycle, unbound, gitEvents, input, gitTold>>
    /\ UNCHANGED <<elsewhere, resolvedInputs, continuations, gitLate, private, tombstones, tails, click>>

(* #expireGitApproval, #resolveGitApprovalExternally: when the actions on  *)
(* the card before have ended.  An expired card whose update fails keeps   *)
(* its entry, which a later click then finds late.                         *)
TerminalizeGitCard ==
    /\ gitProjecting.at = "queued"
    /\ LET a == gitProjecting.ask
            shows == IF gitProjecting.type = "expired" THEN "expired" ELSE "unavailable"
            Forget == details' = details \ {a} /\ tombstones' = tombstones \ {a}
       IN  /\ Head(tails[a]) = Projector /\ tails' = [tails EXCEPT ![a] = Tail(@)]
           /\ \/ a \in details /\ gitCard' = [gitCard EXCEPT ![a] = shows] /\ Forget
              \/ a \in details /\ shows = "unavailable" /\ UNCHANGED gitCard /\ Forget
              \/ /\ a \notin details \/ shows = "expired"
                 /\ UNCHANGED <<gitCard, details, tombstones>>
    /\ gitProjecting' = GitResting
    /\ UNCHANGED <<gitAdapter, gitLate, private, gitEvents, click>>

-----------------------------------------------------------------------------
(* A click (#applyGitApproval), one at a time for a card.                  *)

ClickGit(h, a, d) ==
    /\ click[h].at = "idle" /\ gitCard[a] = "buttons"
    /\ click' = [click EXCEPT ![h] = [@ EXCEPT !.at = "queued", !.ask = a, !.decision = d]]
    /\ tails' = [tails EXCEPT ![a] = Append(@, h)]
    /\ UNCHANGED <<gitAdapter, gitLate, private, gitEvents, gitSlack>>

ClickMoves(h, at) == click' = [click EXCEPT ![h].at = at] /\ UNCHANGED tails
ClickLeaves(h, at) ==
    /\ click' = [click EXCEPT ![h].at = at]
    /\ tails' = [tails EXCEPT ![click[h].ask] = Tail(@)]

ServeClick(h) ==
    LET a == click[h].ask IN
    /\ click[h].at = "queued" /\ Head(tails[a]) = h
    /\ \/ /\ a \in details \ tombstones /\ a \notin gitLate
          /\ ClickMoves(h, "recording") /\ UNCHANGED <<gitCard, details>>
       \/ /\ a \in details \ tombstones /\ a \in gitLate /\ ClickLeaves(h, "done")
          /\ \/ gitCard' = [gitCard EXCEPT ![a] = "expired"] /\ details' = details \ {a}
             \/ UNCHANGED <<gitCard, details>>
       \/ /\ a \notin details \ tombstones /\ ClickLeaves(h, "done")
          /\ gitCard' \in {gitCard, [gitCard EXCEPT ![a] = "unavailable"]} /\ UNCHANGED details
    /\ UNCHANGED <<gitAdapter, gitLate, private, gitEvents, gitProjecting, tombstones>>

(* recordDecision of the private broker: one decision for a plan; the same *)
(* delivery again is confirmed.  What certainly has not been written may   *)
(* be rejected; any other failure keeps question and card as they are, and *)
(* an unknown outcome may still be written.                                *)
Written(h) == [decision |-> click[h].decision, ask |-> click[h].ask]
Unwritten(h) == private[input[click[h].ask].plan].decision = "none"

RecordGitDecision(h) ==
    /\ click[h].at = "recording"
    /\ LET p == input[click[h].ask].plan IN
         \/ /\ Unwritten(h) \/ private[p] = Written(h)
            /\ private' = [private EXCEPT ![p] = Written(h)] /\ ClickMoves(h, "recorded")
         \/ /\ Unwritten(h) /\ UNCHANGED <<private, tails>>
            /\ click' = [click EXCEPT ![h] = [@ EXCEPT !.at = "recorded", !.closes = TRUE]]
         \/ Unwritten(h) /\ ClickLeaves(h, "lost") /\ UNCHANGED private
         \/ ClickLeaves(h, "done") /\ UNCHANGED private
    /\ UNCHANGED <<gitAdapter, gitLate, gitEvents, gitSlack>>

DecisionWrittenLate(h) ==
    /\ click[h].at = "lost" /\ ClickMoves(h, "done") /\ Unwritten(h)
    /\ private' = [private EXCEPT ![input[click[h].ask].plan] = Written(h)]
    /\ UNCHANGED <<gitAdapter, gitLate, gitEvents, gitSlack>>

(* What the app-server is to be told.                                      *)
GitAnswer(h) == IF click[h].closes THEN "reject" ELSE click[h].decision

(* respondToUserInput, #settleGitUserInput: an approval begins its         *)
(* execution before the answer is written.                                 *)
ResumeAppServer(h) ==
    LET a == click[h].ask IN
    /\ click[h].at = "recorded"
    /\ \/ /\ input[a].at # "pending" /\ UNCHANGED <<gitAdapter, gitEvents>>
          /\ IF a \in resolvedInputs /\ GitAnswer(h) = "reject"
               THEN ClickMoves(h, "answered") ELSE ClickLeaves(h, "done")
       \/ GitInputExpired(a) /\ ClickLeaves(h, "done")
       \/ /\ input[a].at = "pending" /\ a \notin gitLate
          /\ input' = [input EXCEPT ![a].at = "gone"]
          /\ IF GitAnswer(h) = "approve" /\ approvedPlan # NoPlan
               THEN /\ gitTold' = [gitTold EXCEPT ![a] = "error"]
                    /\ ClickLeaves(h, "done") /\ UNCHANGED lifecycle
               ELSE /\ gitTold' = [gitTold EXCEPT ![a] = GitAnswer(h)] /\ ClickMoves(h, "draining")
                    /\ lifecycle' = IF GitAnswer(h) = "approve" THEN BegunExecution(input[a].plan)
                                    ELSE lifecycle
          /\ UNCHANGED <<gitTurn, elsewhere, unbound, resolvedInputs, continuations, gitEvents>>
    /\ UNCHANGED <<gitLate, private, gitSlack>>

AnswerDrains(h) ==
    /\ click[h].at = "draining"
    /\ \/ ClickMoves(h, "answered") /\ UNCHANGED <<lifecycle, gitTold>>
       \/ /\ ClickLeaves(h, "done") /\ gitTold' = [gitTold EXCEPT ![click[h].ask] = "unsure"]
          /\ lifecycle' = IF GitAnswer(h) = "approve" THEN ClearedExecution(input[click[h].ask].plan)
                          ELSE lifecycle
    /\ UNCHANGED <<gitTurn, input, elsewhere, unbound, resolvedInputs, continuations, gitLate,
                   private, gitEvents, gitSlack>>

(* The entry goes before the card says so.                                 *)
ShowDecision(h) ==
    LET a == click[h].ask IN
    /\ click[h].at = "answered" /\ ClickLeaves(h, "done")
    /\ details' = details \ {a}
    /\ gitCard' \in {gitCard, [gitCard EXCEPT ![a] = IF click[h].closes THEN "failed" ELSE "answered"]}
    /\ UNCHANGED <<gitAdapter, gitLate, private, gitEvents, gitProjecting, tombstones>>

-----------------------------------------------------------------------------

GitNext ==
    \/ \E p \in Plans : CapturePlan(p)
    \/ ObserveApprovedExecution
    \/ \E a \in Asks :
          \/ HandleUserInputRequest(a) \/ BindingGraceEnds(a) \/ DeadlinePassed(a)
          \/ ExpireGitUserInput(a) \/ ServerRequestEnds(a)
    \/ CompleteTurn \/ ContinueApprovedTurn \/ ContinuationStarts \/ TurnOver \/ AbortTurn
    \/ ProjectGitEvent \/ PostGitCard \/ RememberGitCard \/ RejectUnprojected \/ TerminalizeGitCard
    \/ \E h \in Clicks :
          \/ \E a \in Asks, d \in {"approve", "reject"} : ClickGit(h, a, d)
          \/ ServeClick(h) \/ RecordGitDecision(h) \/ DecisionWrittenLate(h)
          \/ ResumeAppServer(h) \/ AnswerDrains(h) \/ ShowDecision(h)

GitSpec == GitInit /\ [][GitNext]_gitVars

(* The app-server is told "approve" only after the private store holds the *)
(* approval of exactly this plan by a click on exactly this question's     *)
(* card, and an approval leads to one continuation turn at most            *)
(* (recordGitDecisionBeforeAppServerResume, #settleGitUserInput,           *)
(* assessTurnCompletion).                                                  *)
ApprovalIsPrivateFirst ==
    /\ \A a \in Asks : gitTold[a] = "approve" =>
          private[input[a].plan] = [decision |-> "approve", ask |-> a]
    /\ \A p \in Plans : continuations[p] > 0 =>
          continuations[p] = 1 /\ private[p].decision = "approve"

(* A question is answered once, and not after the app-server has called it *)
(* resolved: the grace timer, the arrival of the plan, the deadline, the   *)
(* end of the turn and any number of clicks race for it                    *)
(* (#pendingUserInputBindings, #pendingUserInputs).                        *)
QuestionAnsweredOnce ==
    [][\A a \in Asks : gitTold'[a] \notin {gitTold[a], "unsure"} =>
          gitTold[a] = "nothing" /\ a \notin elsewhere]_gitVars

(* What docs/architecture.md says: a possibly committed approval is never  *)
(* converted into a synthetic rejection.                                   *)
NoSyntheticRejection ==
    \A a \in Asks : gitTold[a] = "reject" =>
        private[input[a].plan] # [decision |-> "approve", ask |-> a]
=============================================================================

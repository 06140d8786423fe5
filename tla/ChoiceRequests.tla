--------------------------- MODULE ChoiceRequests ---------------------------
(***************************************************************************)
(* One question of the app-server to the user: a native approval, an       *)
(* ordinary choice of one or more questions, or the confirmation of an     *)
(* external action.  The adapter (adapters/codex/adapter.ts) keeps the     *)
(* pending request and pushes events to the turn's queue; the projector    *)
(* (slack/projector.ts) makes cards of them, one await at a time; clicks,  *)
(* modals and text replies are handled by slack/frontend.ts, any number at *)
(* once.  slack/choice-continuation.ts and slack/approval-text-store.ts    *)
(* are what they share.                                                    *)
(*                                                                         *)
(* A choice whose request ended elsewhere may be continued: its answer     *)
(* then starts a new turn.                                                 *)
(***************************************************************************)
EXTENDS Naturals, Sequences, FiniteSets

CONSTANTS
    Handlers,       \* what users do, each handled once: clicks, modals, replies
    MaxQuestions    \* questions of an ordinary choice

Questions == 1..MaxQuestions
Nobody == 0         \* no question: nothing pending, nothing remembered

VARIABLES
    kind,           \* what is asked: "native", "ordinary", "external"
    asked,          \* how many questions it has
    choicePending,  \* the question #pendingUserInputs waits for
    receipt,        \* the delivery tracker remembers a written answer
    appServer,      \* what the app-server was told
    ended,          \* the app-server has said that the request is resolved
    late,           \* the deadline of the request has passed
    events,         \* the AsyncEventQueue of the turn
    stream,         \* "open", "over", "complete"
    projecting,     \* what the projector awaits
    choiceCard,     \* question -> what its message in Slack shows
    displayed,      \* #displayedByRequestId
    dispatched,     \* #dispatchedByRequestId
    continuation,   \* the continuation of the request, and its question
    textEntry,      \* ApprovalTextStore holds the request
    handler,        \* handler -> what it awaits
    newTurns        \* history: turns begun by a continuation

adapterSide == <<kind, asked, choicePending, receipt, appServer, ended, late, events, stream>>
slackSide == <<projecting, choiceCard, displayed, dispatched, continuation, textEntry>>
choiceVars == <<adapterSide, slackSide, handler, newTurns>>

CardStates == {"absent", "posted", "controls", "sent", "sentAsTurn", "continuation",
               "failed", "notSent", "notDelivered", "expired", "closed"}
Vias == {"button", "modal", "text", "continuation"}
Resting == [at |-> "idle", question |-> Nobody, shows |-> "absent"]
Free == [at |-> "idle", via |-> "button", question |-> Nobody]

(* Type invariant of the request, its cards and its handlers.              *)
ChoiceTypeOK ==
    /\ kind \in {"native", "ordinary", "external"} /\ asked \in Questions
    /\ {choicePending, displayed, dispatched} \subseteq Questions \cup {Nobody}
    /\ {receipt, ended, late, textEntry} \subseteq BOOLEAN
    /\ appServer \in {"idle", "waiting", "answered", "refused", "unsure"}
    /\ \A i \in DOMAIN events : events[i].question \in Questions
    /\ stream \in {"open", "over", "complete"}
    /\ projecting \in [at : {"idle", "post", "attach", "remember", "cancel", "update"},
                       question : Questions \cup {Nobody}, shows : CardStates]
    /\ choiceCard \in [Questions -> CardStates]
    /\ continuation \in [state : {"none", "pending", "in_progress", "consumed"},
                         question : Questions \cup {Nobody}]
    /\ handler \in [Handlers -> [at : {"idle", "done", "arrived", "resolving", "draining", "answered",
                                       "receipt", "failing", "continuing", "admitted", "running"},
                                 via : Vias, question : Questions \cup {Nobody}]]
    /\ newTurns \in 0..Cardinality(Handlers)

ChoiceInit ==
    /\ kind \in {"native", "ordinary", "external"}
    /\ asked \in IF kind = "ordinary" THEN Questions ELSE {1}
    /\ choicePending = Nobody /\ receipt = FALSE /\ appServer = "idle" /\ ended = FALSE
    /\ late = FALSE /\ events = <<>> /\ stream = "open" /\ projecting = Resting
    /\ choiceCard = [q \in Questions |-> "absent"]
    /\ displayed = Nobody /\ dispatched = Nobody
    /\ continuation = [state |-> "none", question |-> Nobody]
    /\ textEntry = FALSE /\ handler = [h \in Handlers |-> Free] /\ newTurns = 0

-----------------------------------------------------------------------------
(* The adapter.                                                            *)

IsChoice == kind # "native"

(* queue.push does nothing once the queue is closed.                       *)
Pushed(type, q) ==
    IF stream = "open" THEN Append(events, [type |-> type, question |-> q]) ELSE events

(* An expired entry is gone for every getter but the terminal projection.  *)
Live(q) == IF late THEN Nobody ELSE q

HandleChoiceRequest ==
    /\ appServer = "idle" /\ stream = "open"
    /\ appServer' = "waiting" /\ choicePending' = 1 /\ events' = Pushed("requested", 1)
    /\ UNCHANGED <<kind, asked, receipt, ended, late, stream, slackSide, handler, newTurns>>

(* What cannot be shown safely, or came too late, is answered with an      *)
(* error at once.                                                          *)
RefuseChoiceRequest ==
    /\ appServer = "idle" /\ stream = "open" /\ appServer' = "refused"
    /\ UNCHANGED <<kind, asked, choicePending, receipt, ended, late, events, stream, slackSide,
                   handler, newTurns>>

DeadlinePasses ==
    /\ appServer # "idle" /\ ~late
    /\ late' = TRUE
    /\ UNCHANGED <<kind, asked, choicePending, receipt, appServer, ended, events, stream,
                   slackSide, handler, newTurns>>

(* #expireUserInput, and the timer of a native approval, which tells the   *)
(* projector nothing about the card.  When the refusal cannot be written   *)
(* the stream fails after what is queued.                                  *)
Expired ==
    /\ late /\ choicePending # Nobody
    /\ choicePending' = Nobody /\ appServer' = "refused"
    /\ events' = IF IsChoice THEN Pushed("expired", choicePending) ELSE events
    /\ stream' \in {stream, "over"}
    /\ UNCHANGED <<kind, asked, receipt, ended, late>>

ExpireRequest == Expired /\ UNCHANGED <<slackSide, handler, newTurns>>

(* The app-server says serverRequest/resolved, after an answer or because  *)
(* the request ended elsewhere: #removePendingServerRequestByRpcId.        *)
ServerRequestResolved ==
    /\ appServer # "idle" /\ ~ended /\ stream = "open"
    /\ ended' = TRUE /\ choicePending' = Nobody
    /\ events' = IF receipt THEN Pushed("serverResolved", 1)
                 ELSE IF choicePending # Nobody /\ IsChoice
                        THEN Pushed("resolvedExternally", choicePending) ELSE events
    /\ UNCHANGED <<kind, asked, receipt, appServer, late, stream, slackSide, handler, newTurns>>

(* The app-server's error output says that an answer was not taken.        *)
ObserveDeliveryStderr ==
    /\ receipt
    /\ receipt' = FALSE /\ appServer' = "unsure" /\ events' = Pushed("deliveryFailed", 1)
    /\ UNCHANGED <<kind, asked, choicePending, ended, late, stream, slackSide, handler, newTurns>>

(* completeTurn: the pending request and the receipt are dropped in        *)
(* silence, the queue is closed and read to its end.                       *)
TurnCompletes ==
    /\ stream = "open" /\ appServer # "idle"
    /\ stream' = "over" /\ choicePending' = Nobody /\ receipt' = FALSE
    /\ UNCHANGED <<kind, asked, appServer, ended, late, events, slackSide, handler, newTurns>>

(* #cancelUserInput, approve with "cancel": the card could not be shown.   *)
Cancelled == choicePending # Nobody /\ choicePending' = Nobody /\ appServer' = "refused"

-----------------------------------------------------------------------------
(* The projector: it takes an event, runs to its next await and has one    *)
(* card update outstanding at most.                                        *)

Showing(q, shows) == [at |-> "update", question |-> q, shows |-> shows]

(* Whatever ends a request in the projector forgets its text entry first.  *)
ForgetApprovalText == textEntry' = FALSE

ProjectRequested(e) ==
    /\ projecting' = [Resting EXCEPT !.at = "post", !.question = e.question]
    /\ UNCHANGED <<displayed, dispatched, continuation, textEntry>>

ExpireChoice ==
    /\ ForgetApprovalText
    /\ projecting' = IF displayed = Nobody THEN Resting ELSE Showing(displayed, "expired")
    /\ UNCHANGED <<displayed, dispatched, continuation>>

(* resolveExternally, getForOriginalRequest: an external action gets none. *)
OfferContinuation(q) ==
    continuation' = IF kind = "external" THEN continuation ELSE [state |-> "pending", question |-> q]

(* begin, consume.                                                         *)
AdmitOne ==
    continuation.state = "pending" /\ continuation' = [continuation EXCEPT !.state = "in_progress"]
Consumed ==
    continuation' = [continuation EXCEPT !.state = IF continuation.state = "none" THEN "none" ELSE "consumed"]

ResolveChoiceExternally ==
    /\ ForgetApprovalText /\ UNCHANGED dispatched
    /\ IF Live(displayed) = Nobody
         THEN projecting' = Resting /\ UNCHANGED <<displayed, continuation>>
         ELSE /\ displayed' = Nobody
              /\ OfferContinuation(displayed)
              /\ projecting' = Showing(displayed, IF kind = "external" THEN "closed" ELSE "continuation")

(* markDispatched without a message: displayed first, dispatched else.     *)
MarkDispatched ==
    LET current == IF Live(displayed) # Nobody THEN displayed ELSE Live(dispatched)
    IN  IF current = Nobody
          THEN projecting' = Resting /\ UNCHANGED <<displayed, dispatched>>
          ELSE /\ projecting' = Showing(current, "sent")
               /\ displayed' = Nobody /\ dispatched' = current

MarkChoiceAnswerDispatched == ForgetApprovalText /\ MarkDispatched /\ UNCHANGED continuation

FailChoiceDelivery ==
    /\ ForgetApprovalText /\ UNCHANGED continuation
    /\ LET current == IF Live(dispatched) # Nobody THEN dispatched ELSE Live(displayed)
       IN  IF current = Nobody
             THEN projecting' = Resting /\ UNCHANGED <<displayed, dispatched>>
             ELSE /\ projecting' = Showing(current, "notDelivered")
                  /\ displayed' = IF displayed = current THEN Nobody ELSE displayed
                  /\ dispatched' = Nobody

AuditServerRequestResolved ==
    ForgetApprovalText /\ projecting' = Resting /\ UNCHANGED <<displayed, dispatched, continuation>>

ProjectEvent ==
    /\ projecting.at = "idle" /\ events # <<>> /\ stream # "complete"
    /\ LET e == Head(events) IN
         \/ e.type = "requested" /\ ProjectRequested(e)
         \/ e.type = "expired" /\ ExpireChoice
         \/ e.type = "resolvedExternally" /\ ResolveChoiceExternally
         \/ e.type = "dispatched" /\ MarkChoiceAnswerDispatched
         \/ e.type = "deliveryFailed" /\ FailChoiceDelivery
         \/ e.type = "serverResolved" /\ AuditServerRequestResolved
    /\ events' = Tail(events)
    /\ UNCHANGED <<kind, asked, choicePending, receipt, appServer, ended, late, stream, choiceCard,
                   handler, newTurns>>

(* #postChoice, #postApproval: the message, then its controls, then what   *)
(* clicks and replies are compared with.  A failure may come after Slack   *)
(* has taken the update.                                                   *)
PostChoice ==
    /\ projecting.at = "post"
    /\ \/ choiceCard' = [choiceCard EXCEPT ![projecting.question] = "posted"]
          /\ projecting' = [projecting EXCEPT !.at = "attach"]
       \/ projecting' = [projecting EXCEPT !.at = "cancel"] /\ UNCHANGED choiceCard
    /\ UNCHANGED <<adapterSide, displayed, dispatched, continuation, textEntry, handler, newTurns>>

AttachControls ==
    /\ projecting.at = "attach"
    /\ \/ choiceCard' = [choiceCard EXCEPT ![projecting.question] = "controls"]
          /\ projecting' \in {[projecting EXCEPT !.at = at] : at \in {"remember", "cancel"}}
       \/ projecting' = [projecting EXCEPT !.at = "cancel"] /\ UNCHANGED choiceCard
    /\ UNCHANGED <<adapterSide, displayed, dispatched, continuation, textEntry, handler, newTurns>>

(* An ordinary choice has no text entry; an expired one is refused by the  *)
(* text store, and the projection fails after the display was remembered.  *)
RememberApprovalText ==
    /\ textEntry' = ~late
    /\ projecting' = IF late THEN [projecting EXCEPT !.at = "cancel"] ELSE Resting

RememberDisplayed ==
    /\ projecting.at = "remember" /\ IsChoice
    /\ displayed' = projecting.question
    /\ IF kind = "external" THEN RememberApprovalText
         ELSE projecting' = Resting /\ UNCHANGED textEntry
    /\ UNCHANGED <<adapterSide, choiceCard, dispatched, continuation, handler, newTurns>>

(* The end of #postApproval, whose steps before are those of #postChoice.  *)
RememberApproval ==
    /\ projecting.at = "remember" /\ ~IsChoice /\ RememberApprovalText
    /\ UNCHANGED <<adapterSide, choiceCard, displayed, dispatched, continuation, handler, newTurns>>

(* cancelUnprojectedChoice, cancelUnprojectedNativeApproval; when there is *)
(* nothing left to cancel the AggregateError ends the reading of the turn, *)
(* which is interrupted.                                                   *)
CancelUnprojected ==
    /\ projecting.at = "cancel" /\ projecting' = Resting
    /\ \/ Cancelled /\ UNCHANGED <<receipt, events, stream>>
       \/ /\ choicePending = Nobody /\ stream' = "over" /\ events' = <<>> /\ receipt' = FALSE
          /\ UNCHANGED <<choicePending, appServer>>
    /\ UNCHANGED <<kind, asked, ended, late, choiceCard, displayed, dispatched, continuation,
                   textEntry, handler, newTurns>>

(* chat.update of a card; what fails is logged and the turn goes on.  An   *)
(* expired card is forgotten only when Slack has taken the update.         *)
CardUpdated ==
    /\ projecting.at = "update" /\ projecting' = Resting
    /\ LET q == projecting.question IN
         \/ /\ choiceCard' = [choiceCard EXCEPT ![q] = projecting.shows]
            /\ IF projecting.shows = "expired"
                 THEN displayed' = Nobody /\ dispatched' = Nobody
                 ELSE UNCHANGED <<displayed, dispatched>>
         \/ UNCHANGED <<choiceCard, displayed, dispatched>>
    /\ UNCHANGED <<adapterSide, continuation, textEntry, handler, newTurns>>

(* complete, after the last event: the turn's text entries are revoked.    *)
CompleteProjection ==
    /\ stream = "over" /\ events = <<>> /\ projecting = Resting
    /\ stream' = "complete" /\ ForgetApprovalText
    /\ UNCHANGED <<kind, asked, choicePending, receipt, appServer, ended, late, events, projecting,
                   choiceCard, displayed, dispatched, continuation, handler, newTurns>>

(* #prune, which any request may run: what is past its deadline goes.      *)
PruneExpired ==
    /\ late /\ (<<displayed, dispatched>> # <<Nobody, Nobody>> \/ continuation.state # "none")
    /\ displayed' = Nobody /\ dispatched' = Nobody
    /\ continuation' = [state |-> "none", question |-> Nobody]
    /\ UNCHANGED <<adapterSide, projecting, choiceCard, textEntry, handler, newTurns>>

-----------------------------------------------------------------------------
(* The handlers of Slack.                                                  *)

HandlerAt(h, at) == handler[h].at = at
Goes(h, at) == handler' = [handler EXCEPT ![h].at = at]

(* A click on what a card shows now, or the modal it opened, which may be  *)
(* submitted at any time later.  It is handled at the next step.           *)
Click(h, q, via) ==
    /\ HandlerAt(h, "idle") /\ choiceCard[q] = "controls"
    /\ via = "button" \/ (via = "modal" /\ kind = "ordinary")
    /\ handler' = [handler EXCEPT ![h] = [at |-> "arrived", via |-> via, question |-> q]]
    /\ UNCHANGED <<adapterSide, slackSide, newTurns>>

(* ... and on an option, or the modal for free text, of a continuation.    *)
ClickContinuation(h, q) ==
    /\ HandlerAt(h, "idle") /\ choiceCard[q] = "continuation"
    /\ handler' = [handler EXCEPT ![h] = [at |-> "arrived", via |-> "continuation", question |-> q]]
    /\ UNCHANGED <<adapterSide, slackSide, newTurns>>

(* Only what is displayed and in time can be answered by text.             *)
getForCommand == textEntry /\ ~late

(* #handleApprovalTextMessage: the reply finds its entry, and an external  *)
(* confirmation must still be the one displayed.                           *)
TextReply(h) ==
    /\ HandlerAt(h, "idle") /\ getForCommand
    /\ kind = "external" => Live(displayed) = 1
    /\ handler' = [handler EXCEPT ![h] = [at |-> "resolving", via |-> "text", question |-> 1]]
    /\ UNCHANGED <<adapterSide, slackSide, newTurns>>

(* An old click finds the continuation of its request, or goes on to the   *)
(* adapter after requireActiveConversation.                                *)
HandleOriginalClick(h) ==
    /\ HandlerAt(h, "arrived") /\ handler[h].via \in {"button", "modal"}
    /\ \/ /\ continuation.state = "none" \/ late
          /\ Goes(h, "resolving")
       \/ /\ continuation.state # "none" /\ ~late /\ continuation.question # handler[h].question
          /\ Goes(h, "failing")
    /\ UNCHANGED <<adapterSide, slackSide, newTurns>>

(* #continueStructuredChoice up to begin, which admits one.  A restart     *)
(* refuses, and so does begin for all others.                              *)
BeginContinuation(h) ==
    /\ HandlerAt(h, "arrived") /\ ~late
    /\ continuation.question = handler[h].question
    /\ \/ AdmitOne /\ Goes(h, "continuing")
       \/ /\ continuation.state # "none" /\ UNCHANGED continuation
          /\ Goes(h, IF handler[h].via = "continuation" THEN "done" ELSE "failing")
    /\ UNCHANGED <<adapterSide, projecting, choiceCard, displayed, dispatched, textEntry, newTurns>>

(* A click on a continuation that is gone: only its user is told.          *)
ContinuationGone(h) ==
    /\ HandlerAt(h, "arrived") /\ handler[h].via = "continuation"
    /\ late \/ continuation.state = "none"
    /\ Goes(h, "done")
    /\ UNCHANGED <<adapterSide, slackSide, newTurns>>

(* handleHumanMessage admits the turn and the card is replaced, or it is   *)
(* refused: the session changed, or the deadline passed in the queue.      *)
ContinueChoice(h) ==
    /\ HandlerAt(h, "continuing")
    /\ \/ ~late /\ newTurns' = newTurns + 1 /\ Goes(h, "admitted")
          /\ UNCHANGED <<choiceCard, continuation>>
       \/ /\ Goes(h, IF handler[h].via = "continuation" THEN "done" ELSE "failing")
          /\ Consumed
          /\ choiceCard' \in {choiceCard, [choiceCard EXCEPT ![handler[h].question] = "notSent"]}
          /\ UNCHANGED newTurns
    /\ UNCHANGED <<adapterSide, projecting, displayed, dispatched, textEntry>>

(* The receipt of the new turn; without it the turn is given up.           *)
ContinuationAdmitted(h) ==
    /\ HandlerAt(h, "admitted")
    /\ \/ choiceCard' = [choiceCard EXCEPT ![handler[h].question] = "sentAsTurn"] /\ Goes(h, "running")
       \/ /\ choiceCard' \in {choiceCard, [choiceCard EXCEPT ![handler[h].question] = "notSent"]}
          /\ Goes(h, "running")
    /\ UNCHANGED <<adapterSide, projecting, displayed, dispatched, continuation, textEntry, newTurns>>

(* finally: the continuation is consumed, whatever became of its turn.     *)
ConsumeContinuation(h) ==
    /\ HandlerAt(h, "running")
    /\ Consumed /\ Goes(h, "done")
    /\ UNCHANGED <<adapterSide, projecting, choiceCard, displayed, dispatched, textEntry, newTurns>>

(* Mutant of AcceptAnswer (no code): the request is pending until the      *)
(* answer is drained.                                                      *)
AcceptAnswerLate(h) ==
    /\ HandlerAt(h, "resolving") /\ IsChoice /\ choicePending # Nobody /\ ~late
    /\ handler[h].question = choicePending
    /\ IF choicePending < asked
         THEN /\ choicePending' = choicePending + 1 /\ events' = Pushed("requested", choicePending + 1)
              /\ Goes(h, "answered") /\ UNCHANGED <<receipt, appServer>>
         ELSE /\ appServer' = "answered" /\ UNCHANGED <<choicePending, receipt, events>>
              /\ Goes(h, "draining")
    /\ UNCHANGED <<kind, asked, ended, late, stream, slackSide, newTurns>>

(* respondToUserInput: the answer of the current question, the last of     *)
(* which is written and drained.                                           *)
AcceptAnswer(h) ==
    /\ HandlerAt(h, "resolving") /\ IsChoice /\ choicePending # Nobody /\ ~late
    /\ handler[h].question = choicePending
    /\ IF choicePending < asked
         THEN /\ choicePending' = choicePending + 1 /\ events' = Pushed("requested", choicePending + 1)
              /\ Goes(h, "answered") /\ UNCHANGED <<receipt, appServer>>
         ELSE /\ choicePending' = Nobody /\ appServer' = "answered" /\ receipt' = TRUE
              /\ Goes(h, "draining") /\ UNCHANGED events
    /\ UNCHANGED <<kind, asked, ended, late, stream, slackSide, newTurns>>

(* approve: a native approval is written without a wait.                   *)
ApproveNative(h) ==
    /\ HandlerAt(h, "resolving") /\ ~IsChoice /\ choicePending # Nobody /\ ~late
    /\ choicePending' = Nobody /\ appServer' = "answered" /\ Goes(h, "answered")
    /\ UNCHANGED <<kind, asked, receipt, ended, late, events, stream, slackSide, newTurns>>

(* ... which has no such request or question.                              *)
UnknownRequest(h) ==
    /\ HandlerAt(h, "resolving") /\ choicePending # handler[h].question
    /\ ~(late /\ choicePending # Nobody)
    /\ Goes(h, "failing")
    /\ UNCHANGED <<adapterSide, slackSide, newTurns>>

AnswerTooLate(h) ==
    /\ HandlerAt(h, "resolving") /\ Expired /\ Goes(h, "failing")
    /\ UNCHANGED <<slackSide, newTurns>>

AnswerDrained(h) ==
    /\ HandlerAt(h, "draining") /\ Goes(h, "answered")
    /\ events' = IF receipt THEN Pushed("dispatched", 1) ELSE events
    /\ UNCHANGED <<kind, asked, choicePending, receipt, appServer, ended, late, stream, slackSide, newTurns>>

DrainFails(h) ==
    /\ HandlerAt(h, "draining") /\ Goes(h, "failing")
    /\ receipt' = FALSE /\ appServer' = "unsure" /\ events' = Pushed("deliveryFailed", 1)
    /\ UNCHANGED <<kind, asked, choicePending, ended, late, stream, slackSide, newTurns>>

(* #applyNativeApproval, #applyChoiceAnswer after the answer; a modal only *)
(* updates its card.                                                       *)
RecordDecision(h) ==
    /\ HandlerAt(h, "answered") /\ ~IsChoice /\ Goes(h, "receipt") /\ ForgetApprovalText
    /\ UNCHANGED <<adapterSide, projecting, choiceCard, displayed, dispatched, continuation, newTurns>>

RecordReceipt(h) ==
    /\ HandlerAt(h, "answered") /\ IsChoice /\ Goes(h, "receipt")
    /\ textEntry' = (textEntry /\ handler[h].via = "modal")
    /\ IF handler[h].via # "modal" /\ Live(displayed) = handler[h].question
         THEN displayed' = Nobody /\ dispatched' = handler[h].question
         ELSE UNCHANGED <<displayed, dispatched>>
    /\ UNCHANGED <<adapterSide, projecting, choiceCard, continuation, newTurns>>

ShowReceipt(h) ==
    /\ HandlerAt(h, "receipt") /\ Goes(h, "done")
    /\ choiceCard' \in {choiceCard, [choiceCard EXCEPT ![handler[h].question] = "sent"]}
    /\ UNCHANGED <<adapterSide, projecting, displayed, dispatched, continuation, textEntry, newTurns>>

(* A button that failed says so on the card of a choice that was not       *)
(* dispatched; a modal always does; the others tell their user only.       *)
ShowFailure(h) ==
    /\ HandlerAt(h, "failing") /\ Goes(h, "done")
    /\ IF IsChoice /\ (handler[h].via = "modal" \/ (handler[h].via = "button" /\ Live(dispatched) = Nobody))
         THEN choiceCard' \in {choiceCard, [choiceCard EXCEPT ![handler[h].question] = "failed"]}
         ELSE UNCHANGED choiceCard
    /\ UNCHANGED <<adapterSide, projecting, displayed, dispatched, continuation, textEntry, newTurns>>

-----------------------------------------------------------------------------

ChoiceNext ==
    \/ HandleChoiceRequest \/ RefuseChoiceRequest \/ DeadlinePasses \/ ExpireRequest \/ ServerRequestResolved
    \/ ObserveDeliveryStderr \/ TurnCompletes
    \/ ProjectEvent \/ PostChoice \/ AttachControls \/ RememberDisplayed \/ RememberApproval \/ CancelUnprojected
    \/ CardUpdated \/ CompleteProjection \/ PruneExpired
    \/ \E h \in Handlers :
          \/ TextReply(h) \/ HandleOriginalClick(h) \/ BeginContinuation(h) \/ ContinuationGone(h)
          \/ ContinueChoice(h) \/ ContinuationAdmitted(h) \/ ConsumeContinuation(h)
          \/ AcceptAnswer(h) \/ ApproveNative(h) \/ UnknownRequest(h) \/ AnswerTooLate(h)
          \/ AnswerDrained(h) \/ DrainFails(h) \/ RecordDecision(h) \/ RecordReceipt(h)
          \/ ShowReceipt(h) \/ ShowFailure(h)
          \/ \E q \in Questions : ClickContinuation(h, q) \/ \E via \in Vias : Click(h, q, via)

ChoiceSpec == ChoiceInit /\ [][ChoiceNext]_choiceVars

(* A request is answered or continued as a new turn, never both, and       *)
(* continued once; an external action never becomes a turn of its own.  A  *)
(* card that says the request ended without an answer is right: nothing    *)
(* was written to the app-server (respondToUserInput, resolveExternally,   *)
(* begin).                                                                 *)
AnsweredOrContinued ==
    /\ newTurns > 0 => newTurns = 1 /\ appServer # "answered" /\ kind = "ordinary"
    /\ \A q \in Questions :
          choiceCard[q] \in {"continuation", "sentAsTurn", "closed", "expired"} => appServer # "answered"

=============================================================================

--------------------------- MODULE SlackProjection ---------------------------
(***************************************************************************)
(* One turn as Slack shows it: the SlackThreadProjector of slack/          *)
(* projector.ts and the handler that feeds it, which is one of three:      *)
(*   message       a person's message (slack/frontend.ts),                 *)
(*   continuation  a delegation's result, brought to the Koe that asked    *)
(*                 for it (slack/delegation-continuation.ts),              *)
(*   delegation    a visit (slack/delegation-projector.ts).                *)
(*                                                                         *)
(* The activity message is written by the handler and by a heartbeat, one  *)
(* write after the other (#activityWriteTail); everything else is posted.  *)
(* Slack takes a call, refuses it, or takes it although the caller sees an *)
(* error.  The cards of questions and approvals are in ChoiceRequests,     *)
(* GitApprovals and PermissionApprovals.                                   *)
(***************************************************************************)
EXTENDS Naturals, Sequences

CONSTANTS
    MaxChunks,      \* MAX_FINAL_CHUNKS, the messages of one final answer
    MaxEvents,      \* bound on the events of a turn
    MaxFaults,      \* bound on Slack calls that fail
    MaxBeats        \* bound on heartbeats

ASSUME ChunksAssumption == MaxChunks \in Nat \ {0}

VARIABLES
    client,         \* which handler
    mention,        \* the person is mentioned: the answer is a message of its own
    stage,          \* how far the handler has come
    task,           \* what the call it makes is for, or "none"
    result,         \* how that call ended
    attempted,      \* projectionStarted or turnAttempted
    turnEnd,        \* how the turn ended
    agentText,      \* #text is not empty
    tools,          \* a tool was recorded
    started,        \* #turnActivityStarted
    finalized,      \* #toolProgressFinalized
    errorPosted,    \* #terminalErrorPosted
    recovery,       \* #pendingGitApprovalRecovery is set
    left,           \* messages of the final answer not published yet
    published,      \* #finalMessagesPublished
    disabled,       \* #messageProjectionDisabled
    messageTs,      \* #messageTs is known
    posted,         \* #lastPostedText
    writes,         \* #activityWriteTail: who waits for which write
    sending,        \* the text its head sends
    armed,          \* #cancelHeartbeat is set
    activity,       \* what the activity message shows
    shown,          \* what the messages posted in the thread say
    lost,           \* history: some call that carried an answer or an error failed
    bounds          \* events, faults and heartbeats so far

handlerVars == <<client, mention, stage, task, result, attempted, turnEnd>>
turnVars == <<agentText, tools, started, errorPosted, recovery>>
finalVars == <<finalized, left, published>>
activityVars == <<disabled, messageTs, posted, writes, sending, armed, activity>>
toldVars == <<shown, lost>>
projectionVars == <<handlerVars, turnVars, finalVars, activityVars, toldVars, bounds>>

Clients == {"message", "continuation", "delegation"}
Texts == {"none", "working", "text", "summary", "collapsed", "final"}
WriteTasks == {"accept", "event", "error", "failure", "collapse", "primary", "abandon"}
PostTasks == {"error told", "failure told", "attachment", "chunk", "recovery", "raw", "notice"}

ProjectionTypeOK ==
    /\ client \in Clients
    /\ stage \in {"accepting", "preparing", "streaming", "failing", "closing", "completing", "over"}
    /\ task \in WriteTasks \cup PostTasks \cup {"none"}
    /\ result \in {"none", "pending", "ok", "failed"}
    /\ turnEnd \in {"no", "normally", "with an error", "handled already"}
    /\ {mention, attempted, agentText, tools, started, finalized, errorPosted, recovery, published,
        disabled, messageTs, armed, lost} \subseteq BOOLEAN
    /\ left \in 0..MaxChunks /\ {posted, sending, activity} \subseteq Texts
    /\ \A i \in DOMAIN writes : writes[i] \in {"beat"} \cup WriteTasks
    /\ shown \subseteq PostTasks
    /\ bounds \in [events : 0..MaxEvents, faults : 0..MaxFaults, beats : 0..MaxBeats]

ProjectionInit ==
    /\ client \in Clients
    /\ mention \in IF client = "delegation" THEN {FALSE} ELSE BOOLEAN
    /\ stage = (IF client = "message" THEN "accepting" ELSE "streaming")
    /\ attempted = (client # "message") /\ task = "none" /\ result = "none" /\ turnEnd = "no"
    /\ agentText = FALSE /\ tools = FALSE /\ started = FALSE /\ errorPosted = FALSE /\ recovery = FALSE
    /\ finalized = FALSE /\ left = 0 /\ published = FALSE
    /\ disabled = FALSE /\ messageTs = FALSE /\ posted = "none" /\ writes = <<>> /\ sending = "none"
    /\ armed = FALSE /\ activity = "none"
    /\ shown = {} /\ lost = FALSE
    /\ bounds = [events |-> 0, faults |-> 0, beats |-> 0]

Fault == bounds.faults < MaxFaults /\ bounds' = [bounds EXCEPT !.faults = @ + 1]

-----------------------------------------------------------------------------
(* The activity message.                                                   *)

(* #renderActivityMessage.                                                 *)
Rendered ==
    IF ~finalized /\ started THEN "working"
    ELSE IF agentText THEN "text" ELSE IF tools THEN "summary" ELSE "none"

(* What the final message says, #renderFinalMessages.                      *)
HasAnswer == agentText \/ recovery \/ tools

(* The text of a write is rendered when the write begins.                  *)
WriteText ==
    CASE disabled /\ Head(writes) # "primary" -> "none"
      [] Head(writes) = "collapse" -> IF messageTs THEN "collapsed" ELSE "none"
      [] Head(writes) = "primary" -> IF HasAnswer THEN "final" ELSE "none"
      [] Head(writes) = "abandon" -> "none"
      [] OTHER -> Rendered

(* #syncHeartbeat: armed again, or cancelled.                              *)
Beating == ~finalized /\ started /\ ~disabled /\ messageTs

(* The end of a write, for whoever waits for it.                           *)
WriteEnds(outcome) ==
    /\ writes' = Tail(writes) /\ sending' = "none"
    /\ IF Head(writes) = "beat"
       THEN armed' = (Beating /\ ~disabled' /\ messageTs') /\ UNCHANGED result
       ELSE result' = outcome /\ UNCHANGED armed

(* Nothing is sent when there is nothing to say, or the same was said last *)
(* time.  The streamed text may be all of the answer.                      *)
WriteBegins ==
    /\ writes # <<>> /\ sending = "none" /\ UNCHANGED <<disabled, messageTs>>
    /\ \/ /\ WriteText # "none" /\ sending' = WriteText
          /\ UNCHANGED <<writes, result, armed, activity>>
       \/ /\ WriteText = "none" \/ WriteText = posted \/ (WriteText = "final" /\ posted = "text")
          /\ activity' = IF WriteText = "final" THEN WriteText ELSE activity
          /\ WriteEnds("ok")
    /\ UNCHANGED <<client, mention, stage, task, attempted, turnEnd, turnVars, finalVars, posted, toldVars,
                   bounds>>

WriteTaken ==
    /\ sending # "none" /\ UNCHANGED disabled
    /\ activity' = sending /\ messageTs' = TRUE /\ posted' = sending
    /\ WriteEnds("ok")
    /\ UNCHANGED <<client, mention, stage, task, attempted, turnEnd, turnVars, finalVars, toldVars, bounds>>

(* A text that is too long is sent again in a short form; when that is too *)
(* long too, or the first post gets no timestamp, the projection is        *)
(* disabled.  A first post that was taken although its caller saw an error *)
(* stays in the thread: nobody knows its timestamp.                        *)
WriteFails ==
    /\ sending # "none" /\ Fault /\ UNCHANGED <<messageTs, posted>>
    /\ activity' \in IF messageTs THEN {activity, sending} ELSE {activity}
    /\ disabled' \in IF messageTs /\ Head(writes) \in {"collapse", "primary"} THEN {disabled}
                                                                             ELSE {disabled, TRUE}
    /\ lost' = (lost \/ Head(writes) = "primary")
    /\ WriteEnds("failed")
    /\ UNCHANGED <<client, mention, stage, task, attempted, turnEnd, turnVars, finalVars, shown>>

(* The timer.                                                              *)
HeartbeatFires ==
    /\ armed /\ bounds.beats < MaxBeats /\ bounds' = [bounds EXCEPT !.beats = @ + 1]
    /\ armed' = FALSE
    /\ writes' = IF finalized \/ ~started \/ disabled THEN writes ELSE Append(writes, "beat")
    /\ UNCHANGED <<handlerVars, turnVars, finalVars, disabled, messageTs, posted, sending, activity, toldVars>>

-----------------------------------------------------------------------------
(* What the handler calls, and how a call that posts ends.                 *)

HandlerFree == task = "none"
Done == task' = "none" /\ result' = "none"
Returned(t, r) == task = t /\ result = r

Call(t) ==
    /\ task' = t /\ result' = "pending"
    /\ writes' = IF t \in WriteTasks THEN Append(writes, t) ELSE writes

PostEnds ==
    /\ task \in PostTasks /\ result = "pending"
    /\ \/ shown' = shown \cup {task} /\ result' = "ok" /\ UNCHANGED <<lost, bounds>>
       \/ Fault /\ result' = "failed" /\ shown' \in {shown, shown \cup {task}} /\ lost' = TRUE
    /\ UNCHANGED <<client, mention, stage, task, attempted, turnEnd, turnVars, finalVars, activityVars>>

(* project ends: the heartbeat is armed, but not when the call has failed. *)
Projected(tasks) ==
    /\ task \in tasks /\ result \in {"ok", "failed"} /\ Done
    /\ armed' = IF result = "ok" THEN Beating ELSE armed

-----------------------------------------------------------------------------
(* A person's message, up to its turn.                                     *)

AcceptMessage ==
    /\ stage = "accepting" /\ HandlerFree /\ started' = TRUE /\ Call("accept")
    /\ UNCHANGED <<client, mention, stage, attempted, turnEnd, agentText, tools, errorPosted, recovery,
                   finalVars, disabled, messageTs, posted, sending, armed, activity, toldVars, bounds>>

MessageAccepted ==
    /\ Projected({"accept"})
    /\ attempted' = (result = "ok") /\ stage' = IF result = "ok" THEN "preparing" ELSE "failing"
    /\ UNCHANGED <<client, mention, turnEnd, turnVars, finalVars, disabled, messageTs, posted, writes,
                   sending, activity, toldVars, bounds>>

(* The attachments are fetched, which may throw; a message that says       *)
(* nothing starts no turn.                                                 *)
PrepareTurn ==
    /\ stage = "preparing" /\ HandlerFree
    /\ \/ stage' = "streaming" /\ UNCHANGED <<agentText, turnEnd>>
       \/ stage' = "failing" /\ UNCHANGED <<agentText, turnEnd>>
       \/ stage' = "closing" /\ agentText' = TRUE /\ turnEnd' = "normally"
    /\ UNCHANGED <<client, mention, task, result, attempted, tools, started, errorPosted, recovery,
                   finalVars, activityVars, toldVars, bounds>>

-----------------------------------------------------------------------------
(* The events of the turn.                                                 *)

Event == stage = "streaming" /\ HandlerFree /\ bounds.events < MaxEvents /\ bounds' = [bounds EXCEPT !.events = @ + 1]

RecordTool == ~finalized /\ tools' = TRUE /\ UNCHANGED <<agentText, recovery>>

(* A Git plan that must be prepared again.                                 *)
AskAgain == recovery' = TRUE /\ UNCHANGED <<agentText, tools>>

(* The message is updated at most once in thirty seconds.                  *)
ProjectProgress ==
    /\ Event /\ started' = TRUE
    /\ \/ agentText' = TRUE /\ UNCHANGED <<tools, recovery>>
       \/ RecordTool
       \/ AskAgain
    /\ \/ Call("event") /\ UNCHANGED armed
       \/ /\ messageTs /\ recovery' = recovery /\ UNCHANGED <<task, result, writes>>
          /\ armed' = (~finalized /\ ~disabled)
    /\ UNCHANGED <<client, mention, stage, attempted, turnEnd, errorPosted, finalVars, disabled, messageTs,
                   posted, sending, activity, toldVars>>

(* An error of the agent: the activity message first, and when that write  *)
(* fails the error is told nowhere.                                        *)
ProjectError ==
    /\ Event /\ errorPosted' = TRUE /\ Call("error")
    /\ UNCHANGED <<client, mention, stage, attempted, turnEnd, agentText, tools, started, recovery, finalVars,
                   disabled, messageTs, posted, sending, armed, activity, toldVars>>

TellError ==
    /\ task = "error" /\ result \in {"ok", "failed"}
    /\ IF result = "ok" THEN Call("error told") ELSE Done /\ UNCHANGED writes
    /\ UNCHANGED <<client, mention, stage, attempted, turnEnd, turnVars, finalVars, disabled, messageTs,
                   posted, sending, armed, activity, toldVars, bounds>>

(* An image that could not be uploaded.                                    *)
ProjectAttachment ==
    /\ Event /\ started' = TRUE /\ Call("attachment")
    /\ UNCHANGED <<client, mention, stage, attempted, turnEnd, agentText, tools, errorPosted, recovery,
                   finalVars, disabled, messageTs, posted, sending, armed, activity, toldVars>>

EventProjected ==
    /\ Projected({"event", "error told", "attachment"})
    /\ UNCHANGED <<client, mention, stage, attempted, turnEnd, turnVars, finalVars, disabled, messageTs,
                   posted, writes, sending, activity, toldVars, bounds>>

(* The stream ends, or throws.  A continuation that throws is abandoned:   *)
(* the writes are waited for, and the raw result is posted.                *)
TurnEnds ==
    /\ stage = "streaming" /\ HandlerFree /\ turnEnd' = "normally" /\ stage' = "closing"
    /\ UNCHANGED <<client, mention, task, result, attempted, turnVars, finalVars, activityVars, toldVars, bounds>>

TurnThrows ==
    /\ stage = "streaming" /\ HandlerFree /\ UNCHANGED <<left, published>>
    /\ turnEnd' \in {"with an error"} \cup (IF client = "continuation" THEN {"handled already"} ELSE {})
    /\ stage' = CASE client = "message" -> "failing" [] client = "delegation" -> "closing" [] OTHER -> "completing"
    /\ IF client = "continuation"
       THEN finalized' = TRUE /\ armed' = FALSE /\ Call("abandon")
       ELSE UNCHANGED <<finalized, armed, task, result, writes>>
    /\ UNCHANGED <<client, mention, attempted, turnVars, disabled, messageTs, posted, sending, activity,
                   toldVars, bounds>>

-----------------------------------------------------------------------------
(* The handler of a message projects what went wrong, or posts it itself.  *)

ProjectFailure ==
    /\ stage = "failing" /\ HandlerFree /\ errorPosted' = TRUE /\ Call("failure")
    /\ turnEnd' = "with an error"
    /\ UNCHANGED <<client, mention, stage, attempted, agentText, tools, started, recovery, finalVars,
                   disabled, messageTs, posted, sending, armed, activity, toldVars, bounds>>

TellFailure ==
    /\ \/ Returned("failure", "ok") /\ Call("failure told")
       \/ task \in {"failure", "failure told"} /\ result = "failed" /\ Call("raw")
    /\ UNCHANGED <<client, mention, stage, attempted, turnEnd, turnVars, finalVars, disabled, messageTs,
                   posted, sending, armed, activity, toldVars, bounds>>

FailureTold ==
    /\ Returned("failure told", "ok") \/ (task = "raw" /\ result \in {"ok", "failed"})
    /\ Done /\ armed' = IF task = "raw" THEN armed ELSE Beating
    /\ stage' = IF stage = "failing" THEN "closing" ELSE "over"
    /\ UNCHANGED <<client, mention, attempted, turnEnd, turnVars, finalVars, disabled, messageTs, posted,
                   writes, sending, activity, toldVars, bounds>>

-----------------------------------------------------------------------------
(* complete: the heartbeat is cancelled and the progress finalized first.  *)

BeginCompletion ==
    /\ stage = "closing" /\ HandlerFree
    /\ IF ~attempted
       THEN stage' = "over" /\ UNCHANGED <<finalized, armed, task, result, writes>>
       ELSE /\ stage' = "completing" /\ finalized' = TRUE /\ armed' = FALSE
            /\ IF mention \/ ~disabled THEN Call(IF mention THEN "collapse" ELSE "primary")
               ELSE UNCHANGED <<task, result, writes>>
    /\ UNCHANGED <<client, mention, attempted, turnEnd, turnVars, left, published, disabled, messageTs,
                   posted, sending, activity, toldVars, bounds>>

(* How many messages the answer has.                                       *)
Chunks == IF agentText THEN 1..(IF client = "continuation" THEN 1 ELSE MaxChunks) ELSE {1}

(* Mutant of ActivityCompleted (no code): an error suppresses the answer   *)
(* of a turn that has one.                                                 *)
ErrorIsTheAnswer ==
    /\ \/ task = "collapse" /\ result \in {"ok", "failed"}
          /\ IF errorPosted THEN left' = 0 ELSE left' \in Chunks
       \/ Returned("primary", "ok") /\ left' \in {c - 1 : c \in Chunks}
    /\ published' = (left' = 0) /\ Done
    /\ UNCHANGED <<client, mention, stage, attempted, turnEnd, turnVars, finalized, activityVars, toldVars, bounds>>

(* An error that was told is the answer of a turn that has no text.        *)
ActivityCompleted ==
    /\ \/ task = "collapse" /\ result \in {"ok", "failed"}
          /\ IF errorPosted /\ ~agentText THEN left' = 0 ELSE left' \in Chunks
       \/ Returned("primary", "ok") /\ left' \in {c - 1 : c \in Chunks}
    /\ published' = (left' = 0) /\ Done
    /\ UNCHANGED <<client, mention, stage, attempted, turnEnd, turnVars, finalized, activityVars, toldVars, bounds>>

(* The next message of the answer, the words on the plan that is to be     *)
(* prepared again, or the end.  Of a visit, the two channels are told that *)
(* it is over.                                                             *)
PublishNext ==
    /\ stage = "completing" /\ HandlerFree
    /\ CASE left > 0 -> Call("chunk") /\ UNCHANGED stage
         [] left = 0 /\ published /\ recovery -> Call("recovery") /\ UNCHANGED stage
         [] OTHER -> IF client = "delegation" THEN Call("notice") /\ UNCHANGED stage
                     ELSE stage' = "over" /\ UNCHANGED <<task, result, writes>>
    /\ UNCHANGED <<client, mention, attempted, turnEnd, turnVars, finalVars, disabled, messageTs, posted,
                   sending, armed, activity, toldVars, bounds>>

MessagePublished ==
    /\ task \in {"chunk", "recovery"} /\ result = "ok" /\ Done
    /\ left' = (IF task = "chunk" THEN left - 1 ELSE left) /\ published' = (left' = 0)
    /\ recovery' = (recovery /\ task # "recovery")
    /\ UNCHANGED <<client, mention, stage, attempted, turnEnd, agentText, tools, started, errorPosted,
                   finalized, activityVars, toldVars, bounds>>

(* complete throws.  A message is left as it is; a continuation whose      *)
(* answer is not published falls back to the raw result, for which the     *)
(* handler also waits after abandon.                                       *)
CompletionFails ==
    /\ \/ task \in {"primary", "chunk", "recovery"} /\ result = "failed"
       \/ task = "abandon" /\ result = "ok"
    /\ CASE client = "delegation" -> Call("notice") /\ UNCHANGED stage
         [] client = "continuation" /\ ~published /\ turnEnd # "handled already" ->
              Call("raw") /\ UNCHANGED stage
         [] OTHER -> stage' = "over" /\ Done /\ UNCHANGED writes
    /\ UNCHANGED <<client, mention, attempted, turnEnd, turnVars, finalVars, disabled, messageTs, posted,
                   sending, armed, activity, toldVars, bounds>>

VisitNoticed ==
    /\ task = "notice" /\ result \in {"ok", "failed"} /\ Done /\ stage' = "over"
    /\ UNCHANGED <<client, mention, attempted, turnEnd, turnVars, finalVars, activityVars, toldVars, bounds>>

ProjectionNext ==
    \/ WriteBegins \/ WriteTaken \/ WriteFails \/ HeartbeatFires \/ PostEnds
    \/ AcceptMessage \/ MessageAccepted \/ PrepareTurn
    \/ ProjectProgress \/ ProjectError \/ TellError \/ ProjectAttachment \/ EventProjected
    \/ TurnEnds \/ TurnThrows \/ ProjectFailure \/ TellFailure \/ FailureTold
    \/ BeginCompletion \/ ActivityCompleted \/ PublishNext \/ MessagePublished \/ CompletionFails
    \/ VisitNoticed

ProjectionSpec == ProjectionInit /\ [][ProjectionNext]_projectionVars

-----------------------------------------------------------------------------
(* Properties.                                                             *)

(* Of a turn that ended normally with an answer, a person reads all of it  *)
(* unless a call that carried a part of it failed, be the activity message *)
(* as it may: the answer is a message of its own, or the fallback, or the  *)
(* activity message, which the projection gives up together with the       *)
(* answer when its text is refused as too long.  A turn that threw is told *)
(* too.                                                                    *)
TurnIsTold ==
    stage = "over" /\ ~lost /\ (mention \/ ~disabled) =>
        /\ turnEnd = "normally" /\ agentText => published /\ (activity = "final" \/ "chunk" \in shown)
        /\ turnEnd = "with an error" => shown \cap {"failure told", "raw", "notice"} # {}
=============================================================================

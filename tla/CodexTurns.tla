----------------------------- MODULE CodexTurns -----------------------------
(***************************************************************************)
(* CodexAdapter.sendMessage (adapters/codex/adapter.ts) for one session:   *)
(* the turns ShowTalk starts on a Codex thread that the Codex app may be   *)
(* using as well, seen through the app-server client.                      *)
(*                                                                         *)
(* A line from the app-server is handled at once, a response only when its *)
(* promise continuation runs, so notifications and requests of a turn may  *)
(* be handled before sendMessage knows the turn's id.  It learns the id    *)
(* from the answer to turn/start or from a notification that names its own *)
(* clientUserMessageId; until then it keeps what it cannot attribute.      *)
(* The last notification of a turn may never come: a watchdog asks.        *)
(***************************************************************************)
EXTENDS Naturals, FiniteSets

CONSTANTS
    MaxSends,       \* bound on the messages sent to the session
    Calls,          \* requests the app-server may send (approvals, questions)
    MaxTries        \* terminalWatchdogMaxRetries

ASSUME SendBoundsAssumption == MaxSends \in Nat \ {0} /\ MaxTries \in Nat \ {0}

Foreign == 0        \* a turn the Codex app started on the same thread
TurnIds == 0..MaxSends    \* the n-th message makes the n-th turn
NoTurn == MaxSends + 1

VARIABLES
    sendStep,       \* where sendMessage is
    sendNo,         \* messages sent so far; the last one's turn
    turnStart,      \* the promise of turn/start: none, pending, ok, error
    ownedTurn,      \* sendMessage's ownedTurnId
    activeTurn,     \* #activeTurns
    completing,     \* completingTurnId: completeTurn is suspended
    ended,          \* "no", "terminal", "failed"
    runningSession, \* #runningSessions
    eventQueue,     \* the AsyncEventQueue: none, open, closed, failed
    kept,           \* deferredNotifications
    call,           \* request -> what became of it
    callTurn,       \* request -> its turn
    tries,          \* failed reads of the watchdog, or attempts to stop
    transportFailed,    \* #transportFailed
    serverTurn,     \* turn -> none, asked, active, over, at the app-server
    lateClaim,      \* history: a turn was claimed after it had ended
    touched,        \* history: turns whose events were shown, or interrupted
    refusedEarly    \* history: own turns one of whose requests was refused

codexVars == <<sendStep, sendNo, turnStart, ownedTurn, activeTurn, completing, ended,
               runningSession, eventQueue, kept, call, callTurn, tries, transportFailed,
               serverTurn, lateClaim, touched, refusedEarly>>
adapterVars == <<sendStep, sendNo, turnStart, ownedTurn, activeTurn, completing, ended,
                 runningSession, eventQueue, kept, tries, transportFailed, lateClaim>>
callVars == <<call, callTurn, refusedEarly>>

(* Type invariant of the adapter, the app-server and the requests.         *)
CodexTypeOK ==
    /\ sendStep \in {"idle", "prepare", "start", "stream", "fail", "leave", "finish"}
    /\ sendNo \in 0..MaxSends
    /\ turnStart \in {"none", "pending", "ok", "error"}
    /\ {ownedTurn, activeTurn, completing} \subseteq TurnIds \cup {NoTurn}
    /\ ended \in {"no", "terminal", "failed"}
    /\ {runningSession, transportFailed, lateClaim} \subseteq BOOLEAN
    /\ eventQueue \in {"none", "open", "closed", "failed"}
    /\ kept \subseteq TurnIds \X {"item", "completed"}
    /\ call \in [Calls -> {"none", "deferred", "pending", "answered", "refused", "gone"}]
    /\ callTurn \in [Calls -> TurnIds]
    /\ tries \in 0..MaxTries
    /\ serverTurn \in [TurnIds -> {"none", "asked", "active", "over"}]
    /\ touched \subseteq TurnIds /\ refusedEarly \subseteq TurnIds

CodexInit ==
    /\ sendStep = "idle" /\ sendNo = 0 /\ turnStart = "none"
    /\ ownedTurn = NoTurn /\ activeTurn = NoTurn /\ completing = NoTurn
    /\ ended = "terminal" /\ runningSession = FALSE /\ eventQueue = "none"
    /\ kept = {} /\ call = [c \in Calls |-> "none"] /\ callTurn = [c \in Calls |-> Foreign]
    /\ tries = 0 /\ transportFailed = FALSE
    /\ serverTurn = [t \in TurnIds |-> "none"]
    /\ lateClaim = FALSE /\ touched = {} /\ refusedEarly = {}

-----------------------------------------------------------------------------

ThreadActive == \E t \in TurnIds : serverTurn[t] = "active"
Open(c) == call[c] \in {"deferred", "pending"}

(* removePendingApprovals, removePendingUserInputs: no answer is sent;     *)
(* those still deferred are left.                                          *)
RemovePending ==
    call' = [c \in Calls |-> IF call[c] = "pending" THEN "gone" ELSE call[c]]

(* ... and rejectDeferredServerRequests, with an error.                    *)
DropCalls ==
    call' = [c \in Calls |-> CASE call[c] = "pending" -> "gone"
                               [] call[c] = "deferred" -> "refused"
                               [] OTHER -> call[c]]

(* rejectDeferredServerRequestsForTurn: the turn has completed.            *)
RejectDeferred(ofTurns) ==
    call' = [c \in Calls |-> IF call[c] = "deferred" /\ callTurn[c] \in ofTurns
                               THEN "refused" ELSE call[c]]

(* flushDeferredServerRequests, once the turn is known to be t.            *)
FlushCalls(t) ==
    call' = [c \in Calls |-> IF call[c] # "deferred" THEN call[c]
                             ELSE IF callTurn[c] = t THEN "pending" ELSE "refused"]

(* One at a time: its caller holds the turn lease of the Koe until the     *)
(* stream of events has ended.                                             *)
SendMessage ==
    /\ sendStep = "idle" /\ ~transportFailed /\ ~runningSession
    /\ sendNo < MaxSends
    /\ sendNo' = sendNo + 1 /\ runningSession' = TRUE /\ sendStep' = "prepare"
    /\ UNCHANGED <<turnStart, ownedTurn, activeTurn, completing, ended, eventQueue, kept,
                   tries, transportFailed, serverTurn, lateClaim, touched>>
    /\ UNCHANGED callVars

(* prepareSessionForTurn saw the thread idle; the listener is registered   *)
(* and turn/start is written.                                              *)
StartCodexTurn ==
    /\ sendStep = "prepare" /\ ~transportFailed /\ ~ThreadActive
    /\ sendStep' = "start" /\ turnStart' = "pending"
    /\ ownedTurn' = NoTurn /\ completing' = NoTurn /\ ended' = "no"
    /\ eventQueue' = "open" /\ kept' = {} /\ tries' = 0
    /\ serverTurn' = [serverTurn EXCEPT ![sendNo] = "asked"]
    /\ UNCHANGED <<sendNo, activeTurn, runningSession, transportFailed, lateClaim, touched>>
    /\ UNCHANGED callVars

(* The thread stayed busy with another client, or could not be read.       *)
PrepareFails ==
    /\ sendStep = "prepare"
    /\ sendStep' = "idle" /\ runningSession' = FALSE
    /\ UNCHANGED <<sendNo, turnStart, ownedTurn, activeTurn, completing, ended, eventQueue,
                   kept, tries, transportFailed, serverTurn, lateClaim, touched>>
    /\ UNCHANGED callVars

-----------------------------------------------------------------------------

(* What handling the notifications in `notes` does once the owned turn is  *)
(* t and #activeTurns agrees: the others are dropped, events go to an open *)
(* queue, and a completion is admitted once.                               *)
Handle(notes, t) ==
    /\ touched' = IF eventQueue = "open" /\ <<t, "item">> \in notes
                    THEN touched \cup {t} ELSE touched
    /\ completing' = IF /\ <<t, "completed">> \in notes
                        /\ ended = "no" /\ completing = NoTurn
                        /\ activeTurn' = t
                       THEN t ELSE completing

(* A turn/ or item/ notification, handled as it arrives.  `mine` says that *)
(* it carries the clientUserMessageId of this message.  (Those that come   *)
(* while finally runs change nothing: the turn is known and not active.)   *)
ProcessNotification(t, kind, mine) ==
    /\ sendStep \in {"start", "stream", "fail", "leave"} /\ ~transportFailed
    /\ serverTurn[t] = IF kind = "completed" THEN "over" ELSE "active"
    /\ mine => t = sendNo
    /\ \/ /\ ownedTurn = NoTurn /\ mine
          /\ ownedTurn' = t /\ activeTurn' = t /\ kept' = {}
          /\ Handle(kept \cup {<<t, kind>>}, t)
          /\ IF completing' = NoTurn THEN FlushCalls(t) ELSE RejectDeferred({t})
       \/ /\ ownedTurn = NoTurn /\ ~mine
          /\ kept' = kept \cup {<<t, kind>>}
          /\ UNCHANGED <<ownedTurn, activeTurn, completing, touched, call>>
       \/ /\ ownedTurn # NoTurn
          /\ UNCHANGED <<ownedTurn, activeTurn, kept, call>>
          /\ IF t = ownedTurn THEN Handle({<<t, kind>>}, t) ELSE UNCHANGED <<completing, touched>>
    /\ UNCHANGED <<sendStep, sendNo, turnStart, ended, runningSession, eventQueue, callTurn,
                   tries, transportFailed, serverTurn, lateClaim, refusedEarly>>

(* completeTurn after its first await: everything else is synchronous.     *)
CompleteTurn ==
    /\ completing # NoTurn
    /\ completing' = NoTurn /\ activeTurn' = NoTurn
    /\ ended' = "terminal" /\ runningSession' = FALSE
    /\ eventQueue' = IF eventQueue = "open" THEN "closed" ELSE eventQueue
    /\ RemovePending
    /\ UNCHANGED <<sendStep, sendNo, turnStart, ownedTurn, kept, callTurn, tries,
                   transportFailed, serverTurn, lateClaim, touched, refusedEarly>>

(* The continuation of `await startTurn`: the answer names the turn, which *)
(* may have been claimed, and may have ended, meanwhile.                   *)
TurnStarted ==
    /\ sendStep = "start" /\ turnStart = "ok"
    /\ sendStep' = "stream" /\ turnStart' = "none"
    /\ ownedTurn' = sendNo /\ activeTurn' = sendNo
    /\ lateClaim' = (lateClaim \/ ended = "terminal")
    /\ IF ended = "no"
         THEN /\ Handle(kept, sendNo) /\ kept' = {}
              /\ IF completing' = NoTurn THEN FlushCalls(sendNo) ELSE RejectDeferred(TurnIds)
         ELSE UNCHANGED <<completing, touched, kept, call>>
    /\ UNCHANGED <<sendNo, ended, runningSession, eventQueue, callTurn, tries,
                   transportFailed, serverTurn, refusedEarly>>

TurnStartFailed ==
    /\ sendStep = "start" /\ turnStart = "error"
    /\ sendStep' = "fail" /\ turnStart' = "none" /\ tries' = 0
    /\ UNCHANGED <<sendNo, ownedTurn, activeTurn, completing, ended, runningSession,
                   eventQueue, kept, transportFailed, serverTurn, lateClaim, touched>>
    /\ UNCHANGED callVars

(* The consumer reads the queue to its end, or its error, or goes away.    *)
StreamEnds ==
    /\ sendStep = "stream"
    /\ sendStep' = CASE eventQueue = "failed" -> "fail"
                     [] ended = "terminal" -> "finish"
                     [] OTHER -> "leave"
    /\ tries' = 0
    /\ UNCHANGED <<sendNo, turnStart, ownedTurn, activeTurn, completing, ended,
                   runningSession, eventQueue, kept, transportFailed, serverTurn, lateClaim,
                   touched>>
    /\ UNCHANGED callVars

(* The queue overflows.                                                    *)
QueueFails ==
    /\ sendStep \in {"start", "stream"} /\ eventQueue = "open"
    /\ eventQueue' = "failed"
    /\ UNCHANGED <<sendStep, sendNo, turnStart, ownedTurn, activeTurn, completing, ended,
                   runningSession, kept, tries, transportFailed, serverTurn, lateClaim,
                   touched>>
    /\ UNCHANGED callVars

-----------------------------------------------------------------------------

(* client.close and the close listener, failActiveStreams: the app-server  *)
(* and all its turns are gone.                                             *)
FailActiveStreams ==
    /\ transportFailed' = TRUE
    /\ activeTurn' = NoTurn /\ runningSession' = FALSE
    /\ IF eventQueue = "open" THEN eventQueue' \in {"closed", "failed"} ELSE UNCHANGED eventQueue
    /\ serverTurn' = [t \in TurnIds |-> IF serverTurn[t] = "none" THEN "none" ELSE "over"]
    /\ DropCalls

(* catch, and finally of a consumer that went away.                        *)
Stopped ==
    /\ sendStep' = "finish"
    /\ ended' = IF sendStep = "fail" THEN "failed" ELSE ended
    /\ activeTurn' = NoTurn

(* Mutant of InterruptKnown (no code): whatever is active is interrupted.  *)
InterruptAny ==
    /\ sendStep \in {"fail", "leave"} /\ ~transportFailed
    /\ \E t \in TurnIds :
          /\ serverTurn[t] = "active"
          /\ serverTurn' = [serverTurn EXCEPT ![t] = "over"]
          /\ touched' = touched \cup {t}
    /\ Stopped
    /\ runningSession' = (runningSession /\ sendStep # "fail")
    /\ UNCHANGED <<sendNo, turnStart, ownedTurn, completing, eventQueue, kept, tries,
                   transportFailed, lateClaim>>
    /\ UNCHANGED callVars

(* reconcileAndInterruptAmbiguousTurn: the turn the adapter knows of is    *)
(* interrupted; the app-server accepts that for a turn that has ended, too.*)
InterruptKnown ==
    /\ sendStep \in {"fail", "leave"} /\ ~transportFailed
    /\ activeTurn # NoTurn
    /\ serverTurn[activeTurn] # "asked"
    /\ serverTurn' = [serverTurn EXCEPT ![activeTurn] = "over"]
    /\ touched' = touched \cup {activeTurn}
    /\ Stopped
    /\ runningSession' = (runningSession /\ sendStep # "fail")
    /\ UNCHANGED <<sendNo, turnStart, ownedTurn, completing, eventQueue, kept, tries,
                   transportFailed, lateClaim>>
    /\ UNCHANGED callVars

(* Mutant of ThreadIsIdle (no code): a turn/start that failed is taken for *)
(* one that never began.                                                   *)
TakenForIdle ==
    /\ sendStep \in {"fail", "leave"} /\ activeTurn = NoTurn
    /\ Stopped
    /\ runningSession' = (runningSession /\ sendStep # "fail")
    /\ UNCHANGED <<sendNo, turnStart, ownedTurn, completing, eventQueue, kept, tries,
                   transportFailed, serverTurn, lateClaim, touched>>
    /\ UNCHANGED callVars

(* Otherwise the thread is read; the app-server handles requests in order, *)
(* so it has taken up an earlier turn/start.                               *)
ThreadIsIdle ==
    /\ sendStep \in {"fail", "leave"}
    /\ transportFailed \/ (~ThreadActive /\ serverTurn[sendNo] # "asked")
    /\ Stopped
    /\ runningSession' = (runningSession /\ sendStep # "fail")
    /\ UNCHANGED <<sendNo, turnStart, ownedTurn, completing, eventQueue, kept, tries,
                   transportFailed, serverTurn, lateClaim, touched>>
    /\ UNCHANGED callVars

(* The turn known to be active is interrupted for a human (or the call     *)
(* fails); how it ends is seen like any other end.                         *)
Interrupt ==
    /\ activeTurn # NoTurn /\ ~transportFailed /\ serverTurn[activeTurn] = "active"
    /\ serverTurn' = [serverTurn EXCEPT ![activeTurn] = "over"]
    /\ touched' = touched \cup {activeTurn}
    /\ UNCHANGED adapterVars /\ UNCHANGED callVars

(* Neither worked: after three attempts the transport is closed.           *)
StopAttemptFails ==
    /\ sendStep \in {"fail", "leave"} /\ ~transportFailed
    /\ IF tries < 2
         THEN /\ tries' = tries + 1
              /\ UNCHANGED <<sendStep, ended, activeTurn, transportFailed, runningSession,
                             eventQueue, serverTurn, call>>
         ELSE FailActiveStreams /\ sendStep' = "finish" /\ UNCHANGED tries
              /\ ended' = IF sendStep = "fail" THEN "failed" ELSE ended
    /\ UNCHANGED <<sendNo, turnStart, ownedTurn, completing, kept, callTurn, lateClaim,
                   touched, refusedEarly>>

(* The rest of finally; #activeTurns is left as it is.  finally and the    *)
(* completion wait for the same settlements (#waitForSessionSystemRejec-   *)
(* tions), and the completion, which asked first, goes on first.  Its other*)
(* wait, for a thread to be read after an approved Git operation, is not   *)
(* modelled here: see README.                                              *)
FinishSend ==
    /\ sendStep = "finish" /\ completing = NoTurn
    /\ sendStep' = "idle" /\ runningSession' = FALSE /\ eventQueue' = "none"
    /\ ownedTurn' = NoTurn /\ kept' = {} /\ tries' = 0
    /\ DropCalls
    /\ UNCHANGED <<sendNo, turnStart, activeTurn, completing, ended, callTurn,
                   transportFailed, serverTurn, lateClaim, touched, refusedEarly>>

(* shutdown, or the app-server's end.                                      *)
TransportCloses ==
    /\ ~transportFailed
    /\ FailActiveStreams
    /\ turnStart' = IF turnStart = "pending" THEN "error" ELSE turnStart
    /\ UNCHANGED <<sendStep, sendNo, ownedTurn, completing, ended, kept, callTurn, tries,
                   lateClaim, touched, refusedEarly>>

-----------------------------------------------------------------------------

Watching ==
    /\ sendStep = "stream" /\ ended = "no" /\ completing = NoTurn
    /\ ~transportFailed /\ activeTurn = ownedTurn

(* Mutant of WatchTurn (no code): the timer is not armed again after a read*)
(* that says nothing new.                                                  *)
WatchOnce ==
    /\ Watching /\ tries = 0 /\ serverTurn[ownedTurn] = "active"
    /\ tries' = 1
    /\ UNCHANGED <<sendStep, sendNo, turnStart, ownedTurn, activeTurn, completing, ended,
                   runningSession, eventQueue, kept, transportFailed, serverTurn, lateClaim,
                   touched>>
    /\ UNCHANGED callVars

(* The watchdog reads the turn (the page of turns, or the thread).         *)
WatchTurn ==
    /\ Watching
    /\ IF serverTurn[ownedTurn] = "over"
         THEN completing' = ownedTurn /\ UNCHANGED tries
         ELSE tries' = 0 /\ UNCHANGED completing
    /\ UNCHANGED <<sendStep, sendNo, turnStart, ownedTurn, activeTurn, ended, runningSession,
                   eventQueue, kept, transportFailed, serverTurn, lateClaim, touched>>
    /\ UNCHANGED callVars

WatchFails ==
    /\ Watching /\ tries + 1 < MaxTries
    /\ tries' = tries + 1
    /\ UNCHANGED <<sendStep, sendNo, turnStart, ownedTurn, activeTurn, completing, ended,
                   runningSession, eventQueue, kept, transportFailed, serverTurn, lateClaim,
                   touched>>
    /\ UNCHANGED callVars

(* The last retry: the turn is interrupted, or the transport closed, and   *)
(* the stream ends with an error event.                                    *)
WatchGivesUp ==
    /\ Watching /\ tries + 1 = MaxTries
    /\ \/ /\ touched' = touched \cup {ownedTurn}
          /\ serverTurn' = [serverTurn EXCEPT ![ownedTurn] = "over"]
          /\ activeTurn' = NoTurn /\ runningSession' = FALSE
          /\ eventQueue' = IF eventQueue = "open" THEN "closed" ELSE eventQueue
          /\ RemovePending
          /\ UNCHANGED transportFailed
       \/ FailActiveStreams /\ UNCHANGED touched
    /\ ended' = "terminal"
    /\ UNCHANGED <<sendStep, sendNo, turnStart, ownedTurn, completing, kept, callTurn, tries,
                   lateClaim, refusedEarly>>

-----------------------------------------------------------------------------

(* A request of some active turn: kept while no turn is known, refused     *)
(* outside the known turn, else shown as a card.                           *)
HandleServerRequest(c) ==
    /\ call[c] = "none" /\ ~transportFailed
    /\ \E t \in TurnIds :
          /\ serverTurn[t] = "active"
          /\ callTurn' = [callTurn EXCEPT ![c] = t]
          /\ call' = [call EXCEPT ![c] =
                CASE eventQueue # "none" /\ activeTurn = NoTurn /\ runningSession -> "deferred"
                  [] eventQueue # "none" /\ activeTurn = t -> "pending"
                  [] OTHER -> "refused"]
          /\ refusedEarly' =
                IF call'[c] = "refused" /\ t = sendNo /\ sendStep \in {"start", "stream"}
                   /\ ended = "no"
                  THEN refusedEarly \cup {t} ELSE refusedEarly
    /\ UNCHANGED adapterVars /\ UNCHANGED <<serverTurn, touched>>

(* The human answers, or the half hour is over; or another client of the   *)
(* app-server has answered (serverRequest/resolved).                       *)
SettleCall(c) ==
    /\ \/ call[c] = "pending" /\ call' = [call EXCEPT ![c] = "answered"]
       \/ Open(c) /\ serverTurn[callTurn[c]] = "active" /\ call' = [call EXCEPT ![c] = "gone"]
    /\ UNCHANGED <<callTurn, refusedEarly, serverTurn, touched>> /\ UNCHANGED adapterVars

-----------------------------------------------------------------------------

(* The app-server and the Codex app.                                       *)
ServerStartsTurn ==
    /\ sendNo > 0 /\ serverTurn[sendNo] = "asked" /\ ~ThreadActive
    /\ serverTurn' = [serverTurn EXCEPT ![sendNo] = "active"]
    /\ UNCHANGED <<touched>> /\ UNCHANGED adapterVars /\ UNCHANGED callVars

(* turn/start is answered, refused (another turn is active), or times out. *)
ServerAnswersStart ==
    /\ turnStart = "pending"
    /\ \/ serverTurn[sendNo] \in {"active", "over"} /\ turnStart' = "ok" /\ UNCHANGED serverTurn
       \/ /\ serverTurn[sendNo] = "asked" /\ turnStart' = "error"
          /\ serverTurn' = [serverTurn EXCEPT ![sendNo] = "none"]
       \/ turnStart' = "error" /\ UNCHANGED serverTurn
    /\ UNCHANGED <<sendStep, sendNo, ownedTurn, activeTurn, completing, ended,
                   runningSession, eventQueue, kept, tries, transportFailed, lateClaim,
                   touched>>
    /\ UNCHANGED callVars

ServerEndsTurn(t) ==
    /\ serverTurn[t] = "active"
    /\ serverTurn' = [serverTurn EXCEPT ![t] = "over"]
    /\ UNCHANGED touched /\ UNCHANGED adapterVars /\ UNCHANGED callVars

CodexAppStartsTurn ==
    /\ serverTurn[Foreign] = "none" /\ ~ThreadActive /\ ~transportFailed
    /\ serverTurn' = [serverTurn EXCEPT ![Foreign] = "active"]
    /\ UNCHANGED touched /\ UNCHANGED adapterVars /\ UNCHANGED callVars

Server ==
    \/ ServerStartsTurn \/ ServerAnswersStart \/ CodexAppStartsTurn
    \/ \E t \in TurnIds : ServerEndsTurn(t)

StopTurn == InterruptKnown \/ ThreadIsIdle \/ StopAttemptFails
Continue == TurnStarted \/ TurnStartFailed \/ CompleteTurn \/ StopTurn \/ FinishSend

CodexNext ==
    \/ SendMessage \/ StartCodexTurn \/ PrepareFails \/ StreamEnds \/ QueueFails
    \/ Continue \/ WatchTurn \/ WatchFails \/ WatchGivesUp \/ TransportCloses \/ Interrupt
    \/ \E t \in TurnIds, kind \in {"item", "completed"}, mine \in BOOLEAN :
          ProcessNotification(t, kind, mine)
    \/ \E c \in Calls : HandleServerRequest(c) \/ SettleCall(c)
    \/ Server

(* Continuations run, requests of the adapter are answered or time out,    *)
(* turns end and the watchdog's timer fires; no notification is sure to    *)
(* come.  A consumer reads a queue that has ended.                         *)
CodexFairness ==
    /\ WF_codexVars(Continue)
    /\ WF_codexVars(StartCodexTurn \/ PrepareFails)
    /\ WF_codexVars(eventQueue # "open" /\ StreamEnds)
    /\ WF_codexVars(ServerStartsTurn \/ ServerAnswersStart)
    /\ \A t \in TurnIds : WF_codexVars(ServerEndsTurn(t))
    /\ WF_codexVars(serverTurn[sendNo] = "over" /\ WatchTurn)

CodexSpec == CodexInit /\ [][CodexNext]_codexVars /\ CodexFairness

-----------------------------------------------------------------------------

(* When sendMessage is over, its turn is over at the app-server, or the    *)
(* app-server is gone: not even an unanswered turn/start, an overflow or a *)
(* consumer that went away leaves a turn running that nobody watches.      *)
(* (A turn claimed after it had ended is the exception: it is taken for    *)
(* the active one by the next message, see the README.)                    *)
NothingLeftRunning ==
    sendStep = "idle" /\ ~lateClaim =>
        \A t \in TurnIds \ {Foreign} : serverTurn[t] # "active"

(* The Codex app's own turn is never shown in Slack and never interrupted, *)
(* although it may start between the read of the thread and turn/start.    *)
ForeignTurnUntouched == Foreign \notin touched

(* ... without the exception: adapter.ts 1834-1835 refuses a request only  *)
(* "outside its exact active turn".                                        *)
OwnRequestIsNotRefused == refusedEarly = {}

(* Every sendMessage ends, although the notification that its turn has     *)
(* completed may be lost.                                                  *)
EverySendEnds == (sendStep # "idle") ~> (sendStep = "idle")
=============================================================================

----------------------------- MODULE ClaudeTurns -----------------------------
(***************************************************************************)
(* ClaudeCodeAdapter (adapters/claude/adapter.ts) for one session: a turn  *)
(* is one query of the Agent SDK, which runs a Claude Code process.  The   *)
(* process asks for tools through a callback that waits until a human, the *)
(* timer, an interrupt, the shutdown or the end of the turn settles the    *)
(* request; what the process and the reader of the events do interleaves   *)
(* with all of these.                                                      *)
(***************************************************************************)
EXTENDS Naturals

CONSTANTS
    MaxQueries,     \* bound on the messages sent to the session
    Asks            \* the tools Claude may ask for (canUseTool)

VARIABLES
    claudeSession,  \* #sessions: none, fresh, started
    transcript,     \* Claude has written the session to its disk
    claudeStep,     \* sendMessage: none, build, read
    queries,        \* messages sent so far
    query,          \* the process: none, running, result, closed
    aborted,        \* the abort signal of the turn
    claudeStatus,   \* #statuses
    awaiting,       \* requests the process waits for
    pendingAsks,    \* #pendingApprovals
    asked,          \* requests made so far
    claudeDown,     \* #shutdown
    stoppedAsks,    \* history: requests open when their turn was stopped
    granted         \* history: requests answered with allow

claudeVars == <<claudeSession, transcript, claudeStep, queries, query, aborted, claudeStatus,
                awaiting, pendingAsks, asked, claudeDown, stoppedAsks, granted>>
askVars == <<awaiting, pendingAsks, asked, stoppedAsks, granted>>
sessionOnly == <<claudeSession, transcript, claudeDown>>

(* Type invariant of the adapter, the process and the requests.            *)
ClaudeTypeOK ==
    /\ claudeSession \in {"none", "fresh", "started"}
    /\ {transcript, aborted, claudeDown} \subseteq BOOLEAN
    /\ claudeStep \in {"none", "build", "read"} /\ queries \in 0..MaxQueries
    /\ query \in {"none", "running", "result", "closed"}
    /\ claudeStatus \in {"idle", "running", "waiting_for_approval", "interrupted"}
    /\ awaiting \subseteq asked /\ pendingAsks \subseteq asked /\ asked \subseteq Asks
    /\ stoppedAsks \subseteq asked /\ granted \subseteq asked

ClaudeInit ==
    /\ claudeSession = "none" /\ transcript = FALSE
    /\ claudeStep = "none" /\ queries = 0 /\ query = "none" /\ aborted = FALSE
    /\ claudeStatus = "idle"
    /\ awaiting = {} /\ pendingAsks = {} /\ asked = {} /\ claudeDown = FALSE
    /\ stoppedAsks = {} /\ granted = {}

-----------------------------------------------------------------------------

(* activeTurns.has: from the start of the query to the end of finally.     *)
ActiveTurn == claudeStep = "read"

(* settle, and the continuation of the callback, which runs next: a turn   *)
(* that still waits goes on, whatever else is pending.                     *)
Settle(requests) ==
    /\ pendingAsks' = pendingAsks \ requests
    /\ awaiting' = awaiting \ requests
    /\ claudeStatus' =
          IF requests # {} /\ ActiveTurn /\ ~aborted /\ claudeStatus = "waiting_for_approval"
            THEN "running" ELSE claudeStatus

(* #cancelPendingApprovals denies all of them.                             *)
CancelPending(status) ==
    /\ awaiting' = awaiting \ pendingAsks /\ pendingAsks' = {}
    /\ stoppedAsks' = stoppedAsks \cup pendingAsks
    /\ claudeStatus' = status
    /\ UNCHANGED <<asked, granted>>

CreateSession ==
    /\ claudeSession = "none" /\ ~claudeDown
    /\ claudeSession' = "fresh"
    /\ UNCHANGED <<transcript, claudeDown, claudeStep, queries, query, aborted, claudeStatus>>
    /\ UNCHANGED askVars

(* A session not known to have started must have a transcript; otherwise   *)
(* it is unavailable and nothing changes.                                  *)
ResumeSession ==
    /\ claudeSession = "fresh" /\ transcript /\ ~claudeDown
    /\ claudeSession' = "started"
    /\ UNCHANGED <<transcript, claudeDown, claudeStep, queries, query, aborted, claudeStatus>>
    /\ UNCHANGED askVars

(* sendMessage up to `await buildUserMessage`; its caller holds the lease  *)
(* of the Koe, so that two never overlap.                                  *)
ClaudeSend ==
    /\ claudeStep = "none" /\ claudeSession # "none" /\ ~claudeDown
    /\ queries < MaxQueries
    /\ claudeStep' = "build" /\ queries' = queries + 1
    /\ UNCHANGED <<query, aborted, claudeStatus>> /\ UNCHANGED <<sessionOnly, askVars>>

(* The images are read (or cannot be) and the process is started.  Neither *)
(* a shutdown nor an interrupt that came meanwhile is looked at.           *)
StartQuery ==
    /\ claudeStep = "build"
    /\ claudeStep' = "read" /\ query' = "running" /\ aborted' = FALSE
    /\ claudeStatus' = "running"
    /\ UNCHANGED queries /\ UNCHANGED <<sessionOnly, askVars>>

BuildFails ==
    /\ claudeStep = "build" /\ claudeStep' = "none"
    /\ UNCHANGED <<queries, query, aborted, claudeStatus>> /\ UNCHANGED <<sessionOnly, askVars>>

-----------------------------------------------------------------------------

(* The first message of the process names the session.                     *)
SystemInit ==
    /\ query = "running" /\ claudeSession # "started"
    /\ transcript' = TRUE /\ claudeSession' \in {claudeSession, "started"}
    /\ UNCHANGED <<claudeDown, claudeStep, queries, query, aborted, claudeStatus>>
    /\ UNCHANGED askVars

(* #canUseTool: denied at once when the turn is aborted; Claude may ask    *)
(* for several tools at a time.                                            *)
CanUseTool(a) ==
    /\ query = "running" /\ a \notin asked
    /\ asked' = asked \cup {a}
    /\ IF aborted
         THEN UNCHANGED <<awaiting, pendingAsks, claudeStatus>>
         ELSE /\ awaiting' = awaiting \cup {a} /\ pendingAsks' = pendingAsks \cup {a}
              /\ claudeStatus' = "waiting_for_approval"
    /\ UNCHANGED <<claudeStep, queries, query, aborted, stoppedAsks, granted>>
    /\ UNCHANGED sessionOnly

(* approve: the request must be pending; what is granted is allowed.       *)
Approve(a) ==
    /\ a \in pendingAsks
    /\ Settle({a})
    /\ granted' \in {granted, granted \cup {a}}
    /\ UNCHANGED <<claudeStep, queries, query, aborted, asked, stoppedAsks>>
    /\ UNCHANGED sessionOnly

(* Mutant of ExpireAsk (no code): the request is forgotten, not denied.    *)
ForgetAsk(a) ==
    /\ a \in pendingAsks
    /\ pendingAsks' = pendingAsks \ {a}
    /\ UNCHANGED <<claudeStep, queries, query, aborted, claudeStatus, awaiting, asked,
                   stoppedAsks, granted>>
    /\ UNCHANGED sessionOnly

(* The timer: an error event, and a denial that interrupts.                *)
ExpireAsk(a) ==
    /\ a \in pendingAsks
    /\ Settle({a})
    /\ UNCHANGED <<claudeStep, queries, query, aborted, asked, stoppedAsks, granted>>
    /\ UNCHANGED sessionOnly

(* interrupt: the process is told to stop, or aborted when that fails.     *)
ClaudeInterrupt ==
    /\ ActiveTurn
    /\ CancelPending("interrupted")
    /\ aborted' \in {aborted, TRUE}
    /\ UNCHANGED <<claudeStep, queries, query>> /\ UNCHANGED sessionOnly

(* shutdown stops the turns that are active, once.                         *)
ClaudeShutdown ==
    /\ ~claudeDown /\ claudeDown' = TRUE
    /\ IF ActiveTurn
         THEN aborted' = TRUE /\ CancelPending(claudeStatus)
         ELSE UNCHANGED <<aborted, claudeStatus>> /\ UNCHANGED askVars
    /\ UNCHANGED <<claudeStep, queries, query, claudeSession, transcript>>

-----------------------------------------------------------------------------

(* The process gives its result once it waits for nothing; its input is    *)
(* closed, and it ends.                                                    *)
QueryResult ==
    /\ query = "running" /\ awaiting = {}
    /\ query' = "result"
    /\ UNCHANGED <<claudeStep, queries, aborted, claudeStatus>> /\ UNCHANGED <<sessionOnly, askVars>>

(* The pump ends: after the result, after an abort, or with an error event *)
(* because the process ended without a result or failed.                   *)
QueryEnds ==
    /\ query \in {"running", "result"}
    /\ query' = "closed"
    /\ UNCHANGED <<claudeStep, queries, aborted, claudeStatus>> /\ UNCHANGED <<sessionOnly, askVars>>

(* Mutant of TurnFinally (no code): what is pending is left to its timer.  *)
FinallyKeepsPending ==
    /\ claudeStep' = "none"
    /\ claudeStatus' = IF claudeStatus = "interrupted" THEN "interrupted" ELSE "idle"
    /\ stoppedAsks' = stoppedAsks \cup pendingAsks
    /\ UNCHANGED <<awaiting, pendingAsks, asked, granted>>

(* finally of sendMessage; an interrupted turn keeps its status.           *)
TurnFinally ==
    /\ claudeStep' = "none"
    /\ CancelPending(IF claudeStatus = "interrupted" THEN "interrupted" ELSE "idle")

(* The reader has had every event.                                         *)
EventsEnd ==
    /\ claudeStep = "read" /\ query = "closed"
    /\ query' = "none"
    /\ TurnFinally
    /\ UNCHANGED <<queries, aborted>> /\ UNCHANGED sessionOnly

(* The reader goes away: the process is aborted and lets go of all it      *)
(* waits for.                                                              *)
StopReading ==
    /\ claudeStep = "read"
    /\ query' = "none" /\ aborted' = TRUE
    /\ TurnFinally
    /\ UNCHANGED queries /\ UNCHANGED sessionOnly

ClaudeNext ==
    \/ CreateSession \/ ResumeSession \/ ClaudeSend \/ StartQuery \/ BuildFails
    \/ SystemInit \/ ClaudeInterrupt \/ ClaudeShutdown
    \/ QueryResult \/ QueryEnds \/ EventsEnd \/ StopReading
    \/ \E a \in Asks : CanUseTool(a) \/ Approve(a) \/ ExpireAsk(a)

(* The images are read or not, the timer fires, and a process that waits   *)
(* for nothing comes to an end; no human is sure to answer.                *)
ClaudeFairness ==
    /\ WF_claudeVars(StartQuery \/ BuildFails)
    /\ \A a \in Asks : WF_claudeVars(ExpireAsk(a))
    /\ WF_claudeVars(QueryResult) /\ WF_claudeVars(query = "result" /\ QueryEnds)
    /\ WF_claudeVars(EventsEnd)

ClaudeSpec == ClaudeInit /\ [][ClaudeNext]_claudeVars /\ ClaudeFairness

-----------------------------------------------------------------------------

(* A tool that was asked for before its turn was interrupted, shut down or *)
(* over is never allowed by a click that comes after it, not even in the   *)
(* next turn of the session.                                               *)
StoppedAskIsNotGranted == [][granted' \ granted \subseteq Asks \ stoppedAsks]_claudeVars

(* Every turn ends although nobody answers what Claude asks: each request  *)
(* is answered by its timer, whatever else settles the others.             *)
EveryQueryEnds == (claudeStep # "none") ~> (claudeStep = "none")
=============================================================================

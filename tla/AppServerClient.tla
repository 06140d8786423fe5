--------------------------- MODULE AppServerClient ---------------------------
(***************************************************************************)
(* The JSON-RPC client of one Koe's `codex app-server` process             *)
(* (adapters/codex/app-server-client.ts): its requests, their timeouts and *)
(* late answers, an answer that waits until it is written, and the end of  *)
(* the process, by itself, by an error of a pipe, or asked for by spawn()  *)
(* or by the runtime.                                                      *)
(*                                                                         *)
(* The server is another program: it answers a request at most once, may   *)
(* end at any time, and may ignore the end of its stdin and SIGTERM.       *)
(***************************************************************************)
EXTENDS Naturals, Sequences, FiniteSets, SequencesExt

CONSTANTS
    AppRequests,    \* requests of the adapter, one RPC id each
    Initialize,     \* the request start() makes first
    MaxTombstones   \* timed-out ids that are remembered: 1,024

ASSUME AppServerAssumption ==
    /\ Initialize \notin AppRequests /\ MaxTombstones \in Nat \ {0}

Rpcs == AppRequests \cup {Initialize}

VARIABLES
    connection,     \* none, starting, ready, or failed: what spawn() came to
    isClosed,       \* #closed
    rpc,            \* request -> idle, waiting, or how its promise was settled
    pendingRpcs,    \* #pending
    timedOutRpcs,   \* #timedOutRequestIds, oldest first
    ask,            \* a request of the server and the answer that drains
    toServer,       \* requests in the child's stdin
    toClient,       \* lines in the child's stdout
    child,          \* up, gone
    ending,         \* #closePromise: none, begun, stdin, term, done
    closers,        \* callers that await close()
    returned        \* callers whose close() has returned

appServerVars == <<connection, isClosed, rpc, pendingRpcs, timedOutRpcs, ask, toServer,
                   toClient, child, ending, closers, returned>>
rpcTables == <<rpc, pendingRpcs, timedOutRpcs>>
childPipes == <<toServer, toClient, child>>
clientState == <<connection, isClosed, ending, closers, returned>>

(* rejected stands for an RPC error and for an answer that is none.        *)
Outcomes == {"result", "rejected", "timeout", "client_closed"}

(* Type invariant of the client's tables and of the pipes.                 *)
AppServerTypeOK ==
    /\ connection \in {"none", "starting", "ready", "failed"}
    /\ isClosed \in BOOLEAN
    /\ rpc \in [Rpcs -> {"idle", "waiting"} \cup Outcomes]
    /\ pendingRpcs \subseteq Rpcs
    /\ ToSet(timedOutRpcs) \subseteq Rpcs /\ Len(timedOutRpcs) <= MaxTombstones
    /\ ask \in {"none", "sent", "shown", "writing", "written", "failed"}
    /\ toServer \subseteq Rpcs
    /\ \A i \in DOMAIN toClient : toClient[i].id \in Rpcs \cup {"ask"}
    /\ child \in {"up", "gone"}
    /\ ending \in {"none", "begun", "stdin", "term", "done"}
    /\ closers \subseteq {"spawn", "runtime"} /\ returned \subseteq closers

AppServerInit ==
    /\ connection = "none" /\ isClosed = FALSE
    /\ rpc = [r \in Rpcs |-> "idle"]
    /\ pendingRpcs = {} /\ timedOutRpcs = <<>>
    /\ ask = "none"
    /\ toServer = {} /\ toClient = <<>> /\ child = "gone"
    /\ ending = "none" /\ closers = {} /\ returned = {}

-----------------------------------------------------------------------------
(* Requests.                                                               *)

SettleRpcs(ids, outcome) == rpc' = [r \in Rpcs |-> IF r \in ids THEN outcome ELSE rpc[r]]

(* spawn() creates the process, and start() asks it to initialize.         *)
Spawn ==
    /\ connection = "none" /\ connection' = "starting"
    /\ child' = "up"
    /\ SettleRpcs({Initialize}, "waiting")
    /\ pendingRpcs' = {Initialize} /\ toServer' = {Initialize}
    /\ UNCHANGED <<isClosed, timedOutRpcs, ask, toClient, ending, closers, returned>>

MakeRequest(r) ==
    /\ connection = "ready" /\ rpc[r] = "idle"
    /\ IF isClosed
       THEN SettleRpcs({r}, "client_closed") /\ UNCHANGED <<pendingRpcs, toServer>>
       ELSE /\ SettleRpcs({r}, "waiting")
            /\ pendingRpcs' = pendingRpcs \cup {r}
            /\ toServer' = IF child = "up" THEN toServer \cup {r} ELSE toServer
    /\ UNCHANGED <<timedOutRpcs, ask, toClient, child, clientState>>

(* #rememberTimedOutRequest drops the oldest beyond its limit.             *)
RequestTimesOut(r) ==
    /\ r \in pendingRpcs
    /\ pendingRpcs' = pendingRpcs \ {r}
    /\ SettleRpcs({r}, "timeout")
    /\ LET all == Append(timedOutRpcs, r) IN
       timedOutRpcs' = IF Len(all) > MaxTombstones THEN Tail(all) ELSE all
    /\ UNCHANGED <<ask, childPipes, clientState>>

(* Five minutes after its timeout an id is forgotten.                      *)
TombstoneExpires ==
    /\ timedOutRpcs # <<>>
    /\ timedOutRpcs' = Tail(timedOutRpcs)
    /\ UNCHANGED <<rpc, pendingRpcs, ask, childPipes, clientState>>

(* #handleLine does not ask whether the client is closed.  A late answer   *)
(* removes its tombstone; one that has none is reported.                   *)
HandleLine ==
    /\ toClient # <<>> /\ toClient' = Tail(toClient)
    /\ LET line == Head(toClient) IN
       \/ /\ line.id = "ask" /\ ask' = "shown"
          /\ UNCHANGED rpcTables
       \/ /\ line.id \in pendingRpcs
          /\ pendingRpcs' = pendingRpcs \ {line.id}
          /\ SettleRpcs({line.id}, line.answer)
          /\ UNCHANGED <<timedOutRpcs, ask>>
       \/ /\ line.id \notin pendingRpcs \cup {"ask"}
          /\ timedOutRpcs' = SelectSeq(timedOutRpcs, LAMBDA r : r # line.id)
          /\ UNCHANGED <<rpc, pendingRpcs, ask>>
    /\ UNCHANGED <<toServer, child, clientState>>

StdinEnded == ending \in {"stdin", "term", "done"} \/ child = "gone"

(* respondToUserInputAndDrain: the write's callback settles the promise.   *)
RespondAndDrain ==
    /\ \/ ask = "shown" /\ ask' = IF StdinEnded THEN "failed" ELSE "writing"
       \/ ask = "writing" /\ child = "up" /\ ask' = "written"
       \/ ask = "writing" /\ child = "gone" /\ ask' = "failed"
    /\ UNCHANGED <<rpcTables, childPipes, clientState>>

-----------------------------------------------------------------------------
(* The server (not this repository's).                                     *)

ServerAnswers(r) ==
    /\ child = "up" /\ r \in toServer /\ toServer' = toServer \ {r}
    /\ \E answer \in {"result", "rejected"} :
          toClient' = Append(toClient, [id |-> r, answer |-> answer])
    /\ UNCHANGED <<rpcTables, ask, child, clientState>>

ServerAsks ==
    /\ child = "up" /\ ask = "none" /\ connection = "ready"
    /\ ask' = "sent"
    /\ toClient' = Append(toClient, [id |-> "ask", answer |-> "none"])
    /\ UNCHANGED <<rpcTables, toServer, child, clientState>>

ServerExits ==
    /\ child = "up" /\ child' = "gone" /\ toServer' = {}
    /\ UNCHANGED <<rpcTables, ask, toClient, clientState>>

-----------------------------------------------------------------------------
(* The end.                                                                *)

(* Mutant of RejectPending (no code): the tables are cleared only.         *)
ForgetPending ==
    /\ pendingRpcs' = {} /\ timedOutRpcs' = <<>>
    /\ UNCHANGED rpc

RejectPending ==
    /\ SettleRpcs(pendingRpcs, "client_closed")
    /\ pendingRpcs' = {} /\ timedOutRpcs' = <<>>

(* Mutant of BeginTransportClose (no code): closed is taken for ended.     *)
TransportIsClosed == ending' = IF isClosed THEN "done" ELSE "begun"

(* #closePromise ??= ...: later callers await the first close.             *)
BeginTransportClose == ending' = IF ending = "none" THEN "begun" ELSE ending

(* #handleTransportError of either pipe, or of a process that cannot be    *)
(* started; #handleTransportClose once the last line has been read.        *)
HandleTransportEnd ==
    /\ connection # "none" /\ ~isClosed /\ isClosed' = TRUE
    /\ \/ child = "gone" /\ toClient = <<>> /\ UNCHANGED child
       \/ child' \in {child, "gone"}
    /\ RejectPending
    /\ BeginTransportClose
    /\ toServer' = IF child' = "gone" THEN {} ELSE toServer
    /\ UNCHANGED <<connection, ask, toClient, closers, returned>>

(* spawn() resolves once the client has notified `initialized`.            *)
Connected ==
    /\ connection = "starting" /\ rpc[Initialize] = "result" /\ ~isClosed
    /\ connection' = "ready"
    /\ UNCHANGED <<isClosed, ending, closers, returned, rpcTables, ask, childPipes>>

CloseClient(caller) ==
    /\ caller \notin closers /\ closers' = closers \cup {caller}
    /\ isClosed' = TRUE
    /\ IF isClosed THEN UNCHANGED rpcTables ELSE RejectPending
    /\ BeginTransportClose
    /\ UNCHANGED <<connection, ask, childPipes, returned>>

(* spawn() closes a client that could not start; shutdownRuntime and the   *)
(* cleanup of createRuntime close those that could.                        *)
SpawnFails ==
    /\ connection = "starting" /\ rpc[Initialize] # "waiting"
    /\ rpc[Initialize] # "result" \/ isClosed
    /\ CloseClient("spawn")

Shutdown == connection = "ready" /\ CloseClient("runtime")

(* ChildProcessTransport.close: each wait ends with the process or after   *)
(* its time, and what SIGKILL reaches is gone before the last one is over. *)
TransportStep ==
    /\ ending \in {"begun", "stdin", "term"}
    /\ \/ child = "gone" /\ ending' = "done" /\ UNCHANGED <<child, toServer>>
       \/ child = "up" /\ ending = "begun" /\ ending' = "stdin" /\ UNCHANGED <<child, toServer>>
       \/ child = "up" /\ ending = "stdin" /\ ending' = "term" /\ UNCHANGED <<child, toServer>>
       \/ child = "up" /\ ending = "term" /\ ending' = "done" /\ child' = "gone" /\ toServer' = {}
    /\ UNCHANGED <<connection, isClosed, closers, returned, rpcTables, ask, toClient>>

CloseReturns(caller) ==
    /\ ending = "done" /\ caller \in closers \ returned
    /\ returned' = returned \cup {caller}
    /\ connection' = IF caller = "spawn" THEN "failed" ELSE connection
    /\ UNCHANGED <<isClosed, ending, closers, rpcTables, ask, childPipes>>

AppServerNext ==
    \/ Spawn
    \/ \E r \in AppRequests : MakeRequest(r)
    \/ \E r \in Rpcs : RequestTimesOut(r) \/ ServerAnswers(r)
    \/ TombstoneExpires \/ HandleLine \/ RespondAndDrain
    \/ ServerAsks \/ ServerExits
    \/ HandleTransportEnd \/ Connected \/ SpawnFails \/ Shutdown \/ TransportStep
    \/ \E c \in {"spawn", "runtime"} : CloseReturns(c)

(* Timers fire, what is awaited goes on, and the end of a pipe is seen;    *)
(* nothing is assumed of the server.  Each of these steps is taken a       *)
(* bounded number of times, so one of them at a time is enough.            *)
AppServerFairness ==
    WF_appServerVars(
        \/ \E r \in Rpcs : RequestTimesOut(r)
        \/ TransportStep \/ SpawnFails
        \/ \E c \in {"spawn", "runtime"} : CloseReturns(c)
        \/ child = "gone" /\ (HandleLine \/ HandleTransportEnd \/ RespondAndDrain))

AppServerSpec == AppServerInit /\ [][AppServerNext]_appServerVars /\ AppServerFairness

-----------------------------------------------------------------------------

(* A close() that has returned leaves no server process behind, whoever    *)
(* began to close the transport and however the server behaves: the state  *)
(* lock is released after it, and the next worker starts another server.   *)
ClosedMeansGone == returned # {} => child = "gone"

(* Every request of the adapter is settled, every answer that waits for    *)
(* its write is settled once the client is closed, and close() returns.    *)
Owed ==
    \/ \E r \in Rpcs : rpc[r] = "waiting"
    \/ ask = "writing" /\ isClosed
    \/ closers # returned
EveryRequestEnds == Owed ~> ~Owed
=============================================================================

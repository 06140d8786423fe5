-------------------------- MODULE RestartReceipts --------------------------
(***************************************************************************)
(* `gateway.restart` as an MCP call (RuntimeMcpService.#executeGateway-    *)
(* Restart) and the receipt that survives the restart it asks for          *)
(* (state/gateway-restart-replay-guard.ts).                                *)
(*                                                                         *)
(* A call is approved by a human, its receipt saved, its answer sent, and  *)
(* only when the HTTP response is over is the worker asked to end.  The    *)
(* caller often sees no answer, and repeats the call to the next worker,   *)
(* which acknowledges it by the receipt.  Saves may fail, the worker may   *)
(* be killed anywhere, receipts expire and are trimmed to a limit.         *)
(***************************************************************************)
EXTENDS Naturals, Sequences, SequencesExt

CONSTANTS
    RestartKeys,       \* replay keys: caller and request id
    maxReceipts,    \* receipts kept
    MaxLives,       \* bound on worker processes
    MaxAsks         \* bound on the approval requests of one call key

ASSUME ReceiptLimitAssumption == maxReceipts \in Nat \ {0}

(* NoMutation is of no call.                                               *)
ASSUME ReceiptNamesAssumption == "nobody" \notin RestartKeys

VARIABLES
    restartCall,    \* request -> where its execution is, in this process
    receipts,       \* the guard's receipts, oldest first
    savedReceipts,  \* those of the state file
    mutation,       \* the guard's mutation in progress, with its rollback
    restartRequested,   \* the worker was asked to end
    life,           \* processes so far
    asks,           \* request -> approval requests shown
    acknowledgeable \* history: restarts whose receipt nothing has used up

receiptVars == <<restartCall, receipts, savedReceipts, mutation, restartRequested,
                 life, asks, acknowledgeable>>

CallStates == {"none", "consume", "consuming", "ask", "record", "recording", "respond", "over"}
NoMutation == [of |-> "nobody", previous |-> <<>>]

(* Type invariant of the calls and of the receipts.                        *)
ReceiptTypeOK ==
    /\ restartCall \in [RestartKeys -> CallStates]
    /\ ToSet(receipts) \subseteq RestartKeys /\ Len(receipts) <= maxReceipts
    /\ ToSet(savedReceipts) \subseteq RestartKeys /\ Len(savedReceipts) <= maxReceipts
    /\ mutation.of \in RestartKeys \cup {"nobody"}
    /\ restartRequested \in BOOLEAN
    /\ life \in 1..MaxLives /\ asks \in [RestartKeys -> 0..MaxAsks]
    /\ acknowledgeable \subseteq RestartKeys

ReceiptInit ==
    /\ restartCall = [k \in RestartKeys |-> "none"]
    /\ receipts = <<>> /\ savedReceipts = <<>> /\ mutation = NoMutation
    /\ restartRequested = FALSE /\ life = 1
    /\ asks = [k \in RestartKeys |-> 0]
    /\ acknowledgeable = {}

-----------------------------------------------------------------------------

Advance(k, from, to) == restartCall[k] = from /\ restartCall' = [restartCall EXCEPT ![k] = to]

(* A map in insertion order: it has at most one receipt of a call.         *)
Without(seq, k) ==
    IF k \in ToSet(seq) THEN RemoveAt(seq, CHOOSE i \in DOMAIN seq : seq[i] = k) ELSE seq

(* #trimToLimit drops the oldest.                                          *)
TrimToLimit(seq) ==
    IF Len(seq) > maxReceipts THEN SubSeq(seq, Len(seq) - maxReceipts + 1, Len(seq)) ELSE seq

(* #once: a repeated call joins the execution of the first; one that comes *)
(* after it, in another turn, is executed again.                           *)
ExecuteGatewayRestart(k) ==
    /\ ~restartRequested
    /\ restartCall[k] \in {"none", "over"}
    /\ restartCall' = [restartCall EXCEPT ![k] = "consume"]
    /\ UNCHANGED <<receipts, savedReceipts, mutation, restartRequested, life, asks,
                   acknowledgeable>>

(* consume: mutations are made one at a time.                              *)
ConsumeNothing(k) ==
    /\ mutation = NoMutation
    /\ k \notin ToSet(receipts)
    /\ asks[k] < MaxAsks
    /\ Advance(k, "consume", "ask")
    /\ asks' = [asks EXCEPT ![k] = @ + 1]
    /\ UNCHANGED <<receipts, savedReceipts, mutation, restartRequested, life,
                   acknowledgeable>>

StartConsume(k) ==
    /\ mutation = NoMutation
    /\ k \in ToSet(receipts)
    /\ Advance(k, "consume", "consuming")
    /\ receipts' = Without(receipts, k)
    /\ mutation' = [of |-> k, previous |-> receipts]
    /\ UNCHANGED <<savedReceipts, restartRequested, life, asks, acknowledgeable>>

(* The removal is saved: "scheduled", and nothing else happens.  Or it is  *)
(* not: the receipt is put back and the call fails.                        *)
FinishConsume(k) ==
    /\ mutation.of = k
    /\ Advance(k, "consuming", "over")
    /\ \/ /\ savedReceipts' = receipts /\ UNCHANGED receipts
          /\ acknowledgeable' = acknowledgeable \ {k}
       \/ /\ receipts' = mutation.previous
          /\ UNCHANGED <<savedReceipts, acknowledgeable>>
    /\ mutation' = NoMutation
    /\ UNCHANGED <<restartRequested, life, asks>>

(* The human allows it, or denies it, or the caller has gone meanwhile.    *)
AnswerRestart(k) ==
    /\ Advance(k, "ask", "record") \/ Advance(k, "ask", "over")
    /\ UNCHANGED <<receipts, savedReceipts, mutation, restartRequested, life, asks,
                   acknowledgeable>>

StartRecord(k) ==
    /\ mutation = NoMutation
    /\ Advance(k, "record", "recording")
    /\ receipts' = TrimToLimit(Append(Without(receipts, k), k))
    /\ mutation' = [of |-> k, previous |-> receipts]
    /\ UNCHANGED <<savedReceipts, restartRequested, life, asks, acknowledgeable>>

(* Mutant of FinishRecord (no code): the answer does not wait for the save.*)
RecordInMemory(k) ==
    /\ mutation.of = k
    /\ Advance(k, "recording", "respond")
    /\ mutation' = NoMutation
    /\ UNCHANGED <<receipts, savedReceipts, acknowledgeable, restartRequested, life,
                   asks>>

FinishRecord(k) ==
    /\ mutation.of = k
    /\ \/ /\ Advance(k, "recording", "respond")
          /\ savedReceipts' = receipts /\ UNCHANGED receipts
          /\ acknowledgeable' = acknowledgeable \cap ToSet(receipts)
       \/ /\ Advance(k, "recording", "over")
          /\ receipts' = mutation.previous
          /\ UNCHANGED <<savedReceipts, acknowledgeable>>
    /\ mutation' = NoMutation
    /\ UNCHANGED <<restartRequested, life, asks>>

(* The HTTP response is over, finished or closed: requestRestartOnce.      *)
ResponseOver(k) ==
    /\ Advance(k, "respond", "over")
    /\ restartRequested' = TRUE
    /\ acknowledgeable' = acknowledgeable \cup ({k} \cap ToSet(receipts))
    /\ UNCHANGED <<receipts, savedReceipts, mutation, life, asks>>

(* Ten minutes have passed since the receipt was recorded.                 *)
Expire(k) ==
    /\ mutation = NoMutation
    /\ k \in ToSet(receipts) \cup ToSet(savedReceipts)
    /\ receipts' = Without(receipts, k)
    /\ savedReceipts' = Without(savedReceipts, k)
    /\ acknowledgeable' = acknowledgeable \ {k}
    /\ UNCHANGED <<restartCall, mutation, restartRequested, life, asks>>

(* The next worker starts from the state file: after a drain, when no call *)
(* is in progress, or after the process was killed.                        *)
NextLife ==
    /\ life < MaxLives /\ life' = life + 1
    /\ restartCall' = [k \in RestartKeys |-> "none"]
    /\ receipts' = savedReceipts
    /\ mutation' = NoMutation
    /\ restartRequested' = FALSE
    /\ UNCHANGED <<savedReceipts, asks, acknowledgeable>>

ReceiptNext ==
    \/ \E k \in RestartKeys :
          \/ ExecuteGatewayRestart(k) \/ ConsumeNothing(k) \/ StartConsume(k)
          \/ FinishConsume(k) \/ AnswerRestart(k) \/ StartRecord(k) \/ FinishRecord(k)
          \/ ResponseOver(k) \/ Expire(k)
    \/ NextLife

ReceiptSpec == ReceiptInit /\ [][ReceiptNext]_receiptVars

-----------------------------------------------------------------------------

(* docs/architecture.md 484-487: the next worker may acknowledge that exact*)
(* replay.  A call whose restart went ahead is not shown to a human again, *)
(* in this process or a later one, as long as its receipt was not consumed,*)
(* trimmed or expired; whichever save failed and wherever the process died.*)
ReplayIsNotAskedAgain ==
    [][\A k \in acknowledgeable : asks'[k] = asks[k]]_receiptVars
=============================================================================

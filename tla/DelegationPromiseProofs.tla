------------------------ MODULE DelegationPromiseProofs ------------------------
(***************************************************************************)
(* What every implementation of DelegationPromise has, for any set of jobs.*)
(***************************************************************************)
EXTENDS DelegationPromise, TLAPS

PromiseIInv == PromiseTypeOK /\ AnswerIsComplete

LEMMA PromiseHoldsAtFirst == PromiseInit => PromiseIInv
BY DEF PromiseInit, PromiseIInv, PromiseTypeOK, AnswerIsComplete

LEMMA PromiseIsKept == PromiseIInv /\ [PromiseNext]_promiseVars => PromiseIInv'
<1> SUFFICES ASSUME PromiseIInv, [PromiseNext]_promiseVars PROVE PromiseIInv'
    OBVIOUS
<1> USE DEF PromiseIInv, PromiseTypeOK, AnswerIsComplete
<1>1. CASE UNCHANGED promiseVars
    BY <1>1 DEF promiseVars
<1>2. ASSUME NEW j \in Jobs, AcceptJob(j) PROVE PromiseIInv'
    <2>1. PromiseTypeOK'
        BY <1>2 DEF AcceptJob
    <2>2. ASSUME NEW p \in answered PROVE children'[p] = children[p]
        BY <1>2, <2>2 DEF AcceptJob
    <2>. QED BY <1>2, <2>1, <2>2 DEF AcceptJob
<1>3. ASSUME NEW j \in Jobs, StartJob(j) PROVE PromiseIInv'
    BY <1>3 DEF StartJob
<1>4. ASSUME NEW j \in Jobs, AnswerJob(j) PROVE PromiseIInv'
    BY <1>4 DEF AnswerJob
<1>. QED BY <1>1, <1>2, <1>3, <1>4 DEF PromiseNext

(* Whatever order jobs are accepted, run and answered in, the answer of a  *)
(* job comes after those of the jobs it has sent (and so of its family).   *)
THEOREM FamilyIsAnsweredFirst == PromiseSafety => []AnswerIsComplete
<1>1. PromiseIInv => AnswerIsComplete
    BY DEF PromiseIInv
<1>. QED BY <1>1, PromiseHoldsAtFirst, PromiseIsKept, PTL DEF PromiseSafety
=============================================================================

--------------------------- MODULE DelegationPromise ---------------------------
(***************************************************************************)
(* What agent.send promises for a delegated job, without its queue, its    *)
(* workers, its saves and its Slack thread (docs/architecture.md, "Koe-to- *)
(* Koe channel visits"): an accepted job is given to its target at most    *)
(* once, its result comes back once those of the jobs it has sent itself   *)
(* have come back, and it does come back.  DelegationQueue implements it.  *)
(***************************************************************************)
CONSTANT Jobs       \* what agent.send may create

VARIABLES
    accepted,       \* agent.send has answered "queued"
    children,       \* the accepted jobs that were sent in the turn of each
    started,        \* the message was given to the target
    answered        \* the result is in the source's thread, or in the parent

promiseVars == <<accepted, children, started, answered>>

PromiseTypeOK ==
    /\ accepted \subseteq Jobs /\ started \subseteq accepted /\ answered \subseteq accepted
    /\ children \in [Jobs -> SUBSET Jobs]

PromiseInit ==
    /\ accepted = {} /\ started = {} /\ answered = {}
    /\ children = [j \in Jobs |-> {}]

(* From a Slack turn, or from the turn of a job that has no result yet.    *)
AcceptJob(j) ==
    /\ j \notin accepted
    /\ accepted' = accepted \cup {j}
    /\ \/ UNCHANGED children
       \/ \E p \in started \ answered :
              children' = [children EXCEPT ![p] = @ \cup {j}]
    /\ UNCHANGED <<started, answered>>

StartJob(j) ==
    /\ j \in accepted \ (started \cup answered)
    /\ started' = started \cup {j}
    /\ UNCHANGED <<accepted, children, answered>>

(* A job that could not be started is answered too.                        *)
AnswerJob(j) ==
    /\ j \in accepted \ answered
    /\ children[j] \subseteq answered
    /\ answered' = answered \cup {j}
    /\ UNCHANGED <<accepted, children, started>>

PromiseNext == \E j \in Jobs : AcceptJob(j) \/ StartJob(j) \/ AnswerJob(j)

PromiseSafety == PromiseInit /\ [][PromiseNext]_promiseVars
PromiseSpec == PromiseSafety /\ \A j \in Jobs : WF_promiseVars(AnswerJob(j))

-----------------------------------------------------------------------------

(* Nobody has the result of a job while a job it has sent is still out:    *)
(* with the result of a job come those of its whole family.                *)
AnswerIsComplete == \A p \in answered : children[p] \subseteq answered
=============================================================================

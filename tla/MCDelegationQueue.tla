------------------------- MODULE MCDelegationQueue -------------------------
(* Instances of DelegationQueue for TLC.                                   *)
EXTENDS DelegationQueue, TLC

Koe == Permutations(Agents)
=============================================================================

----------------------- MODULE MCPermissionApprovals -----------------------
(* Instances of PermissionApprovals for TLC: requests of one scope.        *)
EXTENDS PermissionApprovals, TLC

CONSTANTS R1, R2, Key

OneKey == [r \in Requests |-> Key]

(* No definition tells two requests of one scope apart.                    *)
Either == Permutations(Requests)
=============================================================================

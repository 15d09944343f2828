--------------------------- MODULE MCResourceQuota ---------------------------
(* Requests of one user, interchangeable for TLC. *)
EXTENDS ResourceQuota, TLC

CONSTANTS r1, r2, r3

Symmetry == Permutations(Request)
=============================================================================

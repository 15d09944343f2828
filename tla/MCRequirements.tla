--------------------------- MODULE MCRequirements ---------------------------
(* The keys of stories that models choose are interchangeable for TLC. *)
EXTENDS Requirements, TLC

Symmetry == Permutations(Stories)
=============================================================================

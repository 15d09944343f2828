---------------------------- MODULE MCPublishing ----------------------------
(* One role with two hosts for TLC; roles do not touch each other. *)
EXTENDS Publishing, TLC

CONSTANTS r1, h1, h2, q1, q2

MCRoleOf == [h \in {h1, h2} |-> r1]

Symmetry == Permutations(Host) \cup Permutations(Request)
=============================================================================

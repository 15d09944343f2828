---------------------------- MODULE MCUserCommand ----------------------------
(* Two actors for TLC: s1, s2, e1 and e2 belong to one, s3 and e3 to the other. *)
EXTENDS UserCommand

CONSTANTS s1, s2, s3, e1, e2, e3

MCActorOf == [x \in {s1, s2, s3, e1, e2, e3} |-> IF x \in {s3, e3} THEN "other" ELSE "one"]
=============================================================================

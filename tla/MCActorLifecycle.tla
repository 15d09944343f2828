-------------------------- MODULE MCActorLifecycle --------------------------
(* A small tree of actors for TLC: a team p of the user and two attempts m1  *)
(* and m2 at one member of p.                                                *)
EXTENDS ActorLifecycle

CONSTANTS p, m1, m2

MCParentOf == [a \in Actor |-> IF a = p THEN User ELSE p]
MCNickOf == [a \in Actor |-> IF a = p THEN "team" ELSE "member"]
=============================================================================

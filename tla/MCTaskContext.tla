---------------------------- MODULE MCTaskContext ----------------------------
(* Requests for TLC: the serving fiber and another, small stacks.            *)
EXTENDS TaskContext

CONSTANTS main, g1
=============================================================================

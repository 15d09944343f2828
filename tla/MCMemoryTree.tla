---------------------------- MODULE MCMemoryTree ----------------------------
(* Three slots (two keys of one version, the first key of another), one id that can be a
   parent, and requests that meet on slots, on levels, and on the order of both. *)
EXTENDS MemoryTree, TLC

CONSTANTS a, b, a2, x

Node(s, i, p) == [slot |-> s, id |-> i, parent |-> p]

MCSaveRequests ==
    { <<Node(a, x, Root)>>,                         \* a root others can be put below
      <<Node(a, NoId, Root), Node(b, NoId, Root)>>, \* the level of a version
      <<Node(b, NoId, Root), Node(a, NoId, Root)>>, \* the same in another order
      <<Node(a2, NoId, Root)>>,                     \* the same level of another version
      <<Node(b, NoId, x), Node(a, x, Root)>>,       \* two levels, the lower one first
      <<Node(a, NoId, x), Node(a2, x, Root)>> }     \* the parent's id in another slot

MCRemoveRequests ==
    {[ids |-> {x}, subsOnly |-> FALSE], [ids |-> {x}, subsOnly |-> TRUE]}

Symmetric == Permutations(Saves)
=============================================================================

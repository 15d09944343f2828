---------------------------- MODULE KnowledgeBase ----------------------------
(***************************************************************************)
(* The store of a knowledge-base keeper (src/prisma/kb-keeper.seed.ts), as *)
(* the scripts of other roles use it through `@KBK#...`: the nodes of its  *)
(* one draft version, by key, with the entries as functions of the store.  *)
(*                                                                         *)
(* Every entry is a call of the memory tool in a transaction of its own.   *)
(* How such calls interleave inside is the subject of MemoryTree; here a   *)
(* call takes effect at once.  A key belongs to one domain.  No version is *)
(* ever published: publishVersion is not implemented and the keeper's      *)
(* `publish` entry has no handle.                                          *)
(***************************************************************************)
EXTENDS Naturals, FiniteSets

CONSTANTS
    Keys,       \* keys of nodes
    NoRow,
    Top         \* the parent of a root node: '' in the table

\* Ids are unique: the key a node was first saved under, and a number.
Ids == Keys \X Nat

Rows == [id : Ids, parent : Ids \union {Top}, deleted : BOOLEAN]

ASSUME NoRowAssumption == NoRow \notin Rows
ASSUME TopAssumption == Top \notin Ids

Stores == [Keys -> Rows \union {NoRow}]

Empty == [k \in Keys |-> NoRow]

Live(kb, k) == kb[k] # NoRow /\ ~kb[k].deleted

-----------------------------------------------------------------------------
(* Queries. *)

\* #get: the node of a key, unless it is deleted.
Has(kb, k) == Live(kb, k)

\* #query by parentIds: the keys of the nodes below these, of any domain.
Below(kb, ids) == {k \in Keys : Live(kb, k) /\ kb[k].parent \in ids}

\* #query without parentIds.
Roots(kb) == Below(kb, {Top})

LiveIds(kb, domain) == {kb[k].id : k \in {j \in domain : Live(kb, j)}}

\* Faulty variant: inner nodes too.
AllNodes(kb, domain) == LiveIds(kb, domain)

\* #chains: the ids the chains of a domain end with, nodes without a node of it below.
Leaves(kb, domain) ==
    {i \in LiveIds(kb, domain) : Below(kb, {i}) \intersect domain = {}}

\* Live nodes whose parent is not there.
Orphans(kb) ==
    {k \in Keys : /\ Live(kb, k)
                  /\ kb[k].parent # Top
                  /\ kb[k].parent \notin LiveIds(kb, Keys)}

-----------------------------------------------------------------------------
(* Updates. *)

\* A node saved without an id gets a new one, also when its key has a row.
NewId(kb, k) == <<k, IF kb[k] = NoRow THEN 1 ELSE kb[k].id[2] + 1>>

\* Faulty variant: one id is generated for all nodes of a call.
ImportedUnderOneId(kb, nodes, levels) ==
    [k \in Keys |->
        IF k \in DOMAIN nodes
        THEN [id |-> nodes[CHOOSE j \in DOMAIN nodes : TRUE].id, parent |-> nodes[k].parent,
              deleted |-> kb[k] # NoRow /\ kb[k].deleted]
        ELSE IF k \in Below(kb, levels) THEN [kb[k] EXCEPT !.deleted = TRUE]
        ELSE kb[k]]

\* #import: nodes [id, parent] by key; what else is on their levels is deleted.  A node
\* comes once for every parent it was listed with, and the last one stays.  An update
\* does not touch `deleted`: a key that was deleted once is never live again.
Imported(kb, nodes, levels) ==
    [k \in Keys |->
        IF k \in DOMAIN nodes
        THEN [id |-> nodes[k].id, parent |-> nodes[k].parent,
              deleted |-> kb[k] # NoRow /\ kb[k].deleted]
        ELSE IF k \in Below(kb, levels) THEN [kb[k] EXCEPT !.deleted = TRUE]
        ELSE kb[k]]

\* #remove: the listed nodes.  Those below are looked for, and finding any is an error
\* nobody handles, which ends the process (MemoryTree!Crash); #remove-subs does only that.
Removed(kb, ids) ==
    [k \in Keys |-> IF Live(kb, k) /\ kb[k].id \in ids
                    THEN [kb[k] EXCEPT !.deleted = TRUE] ELSE kb[k]]

EndsProcess(kb, ids) == Below(kb, ids) # {}
=============================================================================

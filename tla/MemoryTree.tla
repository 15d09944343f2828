------------------------------ MODULE MemoryTree ------------------------------
(***************************************************************************)
(* The memory nodes of one actor in one domain                             *)
(* (src/src/memory-nodes/memory.service.ts, called by                      *)
(* toolbox/plugins/builtin/memory.tool.ts): lists of nodes saved by level, *)
(* their embeddings, and removals, several at a time.                      *)
(*                                                                         *)
(* A save is one transaction: it upserts its nodes in order, deletes what  *)
(* else the levels hold, and writes the embeddings when an HTTP call has   *)
(* computed them.  The isolation is Postgres's default: a statement sees   *)
(* what was committed when it began and what its own transaction wrote, a  *)
(* row written by an open transaction is locked until that one ends, and   *)
(* the statement that waited for it looks at the row again.  Rows are soft *)
(* deleted, and no row of a slot is ever made a second time.               *)
(***************************************************************************)
EXTENDS Naturals, Sequences

CONSTANTS
    Saves, Removals,    \* calls of upsertNodes and of removeNodes
    Slots,              \* (version, key): unique together for an actor and a domain
    ClientIds,          \* ids that clients give to nodes
    Root, NoId,         \* the parent of a root node ('' in the table); no id given
    NoRow, Nobody,
    SaveRequests,       \* lists of nodes [slot, id, parent]
    RemoveRequests      \* [ids, subsOnly]

Calls == Saves \cup Removals

ASSUME CallAssumption == Saves \cap Removals = {} /\ Nobody \notin Calls

VARIABLES
    row,        \* the committed row of a slot
    draft,      \* the row as the transaction that locked it left it
    lock,       \* the call whose open transaction has written the row
    pc,         \* a call: idle, open, deleting (a deleteMany waits for rows), done, failed
    asked,      \* the nodes a call saves
    upserted,   \* how many of them it has upserted
    deletes,    \* the deleteMany statements it still has to run, numbered: a parent, or ids
    target,     \* slots and ids the running deleteMany has found and not yet written
    embedded,   \* whether it has written the embeddings (nothing to do in a removal)
    subs,       \* whether a removal found nodes below those it removes
    alongside   \* history: the calls that were open at some time while a call was

vars == <<row, draft, lock, pc, asked, upserted, deletes, target, embedded, subs, alongside>>

GivenIds == ClientIds \cup (Saves \X Nat)     \* a generated id: by which call, for which node

Nodes == [slot : Slots, id : ClientIds \cup {NoId}, parent : ClientIds \cup {Root}]

\* A content is named by the save that wrote it, an embedding by the content it is of.
Rows == [id : GivenIds, parent : ClientIds \cup {Root}, content : Saves,
         embedding : Saves \cup {Nobody}, deleted : BOOLEAN]

ASSUME RequestAssumption ==
    /\ SaveRequests \subseteq Seq(Nodes)
    /\ RemoveRequests \subseteq [ids : SUBSET ClientIds, subsOnly : BOOLEAN]
ASSUME NoRowAssumption == NoRow \notin Rows

Open(c) == pc[c] \in {"open", "deleting"}

TypeOK ==
    /\ row \in [Slots -> Rows \cup {NoRow}]
    /\ draft \in [Slots -> Rows \cup {NoRow}]
    /\ lock \in [Slots -> Calls \cup {Nobody}]
    /\ pc \in [Calls -> {"idle", "open", "deleting", "done", "failed"}]
    /\ asked \in [Calls -> Seq(Nodes)]
    /\ upserted \in [Calls -> Nat] /\ \A c \in Calls : upserted[c] <= Len(asked[c])
    /\ deletes \in [Calls -> SUBSET (Nat \X (ClientIds \cup {Root} \cup SUBSET GivenIds))]
    /\ target \in [Calls -> SUBSET (Slots \X GivenIds)]
    /\ embedded \in [Calls -> BOOLEAN] /\ subs \in [Calls -> BOOLEAN]
    /\ alongside \in [Calls -> SUBSET Calls]
    /\ \A s \in Slots : lock[s] # Nobody => Open(lock[s]) /\ draft[s] # NoRow

Init ==
    /\ row = [s \in Slots |-> NoRow] /\ draft = row
    /\ lock = [s \in Slots |-> Nobody]
    /\ pc = [c \in Calls |-> "idle"]
    /\ asked = [c \in Calls |-> <<>>]
    /\ upserted = [c \in Calls |-> 0]
    /\ deletes = [c \in Calls |-> {}] /\ target = deletes
    /\ embedded = [c \in Calls |-> FALSE] /\ subs = embedded
    /\ alongside = [c \in Calls |-> {}]

-----------------------------------------------------------------------------
\* A row as the transaction of c sees it.
Seen(c, s) == IF lock[s] = c THEN draft[s] ELSE row[s]

\* What every query and deleteMany looks for.
Live(r) == r # NoRow /\ ~r.deleted

\* What matchNodes ranks, for whoever asks.
Matchable(s) == Live(row[s])

Free(c, s) == lock[s] \in {Nobody, c}

SlotsOf(ns) == {ns[i].slot : i \in DOMAIN ns}

\* Faulty variant: only the level of the first node is cleared.
LevelsOfFirst(ns) == {<<1, ns[1].parent>>}

\* nodesByParent: the parents of the nodes, numbered by where they first come in.
Levels(ns) ==
    {<<i, ns[i].parent>> :
        i \in {k \in DOMAIN ns : \A j \in 1..(k - 1) : ns[j].parent # ns[k].parent}}

\* The statement that is its turn.
Current(c) == CHOOSE d \in deletes[c] : \A e \in deletes[c] : d[1] <= e[1]

\* The call's transaction begins while others are open.
Begin(c) ==
    LET others == {d \in Calls : Open(d)} IN
    /\ pc[c] = "idle"
    /\ pc' = [pc EXCEPT ![c] = "open"]
    /\ alongside' = [d \in Calls |-> IF d = c THEN others
                                     ELSE IF d \in others THEN alongside[d] \cup {c}
                                     ELSE alongside[d]]

UpsertNodes(c, ns) ==
    /\ Begin(c)
    /\ asked' = [asked EXCEPT ![c] = ns]
    /\ deletes' = [deletes EXCEPT ![c] = Levels(ns)]
    /\ UNCHANGED <<row, draft, lock, upserted, target, embedded, subs>>

AllUpserted(c) == upserted[c] = Len(asked[c])

\* No other row of the table has the id, and none that another transaction has written.
IdFree(c, s, id) ==
    \A t \in Slots \ {s} :
        /\ Seen(c, t) # NoRow => Seen(c, t).id # id
        /\ lock[t] # Nobody => draft[t].id # id

\* What an upsert leaves: an existing row keeps its embedding and its deleted mark.
Upserted(old, c, id, n) ==
    IF old = NoRow
      THEN [id |-> id, parent |-> n.parent, content |-> c, embedding |-> Nobody,
            deleted |-> FALSE]
      ELSE [old EXCEPT !.id = id, !.parent = n.parent, !.content = c]

\* Without an id a node gets a new one, also when its slot had one.
IdAt(c, i) == IF asked[c][i].id = NoId THEN <<c, i>> ELSE asked[c][i].id

\* The next node is upserted by its slot.  (An id that is taken fails the call: Fail.)
Upsert(c) ==
    /\ pc[c] = "open" /\ ~AllUpserted(c)
    /\ LET i  == upserted[c] + 1
           n  == asked[c][i]
           id == IdAt(c, i)
       IN  /\ Free(c, n.slot) /\ IdFree(c, n.slot, id)
           /\ draft' = [draft EXCEPT ![n.slot] = Upserted(Seen(c, n.slot), c, id, n)]
           /\ lock' = [lock EXCEPT ![n.slot] = c]
           /\ upserted' = [upserted EXCEPT ![c] = i]
    /\ UNCHANGED <<row, pc, asked, deletes, target, embedded, subs, alongside>>

\* The condition of the running deleteMany.
Doomed(c, s, r) ==
    /\ Live(r)
    /\ IF c \in Saves THEN r.parent = Current(c)[2] /\ s \notin SlotsOf(asked[c])
                      ELSE r.id \in Current(c)[2]

\* deleteMany finds its rows.  Neither the version nor the domain of a row matters.
Delete(c) ==
    /\ pc[c] = "open" /\ AllUpserted(c) /\ deletes[c] # {}
    /\ pc' = [pc EXCEPT ![c] = "deleting"]
    /\ target' = [target EXCEPT ![c] =
         {<<s, Seen(c, s).id>> : s \in {t \in Slots : Doomed(c, t, Seen(c, t))}}]
    /\ UNCHANGED <<row, draft, lock, asked, upserted, deletes, embedded, subs, alongside>>

\* It writes one of them, once nobody else has it, if it still is the row it found.
DeleteRow(c) ==
    /\ pc[c] = "deleting"
    /\ \E t \in target[c] :
         LET s == t[1]  r == Seen(c, t[1]) IN
         /\ Free(c, s)
         /\ target' = [target EXCEPT ![c] = @ \ {t}]
         /\ IF Doomed(c, s, r) /\ r.id = t[2]
              THEN /\ draft' = [draft EXCEPT ![s] = [r EXCEPT !.deleted = TRUE]]
                   /\ lock' = [lock EXCEPT ![s] = c]
              ELSE UNCHANGED <<draft, lock>>
    /\ UNCHANGED <<row, pc, asked, upserted, deletes, embedded, subs, alongside>>

Deleted(c) ==
    /\ pc[c] = "deleting" /\ target[c] = {}
    /\ pc' = [pc EXCEPT ![c] = "open"]
    /\ deletes' = [deletes EXCEPT ![c] = @ \ {Current(c)}]
    /\ UNCHANGED <<row, draft, lock, asked, upserted, target, embedded, subs, alongside>>

\* The vectors have come; every saved row that is not deleted gets its own.
Embed(c) ==
    /\ Open(c) /\ c \in Saves /\ AllUpserted(c) /\ ~embedded[c]
    /\ draft' = [s \in Slots |->
                   IF s \in SlotsOf(asked[c]) /\ ~draft[s].deleted
                     THEN [draft[s] EXCEPT !.embedding = c] ELSE draft[s]]
    /\ embedded' = [embedded EXCEPT ![c] = TRUE]
    /\ UNCHANGED <<row, lock, pc, asked, upserted, deletes, target, subs, alongside>>

-----------------------------------------------------------------------------
\* removeNodes looks for the nodes below the listed ones, and deletes the listed ones
\* unless only the nodes below are asked for.
RemoveNodes(c, r) ==
    /\ Begin(c)
    /\ subs' = [subs EXCEPT ![c] = \E s \in Slots : Live(row[s]) /\ row[s].parent \in r.ids]
    /\ deletes' = [deletes EXCEPT ![c] = IF r.subsOnly THEN {} ELSE {<<1, r.ids>>}]
    /\ embedded' = [embedded EXCEPT ![c] = TRUE]
    /\ UNCHANGED <<row, draft, lock, asked, upserted, target>>

-----------------------------------------------------------------------------
\* Faulty variant: the locks of a transaction that ends stay.
UnlockedNone(cs) == UNCHANGED lock

\* The transactions of cs end.
Unlocked(cs) == lock' = [s \in Slots |-> IF lock[s] \in cs THEN Nobody ELSE lock[s]]

\* What is local to calls is gone with them.
Forgotten(cs) ==
    LET Reset(f, v) == [c \in Calls |-> IF c \in cs THEN v ELSE f[c]] IN
    /\ asked' = Reset(asked, <<>>) /\ deletes' = Reset(deletes, {})
    /\ upserted' = Reset(upserted, 0) /\ target' = Reset(target, {})
    /\ embedded' = Reset(embedded, FALSE) /\ subs' = Reset(subs, FALSE)
    /\ alongside' = Reset(alongside, {})

\* Faulty variant: the embeddings are not awaited before the commit.
SettledInDb(c) == pc[c] = "open" /\ AllUpserted(c) /\ deletes[c] = {}

\* What the call awaits before its transaction commits.
Settled(c) == pc[c] = "open" /\ AllUpserted(c) /\ deletes[c] = {} /\ embedded[c]

\* A draft means nothing once its lock is gone.
Commit(c) ==
    /\ Settled(c)
    /\ row' = [s \in Slots |-> IF lock[s] = c THEN draft[s] ELSE row[s]]
    /\ draft' = [s \in Slots |-> IF lock[s] = c THEN NoRow ELSE draft[s]]
    /\ Unlocked({c})
    /\ pc' = [pc EXCEPT ![c] = "done"]
    /\ Forgotten({c})

Ended(cs) ==
    /\ draft' = [s \in Slots |-> IF lock[s] \in cs THEN NoRow ELSE draft[s]]
    /\ Unlocked(cs)
    /\ pc' = [c \in Calls |-> IF c \in cs THEN "failed" ELSE pc[c]]
    /\ Forgotten(cs)
    /\ UNCHANGED row

\* A node without key, version or content, an id that is taken, no vectors or too few, a
\* deadlock the database has found, or a timeout: the transaction is rolled back, and the
\* tool answers an error.
Fail(c) == Open(c) /\ Ended({c})

\* The ids of the nodes below come as objects, which the query for the next level down
\* refuses.  The promise of it was added to a list nobody awaits any more: the rejection
\* is nobody's and ends the process with everything that is open in it, most likely before
\* the removal has committed.  The nodes below are not deleted either way.
Crash(c) == Open(c) /\ subs[c] /\ Ended({d \in Calls : Open(d)})

\* dispatch of the tool, on behalf of any prompts of the actor's users.
Next ==
    \/ \E c \in Saves, ns \in SaveRequests : UpsertNodes(c, ns)
    \/ \E c \in Removals, r \in RemoveRequests : RemoveNodes(c, r)
    \/ \E c \in Saves : Upsert(c) \/ Embed(c)
    \/ \E c \in Calls : Delete(c) \/ DeleteRow(c) \/ Deleted(c) \/ Commit(c) \/ Fail(c)
    \/ \E c \in Removals : Crash(c)

Spec == Init /\ [][Next]_vars

-----------------------------------------------------------------------------
(***************************************************************************)
(* Properties                                                              *)
(***************************************************************************)

\* Nodes are matched by their embeddings: whatever saves of one node overlap, with their
\* HTTP calls coming back in any order, failing or never coming, the embedding of a node
\* that can be found is that of the content it has.
EmbeddingMatchesContent ==
    \A s \in Slots : Matchable(s) => row[s].embedding = row[s].content

ParentsOf(ns) == {ns[i].parent : i \in DOMAIN ns}

\* "Nodes with same parentId are cleared if not in nodes" (memory.service.ts:110), as far
\* as that goes: when a save has committed, a live node on one of its levels is one of its
\* own or was written by a save that was open while this one was.
SaveClearsLevels ==
    [][\A c \in Saves : pc[c] # "done" /\ pc'[c] = "done" =>
         \A s \in Slots :
            Live(row'[s]) /\ row'[s].parent \in ParentsOf(asked[c]) =>
                s \in SlotsOf(asked[c]) \/ row'[s].content \in alongside[c]]_vars

\* The same store without contents and embeddings, where a call takes effect at once.
KB == INSTANCE KnowledgeBase WITH Keys <- Slots, NoRow <- <<>>, Top <- Root

Brief(table) ==
    [s \in Slots |->
        IF table[s] = NoRow THEN <<>>
        ELSE [id |-> table[s].id, parent |-> table[s].parent, deleted |-> table[s].deleted]]

\* The place of the last node of a list that names the slot.
LastOf(ns, s) ==
    CHOOSE i \in DOMAIN ns :
        ns[i].slot = s /\ \A j \in (i + 1)..Len(ns) : ns[j].slot # s

NodesSaved(c) ==
    [s \in SlotsOf(asked[c]) |->
        LET i == LastOf(asked[c], s) IN [id |-> IdAt(c, i), parent |-> asked[c][i].parent]]

\* Whatever runs beside it, a save leaves what KnowledgeBase says of an import that takes
\* effect at once, except that nodes of its levels written by saves that were open while
\* it was may stay: those it did not see, or saw before they were moved there.
SaveIsImported ==
    [][\A c \in Saves : pc[c] # "done" /\ pc'[c] = "done" =>
         LET kb == KB!Imported(Brief(row), NodesSaved(c), ParentsOf(asked[c])) IN
         \A s \in Slots :
            \/ Brief(row')[s] = kb[s]
            \/ /\ s \notin SlotsOf(asked[c]) /\ row'[s] = row[s]
               /\ row[s].content \in alongside[c]]_vars
=============================================================================

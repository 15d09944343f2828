--------------------------- MODULE MemoryTreeProofs ---------------------------
(***************************************************************************)
(* Proofs about MemoryTree for every set of calls, slots and ids, and any  *)
(* lists of nodes to save and to remove.                                   *)
(***************************************************************************)
EXTENDS MemoryTree, WellFoundedInduction, TLAPS

(***************************************************************************)
(* Types.  A call that is not open has nothing left, a removal saves no    *)
(* nodes, and what an open save has upserted is locked by it until it ends.*)
(***************************************************************************)
Resting ==
    \A c \in Calls : ~Open(c) =>
        asked[c] = <<>> /\ upserted[c] = 0 /\ deletes[c] = {} /\ embedded[c] = FALSE

OnlySavesAsk == \A c \in Removals : asked[c] = <<>> /\ upserted[c] = 0

UpsertedIsLocked == \A c \in Calls : \A i \in 1..upserted[c] : lock[asked[c][i].slot] = c

TInv == TypeOK /\ Resting /\ OnlySavesAsk /\ UpsertedIsLocked

-----------------------------------------------------------------------------
(* Embeddings.  A live draft is the work of the save that locked the slot. *)

DraftIsOfItsSave ==
    \A s \in Slots : lock[s] # Nobody /\ Live(draft[s]) =>
        /\ lock[s] \in Saves
        /\ s \in SlotsOf(asked[lock[s]])
        /\ draft[s].content = lock[s]
        /\ embedded[lock[s]] => draft[s].embedding = lock[s]

EmbeddedIsLast == \A c \in Saves : embedded[c] => AllUpserted(c)

EInv == TInv /\ EmbeddingMatchesContent /\ DraftIsOfItsSave /\ EmbeddedIsLast

-----------------------------------------------------------------------------
(***************************************************************************)
(* Levels.  A parent of the nodes of an open save still has its statement, *)
(* or what is live below it is the save's own or of a save alongside; and  *)
(* while a statement runs, what it has not found is one or the other.      *)
(***************************************************************************)
Foreign(c, s, p) ==
    s \notin SlotsOf(asked[c]) /\ Live(Seen(c, s)) /\ Seen(c, s).parent = p

Cleared(c, p) ==
    \A s \in Slots : Foreign(c, s, p) => Seen(c, s).content \in alongside[c]

Found(c, p) ==
    \A s \in Slots : Foreign(c, s, p) =>
        Seen(c, s).content \in alongside[c] \/ <<s, Seen(c, s).id>> \in target[c]

OpenTogether ==
    \A c, d \in Calls : Open(c) /\ Open(d) /\ c # d => d \in alongside[c]

LevelsToClear ==
    \A c \in Saves : Open(c) => \A p \in ParentsOf(asked[c]) :
        (\E d \in deletes[c] : d[2] = p) \/ Cleared(c, p)

RunningStatement == \A c \in Saves : pc[c] = "deleting" => Found(c, Current(c)[2])

LInv == EInv /\ OpenTogether /\ LevelsToClear /\ RunningStatement

-----------------------------------------------------------------------------
(* What a step does to the row it changes, and which slots it touches. *)

LEMMA CallsAreSomebody ==
    /\ \A c \in Calls : c # Nobody
    /\ \A c \in Saves : c \in Calls /\ c \notin Removals
    /\ \A c \in Removals : c \in Calls /\ c \notin Saves
BY CallAssumption DEF Calls

LEMMA RowUpserted ==
  ASSUME NEW old \in Rows \cup {NoRow}, NEW c \in Saves, NEW id \in GivenIds, NEW n \in Nodes
  PROVE  LET new == Upserted(old, c, id, n) IN new \in Rows /\ new.content = c
BY DEF Upserted, Rows, Nodes

LEMMA RowDeleted ==
  ASSUME NEW r \in Rows
  PROVE  LET new == [r EXCEPT !.deleted = TRUE] IN new \in Rows /\ ~Live(new)
BY DEF Rows, Live

LEMMA RowEmbedded ==
  ASSUME NEW r \in Rows, NEW c \in Saves
  PROVE  LET new == [r EXCEPT !.embedding = c] IN
         /\ new \in Rows /\ new.embedding = c
         /\ new.content = r.content /\ new.id = r.id
         /\ new.parent = r.parent /\ new.deleted = r.deleted
BY DEF Rows

LEMMA SeenIsARow ==
  ASSUME TypeOK, NEW c \in Calls, NEW s \in Slots
  PROVE  Seen(c, s) \in Rows \cup {NoRow}
BY DEF TypeOK, Seen

\* A call writes a slot that nobody else has locked.
Writes(c, s, new) ==
    /\ lock[s] \in {Nobody, c}
    /\ draft' \in [Slots -> Rows \cup {NoRow}] /\ lock' \in [Slots -> Calls \cup {Nobody}]
    /\ draft'[s] = new /\ lock'[s] = c
    /\ \A t \in Slots \ {s} : draft'[t] = draft[t] /\ lock'[t] = lock[t]

LEMMA UpsertWrites ==
  ASSUME TInv, NEW c \in Saves, Upsert(c)
  PROVE  \E i \in 1..Len(asked[c]), new \in Rows :
            /\ i = upserted[c] + 1
            /\ asked[c][i].slot \in Slots
            /\ new.content = c
            /\ Writes(c, asked[c][i].slot, new)
            /\ upserted'[c] = i
            /\ \A d \in Calls \ {c} : upserted'[d] = upserted[d]
<1> DEFINE i == upserted[c] + 1
           n == asked[c][i]
           id == IdAt(c, i)
           new == Upserted(Seen(c, n.slot), c, id, n)
<1>0. c \in Calls
  BY CallsAreSomebody
<1>1. /\ i \in 1..Len(asked[c])
      /\ n \in Nodes
  BY <1>0 DEF TInv, TypeOK, Upsert, AllUpserted
<1>2. id \in GivenIds /\ n.slot \in Slots
  <2>1. n.slot \in Slots /\ n.id \in ClientIds \cup {NoId}
    BY <1>1 DEF Nodes
  <2>2. <<c, i>> \in Saves \X Nat
    BY <1>0 DEF TInv, TypeOK
  <2> QED
    BY <2>1, <2>2 DEF GivenIds, IdAt
<1>3. new \in Rows /\ new.content = c
  <2>1. Seen(c, n.slot) \in Rows \cup {NoRow}
    BY <1>0, <1>2, SeenIsARow DEF TInv
  <2> HIDE DEF id, n
  <2> QED
    BY <2>1, <1>1, <1>2, RowUpserted
<1>4. /\ Free(c, n.slot)
      /\ draft' = [draft EXCEPT ![n.slot] = new]
      /\ lock' = [lock EXCEPT ![n.slot] = c]
      /\ upserted' = [upserted EXCEPT ![c] = i]
  BY DEF Upsert
<1>5. Writes(c, n.slot, new)
  <2> HIDE DEF new, n
  <2> QED
    BY <1>0, <1>2, <1>3, <1>4 DEF Writes, Free, TInv, TypeOK
<1>6. upserted'[c] = i /\ \A d \in Calls \ {c} : upserted'[d] = upserted[d]
  BY <1>0, <1>4 DEF TInv, TypeOK
<1> HIDE DEF new
<1> QED
  BY <1>1, <1>2, <1>3, <1>5, <1>6

LEMMA DeleteRowWrites ==
  ASSUME TInv, NEW c \in Calls, DeleteRow(c)
  PROVE  \E s \in Slots, id \in GivenIds :
            /\ <<s, id>> \in target[c]
            /\ target'[c] = target[c] \ {<<s, id>>}
            /\ \A d \in Calls \ {c} : target'[d] = target[d]
            /\ target' \in [Calls -> SUBSET (Slots \X GivenIds)]
            /\ \/ /\ Doomed(c, s, Seen(c, s)) /\ Seen(c, s).id = id
                  /\ \E new \in Rows : ~Live(new) /\ Writes(c, s, new)
               \/ /\ ~(Doomed(c, s, Seen(c, s)) /\ Seen(c, s).id = id)
                  /\ UNCHANGED <<draft, lock>>
<1>1. PICK t \in target[c] :
        LET s == t[1]  r == Seen(c, t[1]) IN
         /\ Free(c, s)
         /\ target' = [target EXCEPT ![c] = @ \ {t}]
         /\ IF Doomed(c, s, r) /\ r.id = t[2]
              THEN /\ draft' = [draft EXCEPT ![s] = [r EXCEPT !.deleted = TRUE]]
                   /\ lock' = [lock EXCEPT ![s] = c]
              ELSE UNCHANGED <<draft, lock>>
  BY DEF DeleteRow
<1>2. target \in [Calls -> SUBSET (Slots \X GivenIds)]
  BY DEF TInv, TypeOK
<1>3. PICK s \in Slots, id \in GivenIds : t = <<s, id>>
  BY <1>1, <1>2
<1>4. /\ target'[c] = target[c] \ {<<s, id>>}
      /\ \A d \in Calls \ {c} : target'[d] = target[d]
      /\ target' \in [Calls -> SUBSET (Slots \X GivenIds)]
  BY <1>1, <1>2, <1>3
<1>5. CASE Doomed(c, s, Seen(c, s)) /\ Seen(c, s).id = id
  <2>1. Seen(c, s) \in Rows
    BY <1>5, SeenIsARow DEF Doomed, Live, TInv
  <2> DEFINE new == [Seen(c, s) EXCEPT !.deleted = TRUE]
  <2>2. new \in Rows /\ ~Live(new)
    BY <2>1, RowDeleted
  <2>3. /\ Free(c, s)
        /\ draft' = [draft EXCEPT ![s] = new]
        /\ lock' = [lock EXCEPT ![s] = c]
    BY <1>1, <1>3, <1>5
  <2> HIDE DEF new
  <2>4. Writes(c, s, new)
    BY <2>2, <2>3 DEF Writes, Free, TInv, TypeOK
  <2> QED
    BY <1>1, <1>3, <1>4, <1>5, <2>2, <2>4
<1>6. CASE ~(Doomed(c, s, Seen(c, s)) /\ Seen(c, s).id = id)
  <2>1. UNCHANGED <<draft, lock>>
    BY <1>1, <1>3, <1>6
  <2> QED
    BY <1>1, <1>3, <1>4, <1>6, <2>1
<1> QED
  BY <1>5, <1>6

\* A slot is one of a list's if and only if some node of the list names it.
LEMMA SlotOfAsked ==
  ASSUME TInv, NEW c \in Calls, NEW s \in SlotsOf(asked[c])
  PROVE  /\ s \in Slots
         /\ \E i \in 1..Len(asked[c]) : s = asked[c][i].slot
<1>1. asked[c] \in Seq(Nodes)
  BY DEF TInv, TypeOK
<1>2. PICK i \in 1..Len(asked[c]) : s = asked[c][i].slot
  BY <1>1 DEF SlotsOf
<1>3. asked[c][i] \in Nodes
  BY <1>1, <1>2
<1> QED
  BY <1>2, <1>3 DEF Nodes

\* When a save has upserted all its nodes, it has locked all their slots.
LEMMA AllSlotsLocked ==
  ASSUME TInv, NEW c \in Calls, AllUpserted(c), NEW s \in SlotsOf(asked[c])
  PROVE  s \in Slots /\ lock[s] = c /\ draft[s] \in Rows
<1>1. PICK i \in 1..Len(asked[c]) : s = asked[c][i].slot
  BY SlotOfAsked
<1>2. lock[s] = c
  BY <1>1 DEF TInv, UpsertedIsLocked, AllUpserted
<1>3. draft[s] # NoRow
  BY <1>2, SlotOfAsked, CallsAreSomebody DEF TInv, TypeOK
<1> QED
  BY <1>2, <1>3, SlotOfAsked DEF TInv, TypeOK

LEMMA EmbedWrites ==
  ASSUME TInv, NEW c \in Saves, Embed(c)
  PROVE  /\ draft' \in [Slots -> Rows \cup {NoRow}]
         /\ \A s \in SlotsOf(asked[c]) :
              /\ s \in Slots /\ lock[s] = c /\ draft[s] \in Rows /\ draft'[s] \in Rows
              /\ draft'[s].content = draft[s].content
              /\ Live(draft'[s]) => Live(draft[s]) /\ draft'[s].embedding = c
         /\ \A s \in Slots \ SlotsOf(asked[c]) : draft'[s] = draft[s]
         /\ embedded'[c] /\ \A d \in Calls \ {c} : embedded'[d] = embedded[d]
         /\ embedded' \in [Calls -> BOOLEAN]
<1>0. c \in Calls /\ AllUpserted(c)
  BY CallsAreSomebody DEF Embed
<1>1. draft' = [s \in Slots |->
                   IF s \in SlotsOf(asked[c]) /\ ~draft[s].deleted
                     THEN [draft[s] EXCEPT !.embedding = c] ELSE draft[s]]
  BY DEF Embed
<1>2. ASSUME NEW s \in SlotsOf(asked[c])
      PROVE  /\ s \in Slots /\ lock[s] = c /\ draft[s] \in Rows /\ draft'[s] \in Rows
             /\ draft'[s].content = draft[s].content
             /\ Live(draft'[s]) => Live(draft[s]) /\ draft'[s].embedding = c
  <2>1. s \in Slots /\ lock[s] = c /\ draft[s] \in Rows
    BY <1>0, AllSlotsLocked
  <2>2. CASE draft[s].deleted
    BY <1>1, <2>1, <2>2 DEF Live
  <2>3. CASE ~draft[s].deleted
    <3>1. draft'[s] = [draft[s] EXCEPT !.embedding = c]
      BY <1>1, <2>1, <2>3
    <3>2. /\ draft'[s] \in Rows /\ draft'[s].embedding = c
          /\ draft'[s].content = draft[s].content
      BY <3>1, <2>1, RowEmbedded
    <3>3. Live(draft[s])
      BY <2>1, <2>3, NoRowAssumption DEF Live
    <3> QED
      BY <2>1, <3>2, <3>3
  <2> QED
    BY <2>2, <2>3
<1>3. \A s \in Slots \ SlotsOf(asked[c]) : draft'[s] = draft[s]
  BY <1>1
<1>4. \A s \in Slots : draft'[s] \in Rows \cup {NoRow}
  BY <1>2, <1>3 DEF TInv, TypeOK
<1>5. draft' \in [Slots -> Rows \cup {NoRow}]
  <2>1. draft' = [s \in Slots |-> draft'[s]]
    BY <1>1
  <2> QED
    BY <1>4, <2>1
<1>6. embedded \in [Calls -> BOOLEAN] /\ embedded' = [embedded EXCEPT ![c] = TRUE]
  BY DEF Embed, TInv, TypeOK
<1>7. /\ embedded'[c] /\ \A d \in Calls \ {c} : embedded'[d] = embedded[d]
      /\ embedded' \in [Calls -> BOOLEAN]
  BY <1>0, <1>6
<1> QED
  BY <1>2, <1>3, <1>5, <1>7

\* The transactions of cs end, whichever way.
Finishes(cs) ==
    /\ lock' = [s \in Slots |-> IF lock[s] \in cs THEN Nobody ELSE lock[s]]
    /\ draft' = [s \in Slots |-> IF lock[s] \in cs THEN NoRow ELSE draft[s]]
    /\ pc' \in [Calls -> {"idle", "open", "deleting", "done", "failed"}]
    /\ \A c \in cs : pc'[c] \in {"done", "failed"}
    /\ \A c \in Calls \ cs : pc'[c] = pc[c]
    /\ Forgotten(cs)

LEMMA CommitFinishes ==
  ASSUME TInv, NEW c \in Calls, Commit(c)
  PROVE  /\ Finishes({c})
         /\ row' \in [Slots -> Rows \cup {NoRow}]
         /\ \A s \in Slots : row'[s] = IF lock[s] = c THEN draft[s] ELSE row[s]
<1>1. draft' = [s \in Slots |-> IF lock[s] \in {c} THEN NoRow ELSE draft[s]]
  BY DEF Commit
<1>2. /\ pc' = [pc EXCEPT ![c] = "done"]
      /\ row' = [s \in Slots |-> IF lock[s] = c THEN draft[s] ELSE row[s]]
      /\ Unlocked({c}) /\ Forgotten({c})
  BY DEF Commit
<1> QED
  BY <1>1, <1>2 DEF Finishes, Unlocked, TInv, TypeOK

LEMMA EndedFinishes ==
  ASSUME TInv, NEW cs \in SUBSET Calls, Ended(cs)
  PROVE  Finishes(cs) /\ UNCHANGED row
BY DEF Ended, Finishes, Unlocked, TInv, TypeOK

LEMMA FinishesForgets ==
  ASSUME TInv, NEW cs \in SUBSET Calls, Finishes(cs)
  PROVE  /\ \A c \in cs : /\ ~Open(c)'
                          /\ asked'[c] = <<>> /\ upserted'[c] = 0 /\ deletes'[c] = {}
                          /\ target'[c] = {} /\ embedded'[c] = FALSE
         /\ \A c \in Calls \ cs : /\ pc'[c] = pc[c] /\ asked'[c] = asked[c]
                                  /\ upserted'[c] = upserted[c] /\ deletes'[c] = deletes[c]
                                  /\ target'[c] = target[c] /\ embedded'[c] = embedded[c]
                                  /\ alongside'[c] = alongside[c]
BY DEF Finishes, Forgotten, Open

LEMMA FinishesTyped ==
  ASSUME TInv, NEW cs \in SUBSET Calls, Finishes(cs), row' \in [Slots -> Rows \cup {NoRow}]
  PROVE  TInv'
<1>1. draft' \in [Slots -> Rows \cup {NoRow}] /\ lock' \in [Slots -> Calls \cup {Nobody}]
  BY DEF Finishes, TInv, TypeOK
<1>2. asked' \in [Calls -> Seq(Nodes)]
  <2>1. <<>> \in Seq(Nodes)
    OBVIOUS
  <2> QED
    BY <2>1 DEF Finishes, Forgotten, TInv, TypeOK
<1>3. upserted' \in [Calls -> Nat]
  BY DEF Finishes, Forgotten, TInv, TypeOK
<1>4. deletes' \in [Calls -> SUBSET (Nat \X (ClientIds \cup {Root} \cup SUBSET GivenIds))]
  BY DEF Finishes, Forgotten, TInv, TypeOK
<1>5. target' \in [Calls -> SUBSET (Slots \X GivenIds)]
  BY DEF Finishes, Forgotten, TInv, TypeOK
<1>6. /\ embedded' \in [Calls -> BOOLEAN] /\ subs' \in [Calls -> BOOLEAN]
      /\ alongside' \in [Calls -> SUBSET Calls]
  BY DEF Finishes, Forgotten, TInv, TypeOK
<1>7. ASSUME NEW c \in Calls
      PROVE  upserted'[c] <= Len(asked'[c])
  <2>1. CASE c \in cs
    <3>1. asked'[c] = <<>> /\ upserted'[c] = 0
      BY <2>1, FinishesForgets
    <3> QED
      BY <3>1
  <2>2. CASE c \notin cs
    <3>1. asked'[c] = asked[c] /\ upserted'[c] = upserted[c]
      BY <2>2, FinishesForgets
    <3> QED
      BY <3>1 DEF TInv, TypeOK
  <2> QED
    BY <2>1, <2>2
<1>8. ASSUME NEW s \in Slots, lock'[s] # Nobody
      PROVE  pc'[lock'[s]] \in {"open", "deleting"} /\ draft'[s] # NoRow
  <2>1. lock[s] \notin cs /\ lock'[s] = lock[s] /\ draft'[s] = draft[s] /\ lock[s] # Nobody
    BY <1>8 DEF Finishes
  <2>2. lock[s] \in Calls \ cs
    BY <2>1 DEF TInv, TypeOK
  <2>3. pc'[lock[s]] = pc[lock[s]]
    BY <2>2, FinishesForgets
  <2>4. Open(lock[s]) /\ draft[s] # NoRow
    BY <2>1 DEF TInv, TypeOK
  <2> QED
    BY <2>1, <2>3, <2>4 DEF Open
<1>9. TypeOK'
  <2>1. pc' \in [Calls -> {"idle", "open", "deleting", "done", "failed"}]
    BY DEF Finishes
  <2> QED
    BY <2>1, <1>1, <1>2, <1>3, <1>4, <1>5, <1>6, <1>7, <1>8 DEF TypeOK, Open
<1>10. Resting'
  BY FinishesForgets DEF Resting, Open, TInv
<1>11. OnlySavesAsk'
  BY FinishesForgets, CallsAreSomebody DEF OnlySavesAsk, TInv
<1>12. UpsertedIsLocked'
  <2> SUFFICES ASSUME NEW c \in Calls, NEW i \in 1..upserted'[c]
               PROVE  lock'[asked'[c][i].slot] = c
    BY DEF UpsertedIsLocked
  <2>1. c \notin cs
    <3>1. upserted'[c] # 0
      OBVIOUS
    <3> QED
      BY <3>1, FinishesForgets
  <2>2. asked'[c] = asked[c] /\ upserted'[c] = upserted[c]
    BY <2>1, FinishesForgets
  <2>3. i \in 1..Len(asked[c]) /\ asked[c] \in Seq(Nodes)
    BY <2>2 DEF TInv, TypeOK
  <2>4. asked[c][i].slot \in Slots /\ lock[asked[c][i].slot] = c
    <3>1. asked[c][i] \in Nodes
      BY <2>3
    <3> QED
      BY <3>1, <2>2 DEF Nodes, TInv, UpsertedIsLocked
  <2> QED
    BY <2>1, <2>2, <2>4 DEF Finishes
<1> QED
  BY <1>9, <1>10, <1>11, <1>12 DEF TInv

LEMMA BeginOpens ==
  ASSUME TInv, NEW c \in Calls, Begin(c)
  PROVE  /\ ~Open(c)
         /\ pc' \in [Calls -> {"idle", "open", "deleting", "done", "failed"}]
         /\ pc'[c] = "open" /\ \A d \in Calls \ {c} : pc'[d] = pc[d]
         /\ alongside' \in [Calls -> SUBSET Calls]
         /\ \A d \in Calls : Open(d) => d \in alongside'[c] /\ c \in alongside'[d]
         /\ \A d \in Calls \ {c} : alongside[d] \subseteq alongside'[d]
BY DEF Begin, Open, TInv, TypeOK

LEMMA LevelsTyped ==
  ASSUME NEW ns \in Seq(Nodes)
  PROVE  Levels(ns) \subseteq Nat \X (ClientIds \cup {Root})
<1>1. \A k \in DOMAIN ns : k \in Nat /\ ns[k] \in Nodes
  OBVIOUS
<1>2. \A k \in DOMAIN ns : k \in Nat /\ ns[k].parent \in ClientIds \cup {Root}
  BY <1>1 DEF Nodes
<1> QED
  BY <1>2 DEF Levels

\* What a step that ends no call has to show.
LEMMA OpenStaysLocked ==
  ASSUME TInv, UNCHANGED <<lock, draft>>, \A c \in Calls : Open(c) => Open(c)'
  PROVE  \A s \in Slots : lock'[s] # Nobody => Open(lock[s])' /\ draft'[s] # NoRow
BY DEF TInv, TypeOK

LEMMA UpsertNodesTyped ==
  ASSUME TInv, NEW c \in Saves, NEW ns \in SaveRequests, UpsertNodes(c, ns)
  PROVE  TInv'
<1>0. c \in Calls /\ c \notin Removals
  BY CallsAreSomebody
<1>1. /\ Begin(c)
      /\ asked' = [asked EXCEPT ![c] = ns]
      /\ deletes' = [deletes EXCEPT ![c] = Levels(ns)]
      /\ UNCHANGED <<row, draft, lock, upserted, target, embedded, subs>>
  BY DEF UpsertNodes
<1>2. ns \in Seq(Nodes) /\ Levels(ns) \subseteq Nat \X (ClientIds \cup {Root})
  BY LevelsTyped, RequestAssumption
<1>3. ~Open(c) /\ upserted[c] = 0
  BY <1>0, <1>1, BeginOpens DEF TInv, Resting
<1>4. asked' \in [Calls -> Seq(Nodes)]
  BY <1>1, <1>2 DEF TInv, TypeOK
<1>5. deletes' \in [Calls -> SUBSET (Nat \X (ClientIds \cup {Root} \cup SUBSET GivenIds))]
  BY <1>1, <1>2 DEF TInv, TypeOK
<1>6. /\ pc' \in [Calls -> {"idle", "open", "deleting", "done", "failed"}]
      /\ alongside' \in [Calls -> SUBSET Calls]
      /\ pc'[c] = "open" /\ \A d \in Calls \ {c} : pc'[d] = pc[d]
  BY <1>0, <1>1, BeginOpens
<1>7. /\ asked'[c] = ns /\ \A d \in Calls \ {c} : asked'[d] = asked[d] /\ deletes'[d] = deletes[d]
      /\ upserted'[c] = 0
  BY <1>0, <1>1, <1>3 DEF TInv, TypeOK
<1>8. \A d \in Calls : upserted'[d] <= Len(asked'[d])
  BY <1>1, <1>2, <1>7 DEF TInv, TypeOK
<1>9. \A s \in Slots : lock'[s] # Nobody => Open(lock[s])' /\ draft'[s] # NoRow
  BY <1>1, <1>6, OpenStaysLocked DEF Open
<1>10. TypeOK'
  BY <1>1, <1>4, <1>5, <1>6, <1>8, <1>9 DEF TypeOK, TInv, Open
<1>11. Resting'
  BY <1>1, <1>6, <1>7 DEF Resting, TInv, Open
<1>12. OnlySavesAsk'
  BY <1>0, <1>1, <1>7, CallsAreSomebody DEF OnlySavesAsk, TInv
<1>13. UpsertedIsLocked'
  BY <1>1, <1>7 DEF UpsertedIsLocked, TInv
<1> QED
  BY <1>10, <1>11, <1>12, <1>13 DEF TInv

LEMMA RemoveNodesTyped ==
  ASSUME TInv, NEW c \in Removals, NEW r \in RemoveRequests, RemoveNodes(c, r)
  PROVE  TInv'
<1>0. c \in Calls
  BY CallsAreSomebody
<1>1. /\ Begin(c)
      /\ subs' = [subs EXCEPT ![c] = \E s \in Slots : Live(row[s]) /\ row[s].parent \in r.ids]
      /\ deletes' = [deletes EXCEPT ![c] = IF r.subsOnly THEN {} ELSE {<<1, r.ids>>}]
      /\ embedded' = [embedded EXCEPT ![c] = TRUE]
      /\ UNCHANGED <<row, draft, lock, asked, upserted, target>>
  BY DEF RemoveNodes
<1>2. r.ids \in SUBSET GivenIds
  BY RequestAssumption DEF GivenIds
<1>3. deletes' \in [Calls -> SUBSET (Nat \X (ClientIds \cup {Root} \cup SUBSET GivenIds))]
  <2>1. <<1, r.ids>> \in Nat \X (ClientIds \cup {Root} \cup SUBSET GivenIds)
    BY <1>2
  <2> QED
    BY <1>1, <2>1 DEF TInv, TypeOK
<1>4. embedded' \in [Calls -> BOOLEAN] /\ subs' \in [Calls -> BOOLEAN]
  BY <1>1 DEF TInv, TypeOK
<1>5. /\ pc' \in [Calls -> {"idle", "open", "deleting", "done", "failed"}]
      /\ alongside' \in [Calls -> SUBSET Calls]
      /\ pc'[c] = "open" /\ \A d \in Calls \ {c} : pc'[d] = pc[d]
  BY <1>0, <1>1, BeginOpens
<1>6. \A d \in Calls \ {c} : deletes'[d] = deletes[d] /\ embedded'[d] = embedded[d]
  BY <1>1 DEF TInv, TypeOK
<1>7. \A s \in Slots : lock'[s] # Nobody => Open(lock[s])' /\ draft'[s] # NoRow
  BY <1>1, <1>5, OpenStaysLocked DEF Open
<1>8. TypeOK'
  BY <1>1, <1>3, <1>4, <1>5, <1>7 DEF TypeOK, TInv, Open
<1>9. Resting'
  BY <1>1, <1>5, <1>6 DEF Resting, TInv, Open
<1> QED
  BY <1>1, <1>8, <1>9 DEF TInv, OnlySavesAsk, UpsertedIsLocked

\* The conjunct of the lock after a write.
LEMMA WritesLocks ==
  ASSUME TInv, NEW c \in Calls, Open(c), UNCHANGED <<pc, asked>>,
         NEW s \in Slots, NEW new \in Rows, Writes(c, s, new)
  PROVE  /\ \A t \in Slots : lock'[t] # Nobody => Open(lock'[t]) /\ draft'[t] # NoRow
         /\ \A d \in Calls : \A i \in 1..upserted[d] : lock'[asked[d][i].slot] = d
<1>1. \A t \in Slots : lock'[t] # Nobody => Open(lock'[t]) /\ draft'[t] # NoRow
  BY NoRowAssumption DEF Writes, TInv, TypeOK
<1>2. ASSUME NEW d \in Calls, NEW i \in 1..upserted[d]
      PROVE  lock'[asked[d][i].slot] = d
  <2>1. asked[d] \in Seq(Nodes) /\ i \in 1..Len(asked[d])
    BY DEF TInv, TypeOK
  <2>2. asked[d][i] \in Nodes
    BY <2>1
  <2>3. asked[d][i].slot \in Slots
    BY <2>2 DEF Nodes
  <2>4. lock[asked[d][i].slot] = d /\ d # Nobody
    BY CallsAreSomebody DEF TInv, UpsertedIsLocked
  <2> QED
    BY <2>3, <2>4 DEF Writes
<1> QED
  BY <1>1, <1>2

LEMMA UpsertTyped ==
  ASSUME TInv, NEW c \in Saves, Upsert(c)
  PROVE  TInv'
<1>0. c \in Calls /\ c \notin Removals /\ Open(c)
  BY CallsAreSomebody DEF Upsert, Open
<1>1. PICK i \in 1..Len(asked[c]), new \in Rows :
            /\ i = upserted[c] + 1
            /\ asked[c][i].slot \in Slots
            /\ new.content = c
            /\ Writes(c, asked[c][i].slot, new)
            /\ upserted'[c] = i
            /\ \A d \in Calls \ {c} : upserted'[d] = upserted[d]
  BY UpsertWrites
<1>2. UNCHANGED <<row, pc, asked, deletes, target, embedded, subs, alongside>>
  BY DEF Upsert
<1>3. /\ \A t \in Slots : lock'[t] # Nobody => Open(lock'[t]) /\ draft'[t] # NoRow
      /\ \A d \in Calls : \A j \in 1..upserted[d] : lock'[asked[d][j].slot] = d
  BY <1>0, <1>1, <1>2, WritesLocks
<1>4. draft' \in [Slots -> Rows \cup {NoRow}] /\ lock' \in [Slots -> Calls \cup {Nobody}]
  BY <1>1 DEF Writes
<1>5. upserted' \in [Calls -> Nat]
  BY <1>0, <1>1 DEF Upsert, TInv, TypeOK
<1>6. \A d \in Calls : upserted'[d] <= Len(asked'[d])
  <2>1. upserted'[c] <= Len(asked'[c])
    BY <1>0, <1>1, <1>2 DEF TInv, TypeOK
  <2>2. \A d \in Calls \ {c} : upserted'[d] <= Len(asked'[d])
    BY <1>1, <1>2 DEF TInv, TypeOK
  <2> QED
    BY <2>1, <2>2
<1>7. TypeOK'
  BY <1>2, <1>3, <1>4, <1>5, <1>6 DEF TypeOK, TInv, Open
<1>8. ASSUME NEW d \in Calls, NEW j \in 1..upserted'[d]
      PROVE  lock'[asked'[d][j].slot] = d
  <2>1. CASE d = c /\ j = i
    BY <1>1, <1>2, <2>1 DEF Writes
  <2>2. CASE ~(d = c /\ j = i)
    <3>1. j \in 1..upserted[d]
      BY <1>0, <1>1, <2>2 DEF TInv, TypeOK
    <3> QED
      BY <1>2, <1>3, <3>1
  <2> QED
    BY <2>1, <2>2
<1>9. Resting' /\ OnlySavesAsk'
  BY <1>0, <1>1, <1>2, CallsAreSomebody DEF Resting, OnlySavesAsk, TInv, Open
<1> QED
  BY <1>7, <1>8, <1>9 DEF TInv, UpsertedIsLocked

LEMMA DeleteTyped ==
  ASSUME TInv, NEW c \in Calls, Delete(c)
  PROVE  TInv'
<1> DEFINE found == {<<s, Seen(c, s).id>> : s \in {t \in Slots : Doomed(c, t, Seen(c, t))}}
<1>1. /\ pc[c] = "open" /\ pc' = [pc EXCEPT ![c] = "deleting"]
      /\ target' = [target EXCEPT ![c] = found]
      /\ UNCHANGED <<row, draft, lock, asked, upserted, deletes, embedded, subs, alongside>>
  BY DEF Delete
<1>2. found \subseteq Slots \X GivenIds
  <2> SUFFICES ASSUME NEW s \in Slots, Doomed(c, s, Seen(c, s))
               PROVE  Seen(c, s).id \in GivenIds
    OBVIOUS
  <2>1. Seen(c, s) \in Rows
    BY SeenIsARow DEF Doomed, Live, TInv
  <2> QED
    BY <2>1 DEF Rows
<1>3. target' \in [Calls -> SUBSET (Slots \X GivenIds)]
  <2> HIDE DEF found
  <2> QED
    BY <1>1, <1>2 DEF TInv, TypeOK
<1>4. /\ pc' \in [Calls -> {"idle", "open", "deleting", "done", "failed"}]
      /\ pc'[c] = "deleting" /\ \A d \in Calls \ {c} : pc'[d] = pc[d]
  BY <1>1 DEF TInv, TypeOK
<1>5. \A s \in Slots : lock'[s] # Nobody => Open(lock[s])' /\ draft'[s] # NoRow
  BY <1>1, <1>4, OpenStaysLocked DEF Open
<1>6. TypeOK'
  BY <1>1, <1>3, <1>4, <1>5 DEF TypeOK, TInv, Open
<1>7. Resting'
  BY <1>1, <1>4 DEF Resting, TInv, Open
<1> QED
  BY <1>1, <1>6, <1>7 DEF TInv, OnlySavesAsk, UpsertedIsLocked

LEMMA DeleteRowTyped ==
  ASSUME TInv, NEW c \in Calls, DeleteRow(c)
  PROVE  TInv'
<1>1. PICK s \in Slots, id \in GivenIds :
            /\ target' \in [Calls -> SUBSET (Slots \X GivenIds)]
            /\ \/ \E new \in Rows : ~Live(new) /\ Writes(c, s, new)
               \/ UNCHANGED <<draft, lock>>
  BY DeleteRowWrites
<1>2. Open(c) /\ UNCHANGED <<row, pc, asked, upserted, deletes, embedded, subs, alongside>>
  BY DEF DeleteRow, Open
<1>3. /\ draft' \in [Slots -> Rows \cup {NoRow}] /\ lock' \in [Slots -> Calls \cup {Nobody}]
      /\ \A t \in Slots : lock'[t] # Nobody => Open(lock'[t]) /\ draft'[t] # NoRow
      /\ \A d \in Calls : \A i \in 1..upserted[d] : lock'[asked[d][i].slot] = d
  <2>1. CASE \E new \in Rows : ~Live(new) /\ Writes(c, s, new)
    <3>1. PICK new \in Rows : Writes(c, s, new)
      BY <2>1
    <3>2. draft' \in [Slots -> Rows \cup {NoRow}] /\ lock' \in [Slots -> Calls \cup {Nobody}]
      BY <3>1 DEF Writes
    <3> QED
      BY <1>2, <3>1, <3>2, WritesLocks
  <2>2. CASE UNCHANGED <<draft, lock>>
    BY <2>2 DEF TInv, TypeOK, UpsertedIsLocked
  <2> QED
    BY <1>1, <2>1, <2>2
<1>4. TypeOK'
  BY <1>1, <1>2, <1>3 DEF TypeOK, TInv, Open
<1> QED
  BY <1>2, <1>3, <1>4 DEF TInv, Resting, OnlySavesAsk, UpsertedIsLocked, Open

LEMMA DeletedTyped ==
  ASSUME TInv, NEW c \in Calls, Deleted(c)
  PROVE  TInv'
<1>1. /\ pc[c] = "deleting" /\ pc' = [pc EXCEPT ![c] = "open"]
      /\ deletes' = [deletes EXCEPT ![c] = @ \ {Current(c)}]
      /\ UNCHANGED <<row, draft, lock, asked, upserted, target, embedded, subs, alongside>>
  BY DEF Deleted
<1>2. /\ pc' \in [Calls -> {"idle", "open", "deleting", "done", "failed"}]
      /\ pc'[c] = "open" /\ \A d \in Calls \ {c} : pc'[d] = pc[d]
      /\ deletes' \in [Calls -> SUBSET (Nat \X (ClientIds \cup {Root} \cup SUBSET GivenIds))]
      /\ \A d \in Calls \ {c} : deletes'[d] = deletes[d]
  BY <1>1 DEF TInv, TypeOK
<1>3. \A s \in Slots : lock'[s] # Nobody => Open(lock[s])' /\ draft'[s] # NoRow
  BY <1>1, <1>2, OpenStaysLocked DEF Open
<1>4. TypeOK'
  BY <1>1, <1>2, <1>3 DEF TypeOK, TInv, Open
<1>5. Resting'
  BY <1>1, <1>2 DEF Resting, TInv, Open
<1> QED
  BY <1>1, <1>4, <1>5 DEF TInv, OnlySavesAsk, UpsertedIsLocked

LEMMA EmbedTyped ==
  ASSUME TInv, NEW c \in Saves, Embed(c)
  PROVE  TInv'
<1>1. /\ draft' \in [Slots -> Rows \cup {NoRow}]
      /\ \A s \in SlotsOf(asked[c]) : s \in Slots /\ draft'[s] \in Rows
      /\ \A s \in Slots \ SlotsOf(asked[c]) : draft'[s] = draft[s]
      /\ \A d \in Calls \ {c} : embedded'[d] = embedded[d]
      /\ embedded' \in [Calls -> BOOLEAN]
  BY EmbedWrites
<1>2. Open(c) /\ UNCHANGED <<row, lock, pc, asked, upserted, deletes, target, subs, alongside>>
  BY DEF Embed
<1>3. ASSUME NEW s \in Slots, lock'[s] # Nobody
      PROVE  Open(lock[s]) /\ draft'[s] # NoRow
  BY <1>1, <1>2, <1>3, NoRowAssumption DEF TInv, TypeOK
<1>4. TypeOK'
  BY <1>1, <1>2, <1>3 DEF TypeOK, TInv, Open
<1>5. Resting'
  BY <1>1, <1>2 DEF Resting, TInv, Open
<1> QED
  BY <1>2, <1>4, <1>5 DEF TInv, OnlySavesAsk, UpsertedIsLocked

LEMMA TypedInit == Init => TInv
<1> SUFFICES ASSUME Init PROVE TInv
  OBVIOUS
<1>1. <<>> \in Seq(Nodes)
  OBVIOUS
<1>2. TypeOK
  BY <1>1 DEF Init, TypeOK
<1> QED
  BY <1>2, CallsAreSomebody DEF Init, TInv, Resting, OnlySavesAsk, UpsertedIsLocked

LEMMA TypedNext == TInv /\ [Next]_vars => TInv'
<1> SUFFICES ASSUME TInv, [Next]_vars PROVE TInv'
  OBVIOUS
<1>1. ASSUME NEW c \in Calls, Commit(c) PROVE TInv'
  <2>1. Finishes({c}) /\ row' \in [Slots -> Rows \cup {NoRow}]
    BY <1>1, CommitFinishes
  <2> QED
    BY <2>1, FinishesTyped
<1>2. ASSUME NEW cs \in SUBSET Calls, Ended(cs) PROVE TInv'
  <2>1. Finishes(cs) /\ row' \in [Slots -> Rows \cup {NoRow}]
    BY <1>2, EndedFinishes DEF TInv, TypeOK
  <2> QED
    BY <2>1, FinishesTyped
<1>3. ASSUME NEW c \in Calls, Fail(c) PROVE TInv'
  BY <1>2, <1>3 DEF Fail
<1>4. ASSUME NEW c \in Removals, Crash(c) PROVE TInv'
  <2>1. {d \in Calls : Open(d)} \in SUBSET Calls
    OBVIOUS
  <2> QED
    BY <1>2, <1>4, <2>1 DEF Crash
<1>5. CASE UNCHANGED vars
  BY <1>5 DEF vars, TInv, TypeOK, Resting, OnlySavesAsk, UpsertedIsLocked, Open
<1> QED
  BY <1>1, <1>3, <1>4, <1>5, UpsertNodesTyped, RemoveNodesTyped, UpsertTyped, EmbedTyped,
     DeleteTyped, DeleteRowTyped, DeletedTyped DEF Next

\* Type correctness: ids, rows and what is local to the calls stay what they are, and a
\* locked slot has a draft of an open call (memory.service.ts's transactions).
THEOREM TypeCorrect == Spec => []TypeOK
<1>1. TInv => TypeOK
  BY DEF TInv
<1> QED
  BY <1>1, TypedInit, TypedNext, PTL DEF Spec

-----------------------------------------------------------------------------
(* The embeddings. *)

\* Steps that change neither rows nor drafts, nor a call that has locked anything.
LEMMA DraftsKeep ==
  ASSUME EInv, NEW c \in Calls, ~Open(c), UNCHANGED <<row, draft, lock, upserted>>,
         \A d \in Calls \ {c} : asked'[d] = asked[d] /\ embedded'[d] = embedded[d],
         c \in Saves => embedded'[c] = FALSE
  PROVE  (EmbeddingMatchesContent /\ DraftIsOfItsSave /\ EmbeddedIsLast)'
<1>1. \A s \in Slots : lock[s] # Nobody => lock[s] \in Calls \ {c}
  BY DEF EInv, TInv, TypeOK
<1>2. DraftIsOfItsSave'
  BY <1>1 DEF EInv, DraftIsOfItsSave
<1>3. EmbeddedIsLast'
  BY CallsAreSomebody DEF EInv, EmbeddedIsLast, AllUpserted
<1> QED
  BY <1>2, <1>3 DEF EInv, EmbeddingMatchesContent, Matchable

LEMMA UpsertEmbeds ==
  ASSUME EInv, NEW c \in Saves, Upsert(c)
  PROVE  (EmbeddingMatchesContent /\ DraftIsOfItsSave /\ EmbeddedIsLast)'
<1>0. c \in Calls /\ c # Nobody
  BY CallsAreSomebody
<1>1. PICK i \in 1..Len(asked[c]), new \in Rows :
            /\ i = upserted[c] + 1
            /\ asked[c][i].slot \in Slots
            /\ new.content = c
            /\ Writes(c, asked[c][i].slot, new)
            /\ upserted'[c] = i
            /\ \A d \in Calls \ {c} : upserted'[d] = upserted[d]
  BY UpsertWrites DEF EInv
<1>2. UNCHANGED <<row, pc, asked, deletes, target, embedded, subs, alongside>>
  BY DEF Upsert
<1>3. embedded[c] = FALSE
  <2>1. ~AllUpserted(c)
    BY DEF Upsert
  <2> QED
    BY <1>0, <2>1 DEF EInv, EmbeddedIsLast, TInv, TypeOK
<1>4. asked[c][i].slot \in SlotsOf(asked[c])
  BY <1>0, <1>1 DEF SlotsOf, EInv, TInv, TypeOK
<1>5. DraftIsOfItsSave'
  <2> SUFFICES ASSUME NEW s \in Slots, lock'[s] # Nobody, Live(draft'[s])
               PROVE  /\ lock'[s] \in Saves /\ s \in SlotsOf(asked[lock'[s]])
                      /\ draft'[s].content = lock'[s]
                      /\ embedded[lock'[s]] => draft'[s].embedding = lock'[s]
    BY <1>2 DEF DraftIsOfItsSave
  <2>1. CASE s = asked[c][i].slot
    BY <1>1, <1>3, <1>4, <2>1 DEF Writes
  <2>2. CASE s # asked[c][i].slot
    BY <1>1, <2>2 DEF Writes, EInv, DraftIsOfItsSave
  <2> QED
    BY <2>1, <2>2
<1>6. EmbeddedIsLast'
  BY <1>0, <1>1, <1>2, <1>3, CallsAreSomebody DEF EInv, EmbeddedIsLast, AllUpserted
<1> QED
  BY <1>2, <1>5, <1>6 DEF EInv, EmbeddingMatchesContent, Matchable

LEMMA DeleteRowEmbeds ==
  ASSUME EInv, NEW c \in Calls, DeleteRow(c)
  PROVE  (EmbeddingMatchesContent /\ DraftIsOfItsSave /\ EmbeddedIsLast)'
<1>1. PICK s \in Slots :
            \/ \E new \in Rows : ~Live(new) /\ Writes(c, s, new)
            \/ UNCHANGED <<draft, lock>>
  BY DeleteRowWrites DEF EInv
<1>2. UNCHANGED <<row, pc, asked, upserted, deletes, embedded, subs, alongside>>
  BY DEF DeleteRow
<1>3. DraftIsOfItsSave'
  <2>1. CASE \E new \in Rows : ~Live(new) /\ Writes(c, s, new)
    <3>1. /\ ~Live(draft'[s])
          /\ \A t \in Slots \ {s} : draft'[t] = draft[t] /\ lock'[t] = lock[t]
      BY <2>1 DEF Writes
    <3> QED
      BY <1>2, <3>1 DEF EInv, DraftIsOfItsSave
  <2>2. CASE UNCHANGED <<draft, lock>>
    BY <1>2, <2>2 DEF EInv, DraftIsOfItsSave
  <2> QED
    BY <1>1, <2>1, <2>2
<1> QED
  BY <1>2, <1>3 DEF EInv, EmbeddedIsLast, AllUpserted, EmbeddingMatchesContent, Matchable

LEMMA EmbedEmbeds ==
  ASSUME EInv, NEW c \in Saves, Embed(c)
  PROVE  (EmbeddingMatchesContent /\ DraftIsOfItsSave /\ EmbeddedIsLast)'
<1>0. c \in Calls /\ c # Nobody
  BY CallsAreSomebody
<1>1. /\ \A s \in SlotsOf(asked[c]) :
              /\ s \in Slots /\ lock[s] = c
              /\ draft'[s].content = draft[s].content
              /\ Live(draft'[s]) => Live(draft[s]) /\ draft'[s].embedding = c
      /\ \A s \in Slots \ SlotsOf(asked[c]) : draft'[s] = draft[s]
      /\ embedded'[c] /\ \A d \in Calls \ {c} : embedded'[d] = embedded[d]
  BY EmbedWrites DEF EInv
<1>2. AllUpserted(c) /\ UNCHANGED <<row, lock, pc, asked, upserted, deletes, target, subs, alongside>>
  BY DEF Embed
<1>3. DraftIsOfItsSave'
  <2> SUFFICES ASSUME NEW s \in Slots, lock[s] # Nobody, Live(draft'[s])
               PROVE  /\ lock[s] \in Saves /\ s \in SlotsOf(asked[lock[s]])
                      /\ draft'[s].content = lock[s]
                      /\ embedded'[lock[s]] => draft'[s].embedding = lock[s]
    BY <1>2 DEF DraftIsOfItsSave
  <2>1. CASE s \in SlotsOf(asked[c])
    BY <1>0, <1>1, <2>1 DEF EInv, DraftIsOfItsSave
  <2>2. CASE s \notin SlotsOf(asked[c])
    <3>1. draft'[s] = draft[s]
      BY <1>1, <2>2
    <3>2. lock[s] \in Calls \ {c}
      BY <2>2, <3>1 DEF EInv, DraftIsOfItsSave, TInv, TypeOK
    <3> QED
      BY <1>1, <3>1, <3>2 DEF EInv, DraftIsOfItsSave
  <2> QED
    BY <2>1, <2>2
<1>4. EmbeddedIsLast'
  BY <1>1, <1>2, CallsAreSomebody DEF EInv, EmbeddedIsLast, AllUpserted
<1> QED
  BY <1>2, <1>3, <1>4 DEF EInv, EmbeddingMatchesContent, Matchable

LEMMA FinishesEmbeds ==
  ASSUME EInv, NEW cs \in SUBSET Calls, Finishes(cs)
  PROVE  (DraftIsOfItsSave /\ EmbeddedIsLast)'
<1>1. DraftIsOfItsSave'
  <2> SUFFICES ASSUME NEW s \in Slots, lock'[s] # Nobody, Live(draft'[s])
               PROVE  /\ lock'[s] \in Saves /\ s \in SlotsOf(asked'[lock'[s]])
                      /\ draft'[s].content = lock'[s]
                      /\ embedded'[lock'[s]] => draft'[s].embedding = lock'[s]
    BY DEF DraftIsOfItsSave
  <2>1. lock[s] \notin cs /\ lock'[s] = lock[s] /\ draft'[s] = draft[s] /\ lock[s] # Nobody
    BY DEF Finishes
  <2>2. lock[s] \in Calls \ cs
    BY <2>1 DEF EInv, TInv, TypeOK
  <2>3. asked'[lock[s]] = asked[lock[s]] /\ embedded'[lock[s]] = embedded[lock[s]]
    BY <2>2, FinishesForgets DEF EInv
  <2> QED
    BY <2>1, <2>3 DEF EInv, DraftIsOfItsSave
<1>2. ASSUME NEW c \in Saves, embedded'[c]
      PROVE  upserted'[c] = Len(asked'[c])
  <2>1. c \in Calls \ cs
    BY <1>2, CallsAreSomebody, FinishesForgets DEF EInv
  <2>2. /\ asked'[c] = asked[c] /\ upserted'[c] = upserted[c] /\ embedded'[c] = embedded[c]
    BY <2>1, FinishesForgets DEF EInv
  <2> QED
    BY <1>2, <2>2 DEF EInv, EmbeddedIsLast, AllUpserted
<1> QED
  BY <1>1, <1>2 DEF EmbeddedIsLast, AllUpserted

LEMMA CommitEmbeds ==
  ASSUME EInv, NEW c \in Calls, Commit(c)
  PROVE  (EmbeddingMatchesContent /\ DraftIsOfItsSave /\ EmbeddedIsLast)'
<1>1. /\ Finishes({c}) /\ embedded[c]
      /\ \A s \in Slots : row'[s] = IF lock[s] = c THEN draft[s] ELSE row[s]
  BY CommitFinishes DEF EInv, Commit, Settled
<1>2. ASSUME NEW s \in Slots, Live(row'[s])
      PROVE  row'[s].embedding = row'[s].content
  <2>1. CASE lock[s] = c
    BY <1>1, <1>2, <2>1, CallsAreSomebody DEF EInv, DraftIsOfItsSave
  <2>2. CASE lock[s] # c
    BY <1>1, <1>2, <2>2 DEF EInv, EmbeddingMatchesContent, Matchable
  <2> QED
    BY <2>1, <2>2
<1> QED
  BY <1>1, <1>2, FinishesEmbeds DEF EmbeddingMatchesContent, Matchable

LEMMA EmbeddedInit == Init => EInv
<1> SUFFICES ASSUME Init PROVE EInv
  OBVIOUS
<1>1. EmbeddingMatchesContent /\ DraftIsOfItsSave /\ EmbeddedIsLast
  BY CallsAreSomebody DEF Init, EmbeddingMatchesContent, Matchable, Live, DraftIsOfItsSave,
     EmbeddedIsLast
<1> QED
  BY <1>1, TypedInit DEF EInv

LEMMA EmbeddedNext == EInv /\ [Next]_vars => EInv'
<1> SUFFICES ASSUME EInv, [Next]_vars PROVE EInv'
  OBVIOUS
<1> DEFINE Good == EmbeddingMatchesContent /\ DraftIsOfItsSave /\ EmbeddedIsLast
<1>1. ASSUME NEW c \in Saves, NEW ns \in SaveRequests, UpsertNodes(c, ns) PROVE Good'
  <2>1. c \in Calls /\ ~Open(c) /\ embedded[c] = FALSE
    BY <1>1, CallsAreSomebody, BeginOpens DEF UpsertNodes, EInv, TInv, Resting
  <2>2. /\ UNCHANGED <<row, draft, lock, upserted, embedded>>
        /\ \A d \in Calls \ {c} : asked'[d] = asked[d]
    BY <1>1 DEF UpsertNodes, EInv, TInv, TypeOK
  <2> QED
    BY <2>1, <2>2, DraftsKeep
<1>2. ASSUME NEW c \in Removals, NEW r \in RemoveRequests, RemoveNodes(c, r) PROVE Good'
  <2>1. c \in Calls /\ c \notin Saves /\ ~Open(c)
    BY <1>2, CallsAreSomebody, BeginOpens DEF RemoveNodes, EInv
  <2>2. /\ UNCHANGED <<row, draft, lock, upserted, asked>>
        /\ \A d \in Calls \ {c} : embedded'[d] = embedded[d]
    BY <1>2 DEF RemoveNodes, EInv, TInv, TypeOK
  <2> QED
    BY <2>1, <2>2, DraftsKeep
<1>3. ASSUME NEW cs \in SUBSET Calls, Ended(cs) PROVE Good'
  <2>1. Finishes(cs) /\ UNCHANGED row
    BY <1>3, EndedFinishes DEF EInv
  <2> QED
    BY <2>1, FinishesEmbeds DEF EInv, EmbeddingMatchesContent, Matchable
<1>4. ASSUME NEW c \in Calls, Fail(c) PROVE Good'
  BY <1>3, <1>4 DEF Fail
<1>5. ASSUME NEW c \in Removals, Crash(c) PROVE Good'
  <2>1. {d \in Calls : Open(d)} \in SUBSET Calls
    OBVIOUS
  <2> QED
    BY <1>3, <1>5, <2>1 DEF Crash
<1>6. ASSUME UNCHANGED <<row, draft, lock, asked, upserted, embedded>> PROVE Good'
  BY <1>6 DEF EInv, EmbeddingMatchesContent, Matchable, DraftIsOfItsSave, EmbeddedIsLast,
     AllUpserted
<1>7. ASSUME NEW c \in Calls, Delete(c) \/ Deleted(c) PROVE Good'
  BY <1>6, <1>7 DEF Delete, Deleted
<1>8. ASSUME NEW c \in Saves, Upsert(c) \/ Embed(c) PROVE Good'
  BY <1>8, UpsertEmbeds, EmbedEmbeds
<1>9. ASSUME NEW c \in Calls, DeleteRow(c) \/ Commit(c) PROVE Good'
  BY <1>9, DeleteRowEmbeds, CommitEmbeds
<1>10. ASSUME UNCHANGED vars PROVE Good'
  <2>1. UNCHANGED <<row, draft, lock, asked, upserted, embedded>>
    BY <1>10 DEF vars
  <2> QED
    BY <1>6, <2>1
<1>11. Good'
  <2> HIDE DEF Good
  <2> QED
    BY <1>1, <1>2, <1>4, <1>5, <1>7, <1>8, <1>9, <1>10 DEF Next
<1> QED
  BY <1>11, TypedNext DEF EInv

\* Whatever saves of a node overlap, fail, or have their vectors come in any order, the
\* embedding of a node that can be found is that of its content.
THEOREM EmbeddingMatchesContentHolds == Spec => []EmbeddingMatchesContent
<1>1. EInv => EmbeddingMatchesContent
  BY DEF EInv
<1> QED
  BY <1>1, EmbeddedInit, EmbeddedNext, PTL DEF Spec

-----------------------------------------------------------------------------
(* The levels. *)

\* Every parent of the nodes has its statement: it comes in somewhere first.
LEMMA ParentsHaveStatements ==
  ASSUME NEW ns \in Seq(Nodes), NEW p \in ParentsOf(ns)
  PROVE  \E d \in Levels(ns) : d[2] = p
<1> DEFINE With == {k \in DOMAIN ns : ns[k].parent = p}
<1>1. DOMAIN ns = 1..Len(ns) /\ Len(ns) \in Nat
  OBVIOUS
<1>2. With \subseteq Nat /\ With # {}
  BY <1>1 DEF ParentsOf
<1>3. PICK k \in With : \A j \in With : ~(<<j, k>> \in OpToRel(<, Nat))
  <2> HIDE DEF With
  <2> QED
    BY <1>2, NatLessThanWellFounded, WFMin
<1>4. \A j \in 1..(k - 1) : ns[j].parent # p
  <2> SUFFICES ASSUME NEW j \in 1..(k - 1), ns[j].parent = p
               PROVE  FALSE
    OBVIOUS
  <2>1. k \in 1..Len(ns)
    BY <1>1, <1>3
  <2>2. j \in With /\ j \in Nat /\ k \in Nat /\ j < k
    BY <1>1, <2>1
  <2>3. <<j, k>> \in OpToRel(<, Nat)
    BY <2>2 DEF OpToRel
  <2> QED
    BY <1>3, <2>2, <2>3
<1>5. <<k, ns[k].parent>> \in Levels(ns) /\ ns[k].parent = p
  BY <1>3, <1>4 DEF Levels
<1> QED
  BY <1>5

\* What c sees of a slot becomes something else only if the slot is one of its own, the
\* row is gone, or it was written by a call alongside.
KeepsSeen(c) ==
    \A s \in Slots :
        \/ s \in SlotsOf(asked[c])
        \/ Seen(c, s)' = Seen(c, s)
        \/ ~Live(Seen(c, s)')
        \/ Seen(c, s)'.content \in alongside[c]

KeepsCall(c) ==
    /\ pc'[c] = pc[c] /\ asked'[c] = asked[c]
    /\ deletes'[c] = deletes[c] /\ target'[c] = target[c]
    /\ alongside[c] \subseteq alongside'[c]
    /\ KeepsSeen(c)

\* The invariant of one save.
Clears(c) ==
    /\ Open(c) => \A p \in ParentsOf(asked[c]) :
                      (\E d \in deletes[c] : d[2] = p) \/ Cleared(c, p)
    /\ pc[c] = "deleting" => Found(c, Current(c)[2])

LEMMA ClearsIsLevels == (\A c \in Saves : Clears(c)) <=> LevelsToClear /\ RunningStatement
BY DEF Clears, LevelsToClear, RunningStatement

LEMMA CurrentKeeps ==
  ASSUME NEW c \in Calls, deletes'[c] = deletes[c]
  PROVE  Current(c)' = Current(c)
BY DEF Current

LEMMA ClearedKeeps ==
  ASSUME NEW c \in Calls, asked'[c] = asked[c], alongside[c] \subseteq alongside'[c],
         KeepsSeen(c), NEW p, Cleared(c, p)
  PROVE  Cleared(c, p)'
BY DEF KeepsSeen, Cleared, Foreign, Live

LEMMA ClearsKeeps ==
  ASSUME NEW c \in Calls, Clears(c), KeepsCall(c)
  PROVE  Clears(c)'
<1>1. ASSUME NEW p, Found(c, p) PROVE Found(c, p)'
  BY <1>1 DEF KeepsCall, KeepsSeen, Found, Foreign, Live
<1>2. Current(c)' = Current(c)
  BY CurrentKeeps DEF KeepsCall
<1>3. ASSUME pc'[c] = "deleting" PROVE Found(c, Current(c)[2])'
  <2> DEFINE p == Current(c)[2]
  <2>1. PICK q : q = p
    OBVIOUS
  <2>2. Found(c, q)
    BY <1>3, <2>1 DEF Clears, KeepsCall
  <2>3. Found(c, q)'
    BY <1>1, <2>2
  <2>4. q = Current(c)'[2]
    BY <1>2, <2>1
  <2> QED
    BY <2>3, <2>4 DEF Found, Foreign
<1>4. ASSUME NEW p \in ParentsOf(asked'[c]), Open(c)'
      PROVE  (\E d \in deletes'[c] : d[2] = p) \/ Cleared(c, p)'
  <2>1. Open(c) /\ p \in ParentsOf(asked[c])
    BY <1>4 DEF KeepsCall, Open
  <2>2. CASE \E d \in deletes[c] : d[2] = p
    BY <2>2 DEF KeepsCall
  <2>3. CASE Cleared(c, p)
    BY <2>3, ClearedKeeps DEF KeepsCall
  <2> QED
    BY <2>1, <2>2, <2>3 DEF Clears
<1> QED
  BY <1>3, <1>4 DEF Clears

\* A write of one call is not seen by another.
LEMMA WritesUnseen ==
  ASSUME NEW c \in Calls, NEW d \in Calls \ {c}, NEW s \in Slots, NEW new,
         Writes(c, s, new), UNCHANGED row, NEW t \in Slots
  PROVE  Seen(d, t)' = Seen(d, t)
BY CallsAreSomebody DEF Writes, Seen

LEMMA BeginClears ==
  ASSUME LInv, NEW c \in Calls, Begin(c), UNCHANGED <<row, draft, lock, target>>,
         \A d \in Calls \ {c} : asked'[d] = asked[d] /\ deletes'[d] = deletes[d],
         c \in Saves => /\ asked'[c] \in Seq(Nodes)
                        /\ deletes'[c] = Levels(asked'[c])
  PROVE  (OpenTogether /\ LevelsToClear /\ RunningStatement)'
<1>1. /\ pc'[c] = "open" /\ \A d \in Calls \ {c} : pc'[d] = pc[d]
      /\ \A d \in Calls : Open(d) => d \in alongside'[c] /\ c \in alongside'[d]
      /\ \A d \in Calls \ {c} : alongside[d] \subseteq alongside'[d]
  BY BeginOpens DEF LInv, EInv
<1>2. OpenTogether'
  BY <1>1 DEF OpenTogether, Open, LInv
<1>3. ASSUME NEW d \in Saves PROVE Clears(d)'
  <2>1. CASE d = c
    <3>1. \A p \in ParentsOf(asked'[c]) : \E e \in deletes'[c] : e[2] = p
      BY <2>1, ParentsHaveStatements
    <3> QED
      BY <1>1, <2>1, <3>1 DEF Clears
  <2>2. CASE d # c
    <3>1. d \in Calls \ {c} /\ Clears(d)
      BY <2>2, CallsAreSomebody, ClearsIsLevels DEF LInv
    <3>2. KeepsCall(d)
      BY <1>1, <3>1 DEF KeepsCall, KeepsSeen, Seen
    <3> QED
      BY <3>1, <3>2, ClearsKeeps
  <2> QED
    BY <2>1, <2>2
<1>4. (LevelsToClear /\ RunningStatement)'
  BY <1>3 DEF Clears, LevelsToClear, RunningStatement
<1> QED
  BY <1>2, <1>4

LEMMA UpsertClears ==
  ASSUME LInv, NEW c \in Saves, Upsert(c)
  PROVE  (OpenTogether /\ LevelsToClear /\ RunningStatement)'
<1>0. c \in Calls
  BY CallsAreSomebody
<1>1. PICK i \in 1..Len(asked[c]), new \in Rows :
            asked[c][i].slot \in Slots /\ Writes(c, asked[c][i].slot, new)
  BY UpsertWrites DEF LInv, EInv
<1>2. UNCHANGED <<row, pc, asked, deletes, target, embedded, subs, alongside>>
  BY DEF Upsert
<1>3. asked[c][i].slot \in SlotsOf(asked[c])
  BY <1>0, <1>1 DEF SlotsOf, LInv, EInv, TInv, TypeOK
<1>4. KeepsSeen(c)
  BY <1>1, <1>2, <1>3 DEF KeepsSeen, Seen, Writes
<1>5. ASSUME NEW d \in Saves PROVE Clears(d)'
  <2>1. KeepsSeen(d)
    <3>1. CASE d = c
      BY <1>4, <3>1
    <3>2. CASE d # c
      BY <1>0, <1>1, <1>2, <3>2, WritesUnseen, CallsAreSomebody DEF KeepsSeen
    <3> QED
      BY <3>1, <3>2
  <2>2. KeepsCall(d)
    BY <1>2, <2>1 DEF KeepsCall
  <2>3. Clears(d) /\ d \in Calls
    BY CallsAreSomebody, ClearsIsLevels DEF LInv
  <2> QED
    BY <2>2, <2>3, ClearsKeeps
<1>6. (LevelsToClear /\ RunningStatement)'
  BY <1>5 DEF Clears, LevelsToClear, RunningStatement
<1> QED
  BY <1>2, <1>6 DEF LInv, OpenTogether, Open

LEMMA EmbedClears ==
  ASSUME LInv, NEW c \in Saves, Embed(c)
  PROVE  (OpenTogether /\ LevelsToClear /\ RunningStatement)'
<1>0. c \in Calls
  BY CallsAreSomebody
<1>1. /\ \A s \in SlotsOf(asked[c]) : s \in Slots /\ lock[s] = c
      /\ \A s \in Slots \ SlotsOf(asked[c]) : draft'[s] = draft[s]
  BY EmbedWrites DEF LInv, EInv
<1>2. UNCHANGED <<row, lock, pc, asked, upserted, deletes, target, subs, alongside>>
  BY DEF Embed
<1>3. ASSUME NEW d \in Saves PROVE Clears(d)'
  <2>1. KeepsSeen(d)
    BY <1>1, <1>2 DEF KeepsSeen, Seen
  <2>2. KeepsCall(d)
    BY <1>2, <2>1 DEF KeepsCall
  <2>3. Clears(d) /\ d \in Calls
    BY CallsAreSomebody, ClearsIsLevels DEF LInv
  <2> QED
    BY <2>2, <2>3, ClearsKeeps
<1>4. (LevelsToClear /\ RunningStatement)'
  BY <1>3 DEF Clears, LevelsToClear, RunningStatement
<1> QED
  BY <1>2, <1>4 DEF LInv, OpenTogether, Open

\* What a save's statement looks for and does not find is not there to be cleared.
LEMMA DeleteClears ==
  ASSUME LInv, NEW c \in Calls, Delete(c)
  PROVE  (OpenTogether /\ LevelsToClear /\ RunningStatement)'
<1> DEFINE found == {<<s, Seen(c, s).id>> : s \in {t \in Slots : Doomed(c, t, Seen(c, t))}}
<1>1. /\ pc[c] = "open" /\ pc' = [pc EXCEPT ![c] = "deleting"]
      /\ target' = [target EXCEPT ![c] = found]
      /\ UNCHANGED <<row, draft, lock, asked, upserted, deletes, embedded, subs, alongside>>
  BY DEF Delete
<1>2. /\ pc'[c] = "deleting" /\ target'[c] = found
      /\ \A d \in Calls \ {c} : pc'[d] = pc[d] /\ target'[d] = target[d]
  <2> HIDE DEF found
  <2> QED
    BY <1>1 DEF LInv, EInv, TInv, TypeOK
<1>3. \A d \in Calls : KeepsSeen(d)
  BY <1>1 DEF KeepsSeen, Seen
<1>4. ASSUME c \in Saves PROVE Clears(c)'
  <2>1. Clears(c) /\ Open(c)
    BY <1>1, <1>4, ClearsIsLevels DEF LInv, Open
  <2>2. \A p \in ParentsOf(asked[c]) : (\E d \in deletes[c] : d[2] = p) \/ Cleared(c, p)
    BY <2>1 DEF Clears
  <2>3. \A p : Cleared(c, p) => Cleared(c, p)'
    BY <1>1, <1>3, ClearedKeeps
  <2>4. \A p \in ParentsOf(asked'[c]) : (\E d \in deletes'[c] : d[2] = p) \/ Cleared(c, p)'
    BY <1>1, <2>2, <2>3
  <2>5. ASSUME NEW s \in Slots, s \notin SlotsOf(asked[c]), Live(Seen(c, s)),
               Seen(c, s).parent = Current(c)[2]
        PROVE  <<s, Seen(c, s).id>> \in found
    <3>1. Doomed(c, s, Seen(c, s))
      BY <1>4, <2>5 DEF Doomed
    <3> QED
      BY <3>1
  <2>6. Current(c)' = Current(c) /\ \A s \in Slots : Seen(c, s)' = Seen(c, s)
    BY <1>1, CurrentKeeps DEF Seen
  <2>7. PICK q : q = Current(c)[2]
    OBVIOUS
  <2>8. Found(c, q)'
    <3> HIDE DEF found
    <3> QED
      BY <1>1, <1>2, <2>5, <2>6, <2>7 DEF Found, Foreign, Live
  <2>9. Found(c, Current(c)[2])'
    <3>1. q = Current(c)'[2]
      BY <2>6, <2>7
    <3> QED
      BY <2>8, <3>1 DEF Found, Foreign
  <2> QED
    BY <2>4, <2>9 DEF Clears
<1>5. ASSUME NEW d \in Saves PROVE Clears(d)'
  <2>1. CASE d = c
    BY <1>4, <2>1
  <2>2. CASE d # c
    <3>1. KeepsCall(d) /\ Clears(d) /\ d \in Calls
      BY <1>1, <1>2, <1>3, <2>2, CallsAreSomebody, ClearsIsLevels DEF KeepsCall, LInv
    <3> QED
      BY <3>1, ClearsKeeps
  <2> QED
    BY <2>1, <2>2
<1>6. (LevelsToClear /\ RunningStatement)'
  BY <1>5 DEF Clears, LevelsToClear, RunningStatement
<1>7. OpenTogether'
  BY <1>1, <1>2 DEF LInv, OpenTogether, Open
<1> QED
  BY <1>6, <1>7

\* A row the statement has found is deleted, or is no longer what it looks for.
LEMMA DeleteRowClears ==
  ASSUME LInv, NEW c \in Calls, DeleteRow(c)
  PROVE  (OpenTogether /\ LevelsToClear /\ RunningStatement)'
<1>1. PICK s \in Slots, id \in GivenIds :
            /\ <<s, id>> \in target[c]
            /\ target'[c] = target[c] \ {<<s, id>>}
            /\ \A d \in Calls \ {c} : target'[d] = target[d]
            /\ target' \in [Calls -> SUBSET (Slots \X GivenIds)]
            /\ \/ /\ Doomed(c, s, Seen(c, s)) /\ Seen(c, s).id = id
                  /\ \E new \in Rows : ~Live(new) /\ Writes(c, s, new)
               \/ /\ ~(Doomed(c, s, Seen(c, s)) /\ Seen(c, s).id = id)
                  /\ UNCHANGED <<draft, lock>>
  <2>1. TInv
    BY DEF LInv, EInv
  <2> QED
    BY <2>1, DeleteRowWrites
<1>2. UNCHANGED <<row, pc, asked, upserted, deletes, embedded, subs, alongside>>
  BY DEF DeleteRow
<1>3. \A d \in Calls \ {c}, t \in Slots : Seen(d, t)' = Seen(d, t)
  <2>1. CASE \E new \in Rows : ~Live(new) /\ Writes(c, s, new)
    BY <1>2, <2>1, WritesUnseen
  <2>2. CASE UNCHANGED <<draft, lock>>
    BY <1>2, <2>2 DEF Seen
  <2> QED
    BY <1>1, <2>1, <2>2
<1>4. \A t \in Slots : Seen(c, t)' = Seen(c, t) \/ (t = s /\ ~Live(Seen(c, t)'))
  <2>1. CASE \E new \in Rows : ~Live(new) /\ Writes(c, s, new)
    BY <1>2, <2>1 DEF Seen, Writes
  <2>2. CASE UNCHANGED <<draft, lock>>
    BY <1>2, <2>2 DEF Seen
  <2> QED
    BY <1>1, <2>1, <2>2
<1>5. \A d \in Calls : KeepsSeen(d)
  BY <1>3, <1>4 DEF KeepsSeen
<1>6. ASSUME c \in Saves PROVE Clears(c)'
  <2>1. Clears(c)
    BY <1>6, ClearsIsLevels DEF LInv
  <2>2. \A p \in ParentsOf(asked'[c]) : Open(c)' =>
            (\E d \in deletes'[c] : d[2] = p) \/ Cleared(c, p)'
    BY <1>2, <1>5, <2>1, ClearedKeeps DEF Clears, Open
  <2>3. PICK q : q = Current(c)[2]
    OBVIOUS
  <2>4. Found(c, q)
    BY <2>1, <2>3 DEF Clears, DeleteRow
  <2>5. ASSUME NEW t \in Slots, Foreign(c, t, q)'
        PROVE  Seen(c, t)'.content \in alongside'[c] \/ <<t, Seen(c, t)'.id>> \in target'[c]
    <3>1. Seen(c, t)' = Seen(c, t) /\ Foreign(c, t, q)
      BY <1>2, <1>4, <2>5 DEF Foreign, Live
    <3>2. Seen(c, t).content \in alongside[c] \/ <<t, Seen(c, t).id>> \in target[c]
      BY <2>4, <3>1 DEF Found
    <3>3. <<t, Seen(c, t).id>> # <<s, id>>
      <4> SUFFICES ASSUME t = s, Seen(c, t).id = id
                   PROVE  FALSE
        OBVIOUS
      <4>1. Doomed(c, s, Seen(c, s))
        BY <1>6, <2>3, <3>1 DEF Doomed, Foreign
      <4>2. \E new \in Rows : ~Live(new) /\ Writes(c, s, new)
        BY <1>1, <4>1
      <4>3. ~Live(Seen(c, s)')
        BY <1>2, <4>2 DEF Seen, Writes
      <4> QED
        BY <2>5, <4>3 DEF Foreign, Live
    <3> QED
      BY <1>1, <1>2, <3>1, <3>2, <3>3
  <2>6. Found(c, q)'
    BY <2>5 DEF Found
  <2>7. q = Current(c)'[2]
    BY <1>2, <2>3, CurrentKeeps
  <2>8. Found(c, Current(c)[2])'
    BY <2>6, <2>7 DEF Found, Foreign
  <2> QED
    BY <2>2, <2>8 DEF Clears
<1>7. ASSUME NEW d \in Saves PROVE Clears(d)'
  <2>1. CASE d = c
    BY <1>6, <2>1
  <2>2. CASE d # c
    <3>1. KeepsCall(d) /\ Clears(d) /\ d \in Calls
      BY <1>1, <1>2, <1>5, <2>2, CallsAreSomebody, ClearsIsLevels DEF KeepsCall, LInv
    <3> QED
      BY <3>1, ClearsKeeps
  <2> QED
    BY <2>1, <2>2
<1>8. (LevelsToClear /\ RunningStatement)'
  BY <1>7 DEF Clears, LevelsToClear, RunningStatement
<1> QED
  BY <1>2, <1>8 DEF LInv, OpenTogether, Open

\* A statement that has written all it has found has cleared its level.
LEMMA DeletedClears ==
  ASSUME LInv, NEW c \in Calls, Deleted(c)
  PROVE  (OpenTogether /\ LevelsToClear /\ RunningStatement)'
<1>1. /\ pc[c] = "deleting" /\ target[c] = {} /\ pc' = [pc EXCEPT ![c] = "open"]
      /\ deletes' = [deletes EXCEPT ![c] = @ \ {Current(c)}]
      /\ UNCHANGED <<row, draft, lock, asked, upserted, target, embedded, subs, alongside>>
  BY DEF Deleted
<1>2. /\ pc'[c] = "open" /\ deletes'[c] = deletes[c] \ {Current(c)}
      /\ \A d \in Calls \ {c} : pc'[d] = pc[d] /\ deletes'[d] = deletes[d]
  BY <1>1 DEF LInv, EInv, TInv, TypeOK
<1>3. \A d \in Calls : KeepsSeen(d)
  BY <1>1 DEF KeepsSeen, Seen
<1>4. ASSUME c \in Saves PROVE Clears(c)'
  <2>1. Clears(c) /\ Open(c)
    BY <1>1, <1>4, ClearsIsLevels DEF LInv, Open
  <2>2. Cleared(c, Current(c)[2])
    BY <1>1, <2>1 DEF Clears, Found, Cleared
  <2>3. ASSUME NEW p \in ParentsOf(asked[c])
        PROVE  (\E d \in deletes'[c] : d[2] = p) \/ Cleared(c, p)
    <3>1. CASE Cleared(c, p)
      BY <3>1
    <3>2. CASE \E d \in deletes[c] : d[2] = p
      <4>1. PICK d \in deletes[c] : d[2] = p
        BY <3>2
      <4>2. CASE d = Current(c)
        BY <2>2, <4>1, <4>2
      <4>3. CASE d # Current(c)
        BY <1>2, <4>1, <4>3
      <4> QED
        BY <4>2, <4>3
    <3> QED
      BY <2>1, <3>1, <3>2 DEF Clears
  <2>4. \A p : Cleared(c, p) => Cleared(c, p)'
    BY <1>1, <1>3, ClearedKeeps
  <2> QED
    BY <1>1, <1>2, <2>3, <2>4 DEF Clears
<1>5. ASSUME NEW d \in Saves PROVE Clears(d)'
  <2>1. CASE d = c
    BY <1>4, <2>1
  <2>2. CASE d # c
    <3>1. KeepsCall(d) /\ Clears(d) /\ d \in Calls
      BY <1>1, <1>2, <1>3, <2>2, CallsAreSomebody, ClearsIsLevels DEF KeepsCall, LInv
    <3> QED
      BY <3>1, ClearsKeeps
  <2> QED
    BY <2>1, <2>2
<1>6. (LevelsToClear /\ RunningStatement)'
  BY <1>5 DEF Clears, LevelsToClear, RunningStatement
<1>7. OpenTogether'
  BY <1>1, <1>2 DEF LInv, OpenTogether, Open
<1> QED
  BY <1>6, <1>7

LEMMA FinishesClears ==
  ASSUME LInv, NEW cs \in SUBSET Calls, Finishes(cs),
         \A d \in Calls \ cs : Open(d) => KeepsSeen(d)
  PROVE  (OpenTogether /\ LevelsToClear /\ RunningStatement)'
<1>1. /\ \A c \in cs : ~Open(c)'
      /\ \A c \in Calls \ cs : pc'[c] = pc[c] /\ asked'[c] = asked[c]
                               /\ deletes'[c] = deletes[c] /\ target'[c] = target[c]
                               /\ alongside'[c] = alongside[c]
  <2>1. TInv
    BY DEF LInv, EInv
  <2>2. /\ \A c \in cs : /\ ~Open(c)'
                          /\ asked'[c] = <<>> /\ upserted'[c] = 0 /\ deletes'[c] = {}
                          /\ target'[c] = {} /\ embedded'[c] = FALSE
        /\ \A c \in Calls \ cs : /\ pc'[c] = pc[c] /\ asked'[c] = asked[c]
                                 /\ upserted'[c] = upserted[c] /\ deletes'[c] = deletes[c]
                                 /\ target'[c] = target[c] /\ embedded'[c] = embedded[c]
                                 /\ alongside'[c] = alongside[c]
    BY <2>1, FinishesForgets, Zenon
  <2> QED
    BY <2>2
<1>2. ASSUME NEW d \in Saves PROVE Clears(d)'
  <2>1. CASE ~Open(d)'
    BY <2>1 DEF Clears, Open
  <2>2. CASE Open(d)'
    <3>1. d \in Calls \ cs
      BY <1>1, <2>2, CallsAreSomebody
    <3>2. Open(d) /\ Clears(d)
      BY <1>1, <2>2, <3>1, ClearsIsLevels DEF LInv, Open
    <3>3. KeepsCall(d)
      BY <1>1, <3>1, <3>2 DEF KeepsCall
    <3> QED
      BY <3>1, <3>2, <3>3, ClearsKeeps
  <2> QED
    BY <2>1, <2>2
<1>3. (LevelsToClear /\ RunningStatement)'
  BY <1>2 DEF Clears, LevelsToClear, RunningStatement
<1>4. OpenTogether'
  BY <1>1 DEF LInv, OpenTogether, Open
<1> QED
  BY <1>3, <1>4

\* What a commit shows to an open save is of a call alongside it.
LEMMA CommitClears ==
  ASSUME LInv, NEW c \in Calls, Commit(c)
  PROVE  (OpenTogether /\ LevelsToClear /\ RunningStatement)'
<1>1. /\ Finishes({c}) /\ Open(c)
      /\ \A s \in Slots : row'[s] = IF lock[s] = c THEN draft[s] ELSE row[s]
  BY CommitFinishes DEF LInv, EInv, Commit, Settled, Open
<1>2. ASSUME NEW d \in Calls \ {c}, Open(d) PROVE KeepsSeen(d)
  <2>1. c \in alongside[d] /\ d # Nobody /\ c # Nobody
    BY <1>1, <1>2, CallsAreSomebody DEF LInv, OpenTogether
  <2> SUFFICES ASSUME NEW s \in Slots
               PROVE  \/ Seen(d, s)' = Seen(d, s)
                      \/ ~Live(Seen(d, s)')
                      \/ Seen(d, s)'.content \in alongside[d]
    BY DEF KeepsSeen
  <2>2. CASE lock[s] = c
    <3>1. Seen(d, s)' = draft[s]
      BY <1>1, <2>1, <2>2 DEF Seen, Finishes
    <3>2. Live(draft[s]) => draft[s].content = c
      BY <2>1, <2>2 DEF LInv, EInv, DraftIsOfItsSave
    <3> QED
      BY <2>1, <3>1, <3>2
  <2>3. CASE lock[s] # c
    BY <1>1, <2>1, <2>3 DEF Seen, Finishes
  <2> QED
    BY <2>2, <2>3
<1> QED
  BY <1>1, <1>2, FinishesClears

LEMMA EndedClears ==
  ASSUME LInv, NEW cs \in SUBSET Calls, Ended(cs)
  PROVE  (OpenTogether /\ LevelsToClear /\ RunningStatement)'
<1>1. Finishes(cs) /\ UNCHANGED row
  BY EndedFinishes DEF LInv, EInv
<1>2. ASSUME NEW d \in Calls \ cs PROVE KeepsSeen(d)
  BY <1>1, CallsAreSomebody DEF KeepsSeen, Seen, Finishes
<1> QED
  BY <1>1, <1>2, FinishesClears

LEMMA ClearedInit == Init => LInv
BY EmbeddedInit DEF Init, LInv, OpenTogether, LevelsToClear, RunningStatement, Open, Calls

LEMMA ClearedNext == LInv /\ [Next]_vars => LInv'
<1> SUFFICES ASSUME LInv, [Next]_vars PROVE LInv'
  OBVIOUS
<1> DEFINE Good == OpenTogether /\ LevelsToClear /\ RunningStatement
<1>1. ASSUME NEW c \in Saves, NEW ns \in SaveRequests, UpsertNodes(c, ns) PROVE Good'
  <2>1. c \in Calls
    BY CallsAreSomebody
  <2>2. /\ Begin(c) /\ UNCHANGED <<row, draft, lock, target>>
        /\ asked'[c] = ns /\ deletes'[c] = Levels(ns)
        /\ \A d \in Calls \ {c} : asked'[d] = asked[d] /\ deletes'[d] = deletes[d]
    BY <1>1, <2>1 DEF UpsertNodes, LInv, EInv, TInv, TypeOK
  <2>3. ns \in Seq(Nodes)
    BY RequestAssumption
  <2> QED
    BY <2>1, <2>2, <2>3, BeginClears
<1>2. ASSUME NEW c \in Removals, NEW r \in RemoveRequests, RemoveNodes(c, r) PROVE Good'
  <2>1. c \in Calls /\ c \notin Saves
    BY CallsAreSomebody
  <2>2. /\ Begin(c) /\ UNCHANGED <<row, draft, lock, target>>
        /\ \A d \in Calls \ {c} : asked'[d] = asked[d] /\ deletes'[d] = deletes[d]
    BY <1>2 DEF RemoveNodes, LInv, EInv, TInv, TypeOK
  <2> QED
    BY <2>1, <2>2, BeginClears
<1>3. ASSUME NEW c \in Saves, Upsert(c) \/ Embed(c) PROVE Good'
  BY <1>3, UpsertClears, EmbedClears
<1>4. ASSUME NEW c \in Calls, Delete(c) \/ DeleteRow(c) \/ Deleted(c) \/ Commit(c) PROVE Good'
  BY <1>4, DeleteClears, DeleteRowClears, DeletedClears, CommitClears
<1>5. ASSUME NEW c \in Calls, Fail(c) PROVE Good'
  BY <1>5, EndedClears DEF Fail
<1>6. ASSUME NEW c \in Removals, Crash(c) PROVE Good'
  <2>1. {d \in Calls : Open(d)} \in SUBSET Calls
    OBVIOUS
  <2> QED
    BY <1>6, <2>1, EndedClears DEF Crash
<1>7. ASSUME UNCHANGED vars PROVE Good'
  BY <1>7 DEF vars, LInv, OpenTogether, LevelsToClear, RunningStatement, Open, Cleared, Found,
     Foreign, Seen, Current
<1>8. Good'
  <2> HIDE DEF Good
  <2> QED
    BY <1>1, <1>2, <1>3, <1>4, <1>5, <1>6, <1>7 DEF Next
<1> QED
  BY <1>8, EmbeddedNext DEF LInv

\* A save is done only by its commit.
LEMMA DoneByCommit ==
  ASSUME LInv, [Next]_vars, NEW c \in Saves, pc[c] # "done", pc'[c] = "done"
  PROVE  Commit(c)
<1>0. c \in Calls /\ pc \in [Calls -> {"idle", "open", "deleting", "done", "failed"}]
  BY CallsAreSomebody DEF LInv, EInv, TInv, TypeOK
<1>1. ASSUME NEW d \in Calls, Begin(d) PROVE FALSE
  BY <1>0, <1>1 DEF Begin
<1>2. ASSUME NEW cs, Ended(cs) PROVE FALSE
  BY <1>0, <1>2 DEF Ended
<1>3. ASSUME NEW d \in Calls, Upsert(d) \/ Embed(d) \/ Delete(d) \/ DeleteRow(d) \/ Deleted(d)
      PROVE  FALSE
  BY <1>0, <1>3 DEF Upsert, Embed, Delete, DeleteRow, Deleted
<1>4. ASSUME NEW d \in Calls, Commit(d) PROVE d = c
  BY <1>0, <1>4 DEF Commit
<1>5. pc' # pc
  OBVIOUS
<1>6. ~UNCHANGED vars
  BY <1>5 DEF vars
<1>7. ASSUME NEW d \in Saves, NEW ns \in SaveRequests, UpsertNodes(d, ns) PROVE FALSE
  BY <1>1, <1>7, CallsAreSomebody DEF UpsertNodes
<1>8. ASSUME NEW d \in Removals, NEW r \in RemoveRequests, RemoveNodes(d, r) PROVE FALSE
  BY <1>1, <1>8, CallsAreSomebody DEF RemoveNodes
<1>9. ASSUME NEW d \in Calls, Fail(d) \/ Crash(d) PROVE FALSE
  BY <1>2, <1>9 DEF Fail, Crash
<1> QED
  BY <1>3, <1>4, <1>6, <1>7, <1>8, <1>9, CallsAreSomebody DEF Next

\* When a save commits, what lives on its levels is its own or of a save that was open
\* while it was (memory.service.ts:110).
THEOREM SaveClearsLevelsHolds == Spec => SaveClearsLevels
<1>1. ASSUME LInv, [Next]_vars,
             NEW c \in Saves, pc[c] # "done", pc'[c] = "done",
             NEW s \in Slots, Live(row'[s]), row'[s].parent \in ParentsOf(asked[c]),
             s \notin SlotsOf(asked[c])
      PROVE  row'[s].content \in alongside[c]
  <2>1. c \in Calls /\ c # Nobody /\ Commit(c)
    BY <1>1, DoneByCommit, CallsAreSomebody
  <2>2. Settled(c) /\ row'[s] = IF lock[s] = c THEN draft[s] ELSE row[s]
    BY <1>1, <2>1, CommitFinishes DEF Commit, LInv, EInv
  <2>3. row'[s] = Seen(c, s)
    BY <2>2 DEF Seen
  <2>4. Cleared(c, row'[s].parent)
    <3>1. PICK p \in ParentsOf(asked[c]) : p = row'[s].parent
      BY <1>1
    <3>2. Cleared(c, p)
      BY <1>1, <2>2 DEF Settled, Open, LInv, LevelsToClear
    <3> QED
      BY <3>1, <3>2
  <2> QED
    BY <1>1, <2>3, <2>4 DEF Cleared, Foreign
<1>2. LInv /\ [Next]_vars =>
        (\A c \in Saves : pc[c] # "done" /\ pc'[c] = "done" =>
         \A s \in Slots :
            Live(row'[s]) /\ row'[s].parent \in ParentsOf(asked[c]) =>
                s \in SlotsOf(asked[c]) \/ row'[s].content \in alongside[c])
  BY <1>1
<1> QED
  BY <1>2, ClearedInit, ClearedNext, PTL DEF Spec, SaveClearsLevels

-----------------------------------------------------------------------------
(***************************************************************************)
(* Imports.  What a call has made of a slot it locked, while the committed *)
(* row stays as it was when the lock was taken: a row that is not its own  *)
(* is struck out, one of its own is as the last node for it says, and as   *)
(* deleted as before.                                                      *)
(***************************************************************************)
WasDeleted(s) == row[s] # NoRow /\ row[s].deleted

Struck(r) == [r EXCEPT !.deleted = TRUE]

IsStruck(c, s) ==
    /\ Live(row[s]) /\ draft[s] = Struck(row[s])
    /\ c \in Saves => row[s].parent \in ParentsOf(asked[c])

OthersAreStruck ==
    \A s \in Slots : lock[s] # Nobody /\ s \notin SlotsOf(asked[lock[s]]) => IsStruck(lock[s], s)

OwnStayDeleted ==
    \A s \in Slots : lock[s] # Nobody /\ s \in SlotsOf(asked[lock[s]]) =>
        (draft[s].deleted <=> WasDeleted(s))

\* No node that was upserted after the i-th is for the same slot.
IsLatest(c, i) == \A j \in (i + 1)..upserted[c] : asked[c][j].slot # asked[c][i].slot

IsWritten(c, i) ==
    /\ draft[asked[c][i].slot].id = IdAt(c, i)
    /\ draft[asked[c][i].slot].parent = asked[c][i].parent

LatestIsWritten == \A c \in Calls : \A i \in 1..upserted[c] : IsLatest(c, i) => IsWritten(c, i)

OnItsLevels == \A c \in Saves : \A d \in deletes[c] : d[2] \in ParentsOf(asked[c])

RunsAStatement == \A c \in Calls : pc[c] = "deleting" => deletes[c] # {}

Drafted == OthersAreStruck /\ OwnStayDeleted /\ LatestIsWritten /\ OnItsLevels /\ RunsAStatement

DInv == LInv /\ Drafted

LEMMA FieldsUpserted ==
  ASSUME NEW old \in Rows \cup {NoRow}, NEW c \in Saves, NEW id \in GivenIds, NEW n \in Nodes
  PROVE  LET new == Upserted(old, c, id, n) IN
         /\ new.id = id /\ new.parent = n.parent
         /\ new.deleted <=> old # NoRow /\ old.deleted
BY DEF Upserted, Rows, Nodes

LEMMA FieldsStruck ==
  ASSUME NEW r \in Rows
  PROVE  /\ Struck(r) \in Rows /\ Struck(r).deleted
         /\ Struck(r).id = r.id /\ Struck(r).parent = r.parent
         /\ Struck(r).content = r.content
BY DEF Struck, Rows

LEMMA IdIsGiven ==
  ASSUME TInv, NEW c \in Saves, NEW i \in 1..Len(asked[c])
  PROVE  asked[c][i] \in Nodes /\ asked[c][i].slot \in Slots /\ IdAt(c, i) \in GivenIds
<1>1. asked[c][i] \in Nodes
  BY CallsAreSomebody DEF TInv, TypeOK
<1>2. asked[c][i].slot \in Slots /\ asked[c][i].id \in ClientIds \cup {NoId}
  BY <1>1 DEF Nodes
<1>3. <<c, i>> \in Saves \X Nat
  BY CallsAreSomebody DEF TInv, TypeOK
<1> QED
  BY <1>1, <1>2, <1>3 DEF GivenIds, IdAt

\* What the next upsert writes: the node it is for, and the slot's deleted mark as it was.
LEMMA UpsertDrafts ==
  ASSUME TInv, NEW c \in Saves, Upsert(c)
  PROVE  \E i \in 1..Len(asked[c]), s \in Slots, new \in Rows :
            /\ i = upserted[c] + 1 /\ s = asked[c][i].slot /\ s \in SlotsOf(asked[c])
            /\ Writes(c, s, new)
            /\ new.id = IdAt(c, i) /\ new.parent = asked[c][i].parent
            /\ new.deleted <=> Seen(c, s) # NoRow /\ Seen(c, s).deleted
            /\ upserted'[c] = i
            /\ \A d \in Calls \ {c} : upserted'[d] = upserted[d]
<1>1. PICK i \in 1..Len(asked[c]), new \in Rows :
            /\ i = upserted[c] + 1
            /\ asked[c][i].slot \in Slots
            /\ new.content = c
            /\ Writes(c, asked[c][i].slot, new)
            /\ upserted'[c] = i
            /\ \A d \in Calls \ {c} : upserted'[d] = upserted[d]
  BY UpsertWrites
<1>2. PICK s \in Slots : s = asked[c][i].slot
  BY <1>1
<1>3. asked[c][i] \in Nodes /\ IdAt(c, i) \in GivenIds
  BY IdIsGiven
<1>4. Seen(c, s) \in Rows \cup {NoRow}
  BY SeenIsARow, CallsAreSomebody DEF TInv
<1>5. new = Upserted(Seen(c, s), c, IdAt(c, i), asked[c][i])
  <2>1. draft' = [draft EXCEPT ![s] = Upserted(Seen(c, s), c, IdAt(c, i), asked[c][i])]
    BY <1>1, <1>2 DEF Upsert
  <2>2. draft'[s] = new
    BY <1>1, <1>2 DEF Writes
  <2> QED
    BY <2>1, <2>2 DEF TInv, TypeOK
<1>6. /\ new.id = IdAt(c, i) /\ new.parent = asked[c][i].parent
      /\ new.deleted <=> Seen(c, s) # NoRow /\ Seen(c, s).deleted
  BY <1>3, <1>4, <1>5, FieldsUpserted
<1>7. s \in SlotsOf(asked[c])
  BY <1>1, <1>2, CallsAreSomebody DEF SlotsOf, TInv, TypeOK
<1> QED
  BY <1>1, <1>2, <1>6, <1>7

\* A deleteMany strikes a row out, if it still is the row it found.
LEMMA DeleteRowStrikes ==
  ASSUME TInv, NEW c \in Calls, DeleteRow(c)
  PROVE  \/ \E s \in Slots : /\ Doomed(c, s, Seen(c, s)) /\ Seen(c, s) \in Rows
                             /\ Writes(c, s, Struck(Seen(c, s)))
         \/ UNCHANGED <<draft, lock>>
<1>1. PICK t \in target[c] :
        LET s == t[1]  r == Seen(c, t[1]) IN
         /\ Free(c, s)
         /\ IF Doomed(c, s, r) /\ r.id = t[2]
              THEN /\ draft' = [draft EXCEPT ![s] = [r EXCEPT !.deleted = TRUE]]
                   /\ lock' = [lock EXCEPT ![s] = c]
              ELSE UNCHANGED <<draft, lock>>
  BY DEF DeleteRow
<1>2. PICK s \in Slots : s = t[1]
  BY <1>1 DEF TInv, TypeOK
<1>3. CASE Doomed(c, s, Seen(c, s)) /\ Seen(c, s).id = t[2]
  <2>1. Seen(c, s) \in Rows
    BY <1>3, SeenIsARow DEF Doomed, Live, TInv
  <2>2. PICK new \in Rows : new = Struck(Seen(c, s))
    BY <2>1, FieldsStruck
  <2>3. /\ Free(c, s)
        /\ draft' = [draft EXCEPT ![s] = new]
        /\ lock' = [lock EXCEPT ![s] = c]
    BY <1>1, <1>2, <1>3, <2>2 DEF Struck
  <2>4. Writes(c, s, new)
    BY <2>3 DEF Writes, Free, TInv, TypeOK
  <2> QED
    BY <1>3, <2>1, <2>2, <2>4
<1>4. CASE ~(Doomed(c, s, Seen(c, s)) /\ Seen(c, s).id = t[2])
  BY <1>1, <1>2, <1>4
<1> QED
  BY <1>3, <1>4

\* The embeddings of its nodes change nothing else of them.
LEMMA FieldsEmbedded ==
  ASSUME TInv, NEW c \in Saves, Embed(c), NEW s \in Slots
  PROVE  /\ draft'[s].id = draft[s].id /\ draft'[s].parent = draft[s].parent
         /\ draft'[s].deleted <=> draft[s].deleted
         /\ s \notin SlotsOf(asked[c]) => draft'[s] = draft[s]
<1>1. draft'[s] = IF s \in SlotsOf(asked[c]) /\ ~draft[s].deleted
                     THEN [draft[s] EXCEPT !.embedding = c] ELSE draft[s]
  BY DEF Embed
<1>2. CASE s \in SlotsOf(asked[c]) /\ ~draft[s].deleted
  <2>1. draft[s] \in Rows
    BY <1>2, AllSlotsLocked, CallsAreSomebody DEF Embed
  <2>2. draft'[s] = [draft[s] EXCEPT !.embedding = c]
    BY <1>1, <1>2
  <2> QED
    BY <1>2, <2>1, <2>2, RowEmbedded
<1>3. CASE ~(s \in SlotsOf(asked[c]) /\ ~draft[s].deleted)
  BY <1>1, <1>3
<1> QED
  BY <1>2, <1>3

\* The statement that is its turn is one of those the call still has to run.
LEMMA CurrentIsListed ==
  ASSUME TInv, NEW c \in Calls, deletes[c] # {}
  PROVE  Current(c) \in deletes[c]
<1> DEFINE Turns == {d[1] : d \in deletes[c]}
<1>1. deletes[c] \subseteq Nat \X (ClientIds \cup {Root} \cup SUBSET GivenIds)
  BY DEF TInv, TypeOK
<1>2. \A d \in deletes[c] : d[1] \in Nat
  BY <1>1
<1>3. Turns \subseteq Nat /\ Turns # {}
  BY <1>2
<1>4. PICK n \in Turns : \A m \in Turns : ~(<<m, n>> \in OpToRel(<, Nat))
  <2> HIDE DEF Turns
  <2> QED
    BY <1>3, NatLessThanWellFounded, WFMin
<1>5. PICK d \in deletes[c] : d[1] = n
  BY <1>4
<1>6. ASSUME NEW e \in deletes[c] PROVE d[1] <= e[1]
  <2>1. e[1] \in Turns /\ e[1] \in Nat /\ d[1] \in Nat
    BY <1>2
  <2>2. ~(e[1] < d[1])
    BY <1>4, <1>5, <2>1 DEF OpToRel
  <2> QED
    BY <2>1, <2>2
<1> QED
  BY <1>6 DEF Current

LEMMA UpsertedSlots ==
  ASSUME TInv, NEW d \in Calls, NEW k \in 1..upserted[d]
  PROVE  /\ asked[d][k].slot \in Slots /\ lock[asked[d][k].slot] = d
         /\ d # Nobody /\ Open(d) /\ upserted[d] \in Nat
<1>1. asked[d] \in Seq(Nodes) /\ k \in 1..Len(asked[d]) /\ upserted[d] \in Nat
  BY DEF TInv, TypeOK
<1>2. asked[d][k] \in Nodes
  BY <1>1
<1>3. lock[asked[d][k].slot] = d /\ d # Nobody
  BY CallsAreSomebody DEF TInv, UpsertedIsLocked
<1> QED
  BY <1>1, <1>2, <1>3 DEF Nodes, TInv, Resting

\* Steps that touch no row, and nothing of an open call's request.
LEMMA UntouchedDrafts ==
  ASSUME DInv, UNCHANGED <<row, draft, lock, upserted>>,
         \A d \in Calls : Open(d) => asked'[d] = asked[d]
  PROVE  (OthersAreStruck /\ OwnStayDeleted /\ LatestIsWritten)'
<1>0. TInv
  BY DEF DInv, LInv, EInv
<1>1. \A s \in Slots : lock[s] # Nobody => lock[s] \in Calls /\ Open(lock[s])
  BY <1>0 DEF TInv, TypeOK
<1>2. OthersAreStruck'
  BY <1>1 DEF DInv, Drafted, OthersAreStruck, IsStruck
<1>3. OwnStayDeleted'
  BY <1>1 DEF DInv, Drafted, OwnStayDeleted, WasDeleted
<1>4. ASSUME NEW d \in Calls, NEW k \in 1..upserted[d], IsLatest(d, k)'
      PROVE  IsWritten(d, k)'
  <2>1. asked'[d] = asked[d]
    BY <1>0, UpsertedSlots
  <2>2. IsLatest(d, k)
    BY <1>4, <2>1 DEF IsLatest
  <2>3. IsWritten(d, k)
    BY <2>2 DEF DInv, Drafted, LatestIsWritten
  <2> QED
    BY <2>1, <2>3 DEF IsWritten, IdAt
<1>5. LatestIsWritten'
  BY <1>4 DEF LatestIsWritten
<1> QED
  BY <1>2, <1>3, <1>5

\* Steps that leave the statements of every call as they are.
LEMMA UntouchedStatements ==
  ASSUME DInv, UNCHANGED <<deletes, asked, pc>>
  PROVE  (OnItsLevels /\ RunsAStatement)'
BY DEF DInv, Drafted, OnItsLevels, RunsAStatement

LEMMA UpsertDrafted ==
  ASSUME DInv, NEW c \in Saves, Upsert(c)
  PROVE  Drafted'
<1>0. TInv /\ c \in Calls /\ c # Nobody
  BY CallsAreSomebody DEF DInv, LInv, EInv
<1>1. PICK i \in 1..Len(asked[c]), s \in Slots, new \in Rows :
            /\ i = upserted[c] + 1 /\ s = asked[c][i].slot /\ s \in SlotsOf(asked[c])
            /\ Writes(c, s, new)
            /\ new.id = IdAt(c, i) /\ new.parent = asked[c][i].parent
            /\ new.deleted <=> Seen(c, s) # NoRow /\ Seen(c, s).deleted
            /\ upserted'[c] = i
            /\ \A d \in Calls \ {c} : upserted'[d] = upserted[d]
  BY <1>0, UpsertDrafts
<1>2. UNCHANGED <<row, pc, asked, deletes>>
  BY DEF Upsert
<1>3. OthersAreStruck'
  BY <1>1, <1>2 DEF Writes, DInv, Drafted, OthersAreStruck, IsStruck
<1>4. OwnStayDeleted'
  <2>1. draft'[s].deleted <=> WasDeleted(s)
    <3>1. CASE lock[s] = c
      BY <1>0, <1>1, <3>1 DEF Writes, Seen, DInv, Drafted, OwnStayDeleted, TInv, TypeOK
    <3>2. CASE lock[s] # c
      BY <1>1, <3>2 DEF Writes, Seen, WasDeleted
    <3> QED
      BY <3>1, <3>2
  <2>2. \A t \in Slots \ {s} : lock[t] # Nobody /\ t \in SlotsOf(asked[lock[t]]) =>
            (draft'[t].deleted <=> WasDeleted(t))
    BY <1>1 DEF Writes, DInv, Drafted, OwnStayDeleted
  <2> QED
    BY <1>1, <1>2, <2>1, <2>2 DEF Writes, OwnStayDeleted, WasDeleted
<1>5. ASSUME NEW d \in Calls, NEW k \in 1..upserted'[d], IsLatest(d, k)'
      PROVE  IsWritten(d, k)'
  <2>1. CASE d = c /\ k = i
    BY <1>1, <1>2, <2>1 DEF Writes, IsWritten, IdAt
  <2>2. CASE ~(d = c /\ k = i)
    <3>1. k \in 1..upserted[d] /\ upserted[d] \in Nat
      BY <1>0, <1>1, <2>2 DEF TInv, TypeOK
    <3>2. asked[d][k].slot \in Slots /\ lock[asked[d][k].slot] = d /\ d # Nobody
      BY <1>0, <3>1, UpsertedSlots
    <3>3. asked[d][k].slot # s
      <4>1. CASE d = c
        <5>1. i \in (k + 1)..upserted'[d]
          BY <1>0, <1>1, <3>1, <4>1
        <5> QED
          BY <1>1, <1>2, <1>5, <4>1, <5>1 DEF IsLatest
      <4>2. CASE d # c
        BY <1>1, <3>2, <4>2 DEF Writes
      <4> QED
        BY <4>1, <4>2
    <3>4. IsLatest(d, k)
      <4>1. upserted[d] <= upserted'[d] /\ upserted'[d] \in Nat
        BY <1>0, <1>1, <3>1
      <4>2. \A j \in (k + 1)..upserted[d] : j \in (k + 1)..upserted'[d]
        BY <3>1, <4>1
      <4> QED
        BY <1>2, <1>5, <4>2 DEF IsLatest
    <3>5. IsWritten(d, k)
      BY <3>1, <3>4 DEF DInv, Drafted, LatestIsWritten
    <3> QED
      BY <1>1, <1>2, <3>2, <3>3, <3>5 DEF Writes, IsWritten, IdAt
  <2> QED
    BY <2>1, <2>2
<1>6. LatestIsWritten'
  BY <1>5 DEF LatestIsWritten
<1> QED
  BY <1>2, <1>3, <1>4, <1>6, UntouchedStatements DEF Drafted

LEMMA DeleteRowDrafted ==
  ASSUME DInv, NEW c \in Calls, DeleteRow(c)
  PROVE  Drafted'
<1>0. TInv /\ c # Nobody
  BY CallsAreSomebody DEF DInv, LInv, EInv
<1>1. /\ pc[c] = "deleting"
      /\ UNCHANGED <<row, pc, asked, upserted, deletes>>
  BY DEF DeleteRow
<1>2. CASE UNCHANGED <<draft, lock>>
  BY <1>1, <1>2, UntouchedDrafts, UntouchedStatements DEF Drafted
<1>3. ASSUME NEW s \in Slots, Doomed(c, s, Seen(c, s)), Seen(c, s) \in Rows,
             Writes(c, s, Struck(Seen(c, s)))
      PROVE  Drafted'
  <2>1. s \notin SlotsOf(asked[c])
    <3>1. CASE c \in Saves
      BY <1>3, <3>1 DEF Doomed
    <3>2. CASE c \notin Saves
      BY <1>0, <3>2 DEF TInv, OnlySavesAsk, SlotsOf, Calls
    <3> QED
      BY <3>1, <3>2
  <2>2. Live(Seen(c, s)) /\ (c \in Saves => Seen(c, s).parent \in ParentsOf(asked[c]))
    <3>1. Current(c) \in deletes[c]
      BY <1>0, <1>1, CurrentIsListed DEF DInv, Drafted, RunsAStatement
    <3> QED
      BY <1>3, <3>1 DEF Doomed, DInv, Drafted, OnItsLevels
  <2>3. lock[s] = Nobody
    <3>1. ASSUME lock[s] = c PROVE FALSE
      <4>1. Live(row[s]) /\ draft[s] = Struck(row[s])
        BY <1>0, <2>1, <3>1 DEF DInv, Drafted, OthersAreStruck, IsStruck
      <4>2. row[s] \in Rows
        BY <1>0, <4>1 DEF Live, TInv, TypeOK
      <4>3. draft[s].deleted
        BY <4>1, <4>2, FieldsStruck
      <4> QED
        BY <2>2, <3>1, <4>3 DEF Seen, Live
    <3> QED
      BY <1>3, <3>1 DEF Writes
  <2>4. Seen(c, s) = row[s]
    BY <1>0, <2>3 DEF Seen
  <2>5. /\ draft'[s] = Struck(row[s]) /\ lock'[s] = c
        /\ \A t \in Slots \ {s} : draft'[t] = draft[t] /\ lock'[t] = lock[t]
    BY <1>3, <2>4 DEF Writes
  <2>6. OthersAreStruck'
    <3>1. IsStruck(c, s)'
      BY <1>1, <2>2, <2>4, <2>5 DEF IsStruck
    <3>2. \A t \in Slots \ {s} : lock'[t] # Nobody /\ t \notin SlotsOf(asked'[lock'[t]]) =>
            IsStruck(lock[t], t)'
      BY <1>1, <2>5 DEF DInv, Drafted, OthersAreStruck, IsStruck
    <3> QED
      BY <2>5, <3>1, <3>2 DEF OthersAreStruck, IsStruck
  <2>7. OwnStayDeleted'
    BY <1>1, <2>1, <2>5 DEF DInv, Drafted, OwnStayDeleted, WasDeleted
  <2>8. ASSUME NEW d \in Calls, NEW k \in 1..upserted'[d], IsLatest(d, k)'
        PROVE  IsWritten(d, k)'
    <3>1. /\ asked[d][k].slot \in Slots /\ lock[asked[d][k].slot] = d /\ d # Nobody
      BY <1>0, <1>1, UpsertedSlots
    <3>2. asked[d][k].slot # s
      BY <2>3, <3>1
    <3>3. IsWritten(d, k)
      BY <1>1, <2>8 DEF IsLatest, DInv, Drafted, LatestIsWritten
    <3> QED
      BY <1>1, <2>5, <3>1, <3>2, <3>3 DEF IsWritten, IdAt
  <2>9. LatestIsWritten'
    BY <2>8 DEF LatestIsWritten
  <2> QED
    BY <1>1, <2>6, <2>7, <2>9, UntouchedStatements DEF Drafted
<1> QED
  BY <1>0, <1>2, <1>3, DeleteRowStrikes

LEMMA EmbedDrafted ==
  ASSUME DInv, NEW c \in Saves, Embed(c)
  PROVE  Drafted'
<1>0. TInv /\ c \in Calls /\ AllUpserted(c)
  BY CallsAreSomebody DEF DInv, LInv, EInv, Embed
<1>1. UNCHANGED <<row, lock, pc, asked, upserted, deletes>>
  BY DEF Embed
<1>2. \A s \in Slots :
        /\ draft'[s].id = draft[s].id /\ draft'[s].parent = draft[s].parent
        /\ draft'[s].deleted <=> draft[s].deleted
        /\ s \notin SlotsOf(asked[c]) => draft'[s] = draft[s]
  BY <1>0, FieldsEmbedded
<1>3. \A s \in SlotsOf(asked[c]) : lock[s] = c
  BY <1>0, AllSlotsLocked
<1>4. OthersAreStruck'
  BY <1>1, <1>2, <1>3 DEF DInv, Drafted, OthersAreStruck, IsStruck
<1>5. OwnStayDeleted'
  BY <1>1, <1>2 DEF DInv, Drafted, OwnStayDeleted, WasDeleted
<1>6. ASSUME NEW d \in Calls, NEW k \in 1..upserted'[d], IsLatest(d, k)'
      PROVE  IsWritten(d, k)'
  <2>1. asked[d][k].slot \in Slots
    BY <1>0, <1>1, UpsertedSlots
  <2>2. IsWritten(d, k)
    BY <1>1, <1>6 DEF IsLatest, DInv, Drafted, LatestIsWritten
  <2> QED
    BY <1>1, <1>2, <2>1, <2>2 DEF IsWritten, IdAt
<1>7. LatestIsWritten'
  BY <1>6 DEF LatestIsWritten
<1> QED
  BY <1>1, <1>4, <1>5, <1>7, UntouchedStatements DEF Drafted

\* A transaction that ends changes the rows its call has locked, if any.
LEMMA FinishesDrafted ==
  ASSUME DInv, NEW cs \in SUBSET Calls, Finishes(cs),
         \A s \in Slots : lock[s] \notin cs => row'[s] = row[s]
  PROVE  Drafted'
<1>0. TInv
  BY DEF DInv, LInv, EInv
<1>1. /\ \A c \in cs : pc'[c] \in {"done", "failed"}
      /\ \A c \in Calls \ cs : pc'[c] = pc[c]
  BY DEF Finishes
<1>2. /\ \A c \in cs : asked'[c] = <<>> /\ upserted'[c] = 0 /\ deletes'[c] = {}
      /\ \A c \in Calls \ cs : /\ asked'[c] = asked[c]
                               /\ upserted'[c] = upserted[c] /\ deletes'[c] = deletes[c]
  BY DEF Finishes, Forgotten
<1>3. ASSUME NEW s \in Slots, lock'[s] # Nobody
      PROVE  /\ lock'[s] = lock[s] /\ draft'[s] = draft[s] /\ row'[s] = row[s]
             /\ lock[s] # Nobody /\ asked'[lock[s]] = asked[lock[s]]
  <2>1. lock[s] \notin cs /\ lock'[s] = lock[s] /\ draft'[s] = draft[s]
    BY <1>3 DEF Finishes
  <2>2. lock[s] \in Calls \ cs
    BY <1>0, <1>3, <2>1 DEF TInv, TypeOK
  <2> QED
    BY <1>2, <1>3, <2>1, <2>2
<1>4. OthersAreStruck'
  BY <1>3 DEF DInv, Drafted, OthersAreStruck, IsStruck
<1>5. OwnStayDeleted'
  BY <1>3 DEF DInv, Drafted, OwnStayDeleted, WasDeleted
<1>6. ASSUME NEW d \in Calls, NEW k \in 1..upserted'[d], IsLatest(d, k)'
      PROVE  IsWritten(d, k)'
  <2>1. d \notin cs
    BY <1>2, <1>6
  <2>2. /\ asked'[d] = asked[d] /\ upserted'[d] = upserted[d]
    BY <1>2, <2>1
  <2>3. /\ asked[d][k].slot \in Slots /\ lock[asked[d][k].slot] = d
    BY <1>0, <2>2, UpsertedSlots
  <2>4. draft'[asked[d][k].slot] = draft[asked[d][k].slot]
    BY <2>1, <2>3 DEF Finishes
  <2>5. IsWritten(d, k)
    BY <1>6, <2>2 DEF IsLatest, DInv, Drafted, LatestIsWritten
  <2> QED
    BY <2>2, <2>4, <2>5 DEF IsWritten, IdAt
<1>7. LatestIsWritten'
  BY <1>6 DEF LatestIsWritten
<1>8. OnItsLevels'
  BY <1>2, CallsAreSomebody DEF DInv, Drafted, OnItsLevels
<1>9. RunsAStatement'
  BY <1>1, <1>2 DEF DInv, Drafted, RunsAStatement
<1> QED
  BY <1>4, <1>5, <1>7, <1>8, <1>9 DEF Drafted

LEMMA DeleteDrafted ==
  ASSUME DInv, NEW c \in Calls, Delete(c)
  PROVE  Drafted'
<1>1. /\ deletes[c] # {} /\ pc' = [pc EXCEPT ![c] = "deleting"]
      /\ UNCHANGED <<row, draft, lock, asked, upserted, deletes>>
  BY DEF Delete
<1>2. pc \in [Calls -> {"idle", "open", "deleting", "done", "failed"}]
  BY DEF DInv, LInv, EInv, TInv, TypeOK
<1>3. RunsAStatement'
  BY <1>1, <1>2 DEF DInv, Drafted, RunsAStatement
<1>4. OnItsLevels'
  BY <1>1 DEF DInv, Drafted, OnItsLevels
<1> QED
  BY <1>1, <1>3, <1>4, UntouchedDrafts DEF Drafted

LEMMA DeletedDrafted ==
  ASSUME DInv, NEW c \in Calls, Deleted(c)
  PROVE  Drafted'
<1>1. /\ pc' = [pc EXCEPT ![c] = "open"]
      /\ deletes' = [deletes EXCEPT ![c] = @ \ {Current(c)}]
      /\ UNCHANGED <<row, draft, lock, asked, upserted>>
  BY DEF Deleted
<1>2. /\ pc \in [Calls -> {"idle", "open", "deleting", "done", "failed"}]
      /\ deletes \in [Calls -> SUBSET (Nat \X (ClientIds \cup {Root} \cup SUBSET GivenIds))]
  BY DEF DInv, LInv, EInv, TInv, TypeOK
<1>3. RunsAStatement'
  BY <1>1, <1>2 DEF DInv, Drafted, RunsAStatement
<1>4. \A d \in Calls : deletes'[d] \subseteq deletes[d]
  BY <1>1, <1>2
<1>5. OnItsLevels'
  BY <1>1, <1>4, CallsAreSomebody DEF DInv, Drafted, OnItsLevels
<1> QED
  BY <1>1, <1>3, <1>5, UntouchedDrafts DEF Drafted

\* A call that begins has locked nothing; a save begins with a statement for each level.
LEMMA BeginDrafted ==
  ASSUME DInv, NEW c \in Calls, Begin(c), UNCHANGED <<row, draft, lock, upserted>>,
         \A d \in Calls \ {c} : asked'[d] = asked[d] /\ deletes'[d] = deletes[d],
         c \in Saves => deletes'[c] = Levels(asked'[c])
  PROVE  Drafted'
<1>0. TInv
  BY DEF DInv, LInv, EInv
<1>1. /\ ~Open(c) /\ pc'[c] = "open" /\ \A d \in Calls \ {c} : pc'[d] = pc[d]
  BY <1>0, BeginOpens
<1>2. (OthersAreStruck /\ OwnStayDeleted /\ LatestIsWritten)'
  BY <1>1, UntouchedDrafts
<1>3. RunsAStatement'
  BY <1>1 DEF DInv, Drafted, RunsAStatement
<1>4. ASSUME c \in Saves, NEW d \in deletes'[c]
      PROVE  d[2] \in ParentsOf(asked'[c])
  <2>1. PICK ns : ns = asked'[c]
    OBVIOUS
  <2>2. d \in Levels(ns)
    BY <1>4, <2>1
  <2>3. d[2] \in ParentsOf(ns)
    BY <2>2 DEF Levels, ParentsOf
  <2> QED
    BY <2>1, <2>3
<1>5. \A e \in Saves : \A d \in deletes'[e] : d[2] \in ParentsOf(asked'[e])
  BY <1>4, CallsAreSomebody DEF DInv, Drafted, OnItsLevels
<1> QED
  BY <1>2, <1>3, <1>5 DEF Drafted, OnItsLevels, ParentsOf

LEMMA CommitDrafted ==
  ASSUME DInv, NEW c \in Calls, Commit(c)
  PROVE  Drafted'
<1>1. /\ Finishes({c})
      /\ \A s \in Slots : row'[s] = IF lock[s] = c THEN draft[s] ELSE row[s]
  BY CommitFinishes DEF DInv, LInv, EInv
<1> QED
  BY <1>1, FinishesDrafted

LEMMA EndedDrafted ==
  ASSUME DInv, NEW cs \in SUBSET Calls, Ended(cs)
  PROVE  Drafted'
<1>1. Finishes(cs) /\ UNCHANGED row
  BY EndedFinishes DEF DInv, LInv, EInv
<1> QED
  BY <1>1, FinishesDrafted

LEMMA DraftedInit == Init => DInv
<1> SUFFICES ASSUME Init PROVE DInv
  OBVIOUS
<1>1. Drafted
  BY CallsAreSomebody DEF Init, Drafted, OthersAreStruck, OwnStayDeleted, LatestIsWritten,
     OnItsLevels, RunsAStatement
<1> QED
  BY <1>1, ClearedInit DEF DInv

LEMMA DraftedNext == DInv /\ [Next]_vars => DInv'
<1> SUFFICES ASSUME DInv, [Next]_vars PROVE DInv'
  OBVIOUS
<1>1. ASSUME NEW c \in Saves, NEW ns \in SaveRequests, UpsertNodes(c, ns) PROVE Drafted'
  <2>1. c \in Calls
    BY CallsAreSomebody
  <2>2. /\ Begin(c) /\ UNCHANGED <<row, draft, lock, upserted>>
        /\ asked'[c] = ns /\ deletes'[c] = Levels(ns)
        /\ \A d \in Calls \ {c} : asked'[d] = asked[d] /\ deletes'[d] = deletes[d]
    BY <1>1, <2>1 DEF UpsertNodes, DInv, LInv, EInv, TInv, TypeOK
  <2> QED
    BY <2>1, <2>2, BeginDrafted
<1>2. ASSUME NEW c \in Removals, NEW r \in RemoveRequests, RemoveNodes(c, r) PROVE Drafted'
  <2>1. c \in Calls /\ c \notin Saves
    BY CallsAreSomebody
  <2>2. /\ Begin(c) /\ UNCHANGED <<row, draft, lock, upserted>>
        /\ \A d \in Calls \ {c} : asked'[d] = asked[d] /\ deletes'[d] = deletes[d]
    BY <1>2 DEF RemoveNodes, DInv, LInv, EInv, TInv, TypeOK
  <2> QED
    BY <2>1, <2>2, BeginDrafted
<1>3. ASSUME NEW c \in Saves, Upsert(c) \/ Embed(c) PROVE Drafted'
  BY <1>3, UpsertDrafted, EmbedDrafted
<1>4. ASSUME NEW c \in Calls, Delete(c) \/ DeleteRow(c) \/ Deleted(c) \/ Commit(c)
      PROVE  Drafted'
  BY <1>4, DeleteDrafted, DeleteRowDrafted, DeletedDrafted, CommitDrafted
<1>5. ASSUME NEW c \in Calls, Fail(c) PROVE Drafted'
  BY <1>5, EndedDrafted DEF Fail
<1>6. ASSUME NEW c \in Removals, Crash(c) PROVE Drafted'
  <2>1. {d \in Calls : Open(d)} \in SUBSET Calls
    OBVIOUS
  <2> QED
    BY <1>6, <2>1, EndedDrafted DEF Crash
<1>7. ASSUME UNCHANGED vars PROVE Drafted'
  <2>1. UNCHANGED <<row, draft, lock, pc, asked, upserted, deletes>>
    BY <1>7 DEF vars
  <2> QED
    BY <2>1, UntouchedDrafts, UntouchedStatements DEF Drafted
<1>8. Drafted'
  BY <1>1, <1>2, <1>3, <1>4, <1>5, <1>6, <1>7 DEF Next
<1>9. LInv'
  BY ClearedNext DEF DInv
<1> QED
  BY <1>8, <1>9 DEF DInv

-----------------------------------------------------------------------------
\* A row changes only when the call that has locked it commits.
LEMMA RowByCommit ==
  ASSUME DInv, [Next]_vars, NEW s \in Slots, row'[s] # row[s]
  PROVE  \E c \in Calls : Commit(c) /\ lock[s] = c /\ row'[s] = draft[s]
<1>1. ASSUME UNCHANGED row PROVE FALSE
  BY <1>1
<1>2. ASSUME NEW d \in Calls, Upsert(d) \/ Embed(d) \/ Delete(d) \/ DeleteRow(d) \/ Deleted(d)
      PROVE  FALSE
  BY <1>1, <1>2 DEF Upsert, Embed, Delete, DeleteRow, Deleted
<1>3. ASSUME NEW d, NEW ns, UpsertNodes(d, ns) PROVE FALSE
  BY <1>1, <1>3 DEF UpsertNodes
<1>4. ASSUME NEW d, NEW r, RemoveNodes(d, r) PROVE FALSE
  BY <1>1, <1>4 DEF RemoveNodes
<1>5. ASSUME NEW d \in Calls, Fail(d) \/ Crash(d) PROVE FALSE
  BY <1>1, <1>5 DEF Fail, Crash, Ended
<1>6. ~UNCHANGED vars
  BY <1>1 DEF vars
<1>7. PICK c \in Calls : Commit(c)
  BY <1>2, <1>3, <1>4, <1>5, <1>6, CallsAreSomebody DEF Next
<1>8. row'[s] = IF lock[s] = c THEN draft[s] ELSE row[s]
  BY <1>7 DEF Commit
<1> QED
  BY <1>7, <1>8

\* A node that was deleted is never there again: an upsert does not touch the mark
\* (memory.service.ts:143), and no interleaving of saves, removals and failures does.
DeletedIsFinal == [][\A s \in Slots : WasDeleted(s) => WasDeleted(s)']_vars

THEOREM DeletedIsFinalHolds == Spec => DeletedIsFinal
<1>1. ASSUME DInv, [Next]_vars, NEW s \in Slots, WasDeleted(s)
      PROVE  WasDeleted(s)'
  <2>1. CASE row'[s] = row[s]
    BY <1>1, <2>1 DEF WasDeleted
  <2>2. CASE row'[s] # row[s]
    <3>1. PICK c \in Calls : lock[s] = c /\ row'[s] = draft[s]
      BY <1>1, <2>2, RowByCommit
    <3>2. c # Nobody /\ draft[s] # NoRow
      BY <1>1, <3>1, CallsAreSomebody DEF DInv, LInv, EInv, TInv, TypeOK
    <3>3. s \in SlotsOf(asked[c])
      BY <1>1, <3>1, <3>2 DEF DInv, Drafted, OthersAreStruck, IsStruck, Live, WasDeleted
    <3>4. draft[s].deleted
      BY <1>1, <3>1, <3>2, <3>3 DEF DInv, Drafted, OwnStayDeleted
    <3> QED
      BY <3>1, <3>2, <3>4 DEF WasDeleted
  <2> QED
    BY <2>1, <2>2
<1>2. DInv /\ [Next]_vars => [\A s \in Slots : WasDeleted(s) => WasDeleted(s)']_vars
  BY <1>1
<1> QED
  BY <1>2, DraftedInit, DraftedNext, PTL DEF Spec, DeletedIsFinal

-----------------------------------------------------------------------------
(***************************************************************************)
(* A save against the store where it takes effect at once.                 *)
(***************************************************************************)
LEMMA MarkedRecord ==
  ASSUME NEW i, NEW p, NEW d
  PROVE  [[id |-> i, parent |-> p, deleted |-> d] EXCEPT !.deleted = TRUE] =
            [id |-> i, parent |-> p, deleted |-> TRUE]
<1>1. PICK r \in [id : {i}, parent : {p}, deleted : {d}] :
        r = [id |-> i, parent |-> p, deleted |-> d]
  OBVIOUS
<1> DEFINE new == [r EXCEPT !.deleted = TRUE]
<1>2. new \in [id : {i}, parent : {p}, deleted : {d, TRUE}]
  OBVIOUS
<1>3. new.id = i /\ new.parent = p
  BY <1>1
<1>4. new.deleted = TRUE
  OBVIOUS
<1> HIDE DEF new
<1>5. new = [id |-> new.id, parent |-> new.parent, deleted |-> new.deleted]
  BY <1>2
<1>6. new = [id |-> i, parent |-> p, deleted |-> TRUE]
  BY <1>3, <1>4, <1>5
<1> QED
  BY <1>1, <1>6 DEF new

LEMMA BriefOfRow ==
  ASSUME NEW table, NEW s \in Slots
  PROVE  /\ table[s] = NoRow => Brief(table)[s] = <<>>
         /\ table[s] # NoRow =>
              /\ Brief(table)[s] # <<>>
              /\ Brief(table)[s].parent = table[s].parent
              /\ Brief(table)[s].deleted = table[s].deleted
              /\ [Brief(table)[s] EXCEPT !.deleted = TRUE] =
                    [id |-> table[s].id, parent |-> table[s].parent, deleted |-> TRUE]
              /\ Brief(table)[s] = [id |-> table[s].id, parent |-> table[s].parent,
                                    deleted |-> table[s].deleted]
<1>1. Brief(table)[s] =
        IF table[s] = NoRow THEN <<>>
        ELSE [id |-> table[s].id, parent |-> table[s].parent, deleted |-> table[s].deleted]
  BY DEF Brief
<1>2. ASSUME NEW i, NEW p, NEW d PROVE [id |-> i, parent |-> p, deleted |-> d] # <<>>
  <2>1. "id" \in DOMAIN [id |-> i, parent |-> p, deleted |-> d]
    OBVIOUS
  <2>2. DOMAIN <<>> = {}
    OBVIOUS
  <2> QED
    BY <2>1, <2>2
<1>3. ASSUME table[s] # NoRow
      PROVE  /\ Brief(table)[s] = [id |-> table[s].id, parent |-> table[s].parent,
                                    deleted |-> table[s].deleted]
             /\ Brief(table)[s].parent = table[s].parent
             /\ Brief(table)[s].deleted = table[s].deleted
             /\ [Brief(table)[s] EXCEPT !.deleted = TRUE] =
                    [id |-> table[s].id, parent |-> table[s].parent, deleted |-> TRUE]
  <2>1. PICK i, p, d : i = table[s].id /\ p = table[s].parent /\ d = table[s].deleted
    OBVIOUS
  <2>2. Brief(table)[s] = [id |-> i, parent |-> p, deleted |-> d]
    BY <1>1, <1>3, <2>1
  <2>3. [id |-> i, parent |-> p, deleted |-> d].parent = p
    OBVIOUS
  <2>4. [id |-> i, parent |-> p, deleted |-> d].deleted = d
    OBVIOUS
  <2>5. [[id |-> i, parent |-> p, deleted |-> d] EXCEPT !.deleted = TRUE] =
            [id |-> i, parent |-> p, deleted |-> TRUE]
    BY MarkedRecord
  <2> QED
    BY <2>1, <2>2, <2>3, <2>4, <2>5
<1>4. table[s] # NoRow => Brief(table)[s] # <<>>
  BY <1>1, <1>2
<1> QED
  BY <1>1, <1>3, <1>4

\* Some node is the last one for its slot.
LEMMA LastExists ==
  ASSUME NEW ns \in Seq(Nodes), NEW s \in SlotsOf(ns)
  PROVE  /\ LastOf(ns, s) \in 1..Len(ns) /\ ns[LastOf(ns, s)].slot = s
         /\ \A j \in (LastOf(ns, s) + 1)..Len(ns) : ns[j].slot # s
<1> DEFINE After == {Len(ns) - i : i \in {k \in 1..Len(ns) : ns[k].slot = s}}
<1>1. Len(ns) \in Nat /\ DOMAIN ns = 1..Len(ns)
  OBVIOUS
<1>2. After \subseteq Nat /\ After # {}
  <2>1. PICK k \in 1..Len(ns) : ns[k].slot = s
    BY <1>1 DEF SlotsOf
  <2>2. Len(ns) - k \in After
    BY <2>1
  <2> QED
    BY <1>1, <2>2
<1>3. PICK n \in After : \A m \in After : ~(<<m, n>> \in OpToRel(<, Nat))
  <2> HIDE DEF After
  <2> QED
    BY <1>2, NatLessThanWellFounded, WFMin
<1>4. PICK i \in 1..Len(ns) : ns[i].slot = s /\ n = Len(ns) - i
  BY <1>3
<1>5. ASSUME NEW j \in (i + 1)..Len(ns), ns[j].slot = s PROVE FALSE
  <2>1. j \in 1..Len(ns) /\ Len(ns) - j \in After
    BY <1>1, <1>5
  <2>2. Len(ns) - j \in Nat /\ n \in Nat /\ Len(ns) - j < n
    BY <1>1, <1>4, <2>1
  <2> QED
    BY <1>3, <2>1, <2>2 DEF OpToRel
<1>6. i \in DOMAIN ns /\ ns[i].slot = s /\ \A j \in (i + 1)..Len(ns) : ns[j].slot # s
  BY <1>1, <1>4, <1>5
<1> QED
  BY <1>1, <1>6 DEF LastOf

\* When all nodes are upserted, the last node for each slot is what its draft says.
LEMMA LastIsDrafted ==
  ASSUME DInv, NEW c \in Saves, AllUpserted(c), NEW s \in SlotsOf(asked[c])
  PROVE  /\ s \in Slots /\ lock[s] = c /\ draft[s] \in Rows
         /\ draft[s].id = NodesSaved(c)[s].id
         /\ draft[s].parent = NodesSaved(c)[s].parent
         /\ draft[s].deleted <=> WasDeleted(s)
<1>0. TInv /\ c \in Calls /\ c # Nobody /\ asked[c] \in Seq(Nodes)
  BY CallsAreSomebody DEF DInv, LInv, EInv, TInv, TypeOK
<1>1. s \in Slots /\ lock[s] = c /\ draft[s] \in Rows
  BY <1>0, AllSlotsLocked
<1>2. PICK i \in 1..Len(asked[c]) :
        /\ i = LastOf(asked[c], s) /\ asked[c][i].slot = s
        /\ \A j \in (i + 1)..Len(asked[c]) : asked[c][j].slot # s
  BY <1>0, LastExists
<1>3. i \in 1..upserted[c] /\ IsLatest(c, i)
  BY <1>2 DEF AllUpserted, IsLatest
<1>4. draft[s].id = IdAt(c, i) /\ draft[s].parent = asked[c][i].parent
  BY <1>0, <1>2, <1>3 DEF DInv, Drafted, LatestIsWritten, IsWritten
<1>5. NodesSaved(c)[s] = [id |-> IdAt(c, i), parent |-> asked[c][i].parent]
  BY <1>2 DEF NodesSaved
<1>6. draft[s].deleted <=> WasDeleted(s)
  BY <1>0, <1>1 DEF DInv, Drafted, OwnStayDeleted
<1> QED
  BY <1>1, <1>4, <1>5, <1>6

\* What an import leaves of a slot, said of the rows.
LEMMA ImportedOwn ==
  ASSUME NEW c \in Saves, NEW s \in Slots, s \in SlotsOf(asked[c])
  PROVE  KB!Imported(Brief(row), NodesSaved(c), ParentsOf(asked[c]))[s] =
            [id |-> NodesSaved(c)[s].id, parent |-> NodesSaved(c)[s].parent,
             deleted |-> WasDeleted(s)]
<1>1. s \in DOMAIN NodesSaved(c)
  BY DEF NodesSaved
<1>2. (Brief(row)[s] # <<>> /\ Brief(row)[s].deleted) = WasDeleted(s)
  <2>1. CASE row[s] = NoRow
    BY <2>1, BriefOfRow DEF WasDeleted
  <2>2. CASE row[s] # NoRow
    <3>1. Brief(row)[s] # <<>> /\ Brief(row)[s].deleted = row[s].deleted
      BY <2>2, BriefOfRow
    <3> QED
      BY <2>2, <3>1 DEF WasDeleted
  <2> QED
    BY <2>1, <2>2
<1> QED
  BY <1>1, <1>2 DEF KB!Imported

\* A live row of one of the levels.
OnLevels(c, s) == Live(row[s]) /\ row[s].parent \in ParentsOf(asked[c])

LEMMA ImportedOther ==
  ASSUME NEW c \in Saves, NEW s \in Slots, s \notin SlotsOf(asked[c])
  PROVE  KB!Imported(Brief(row), NodesSaved(c), ParentsOf(asked[c]))[s] =
            IF OnLevels(c, s) THEN [id |-> row[s].id, parent |-> row[s].parent, deleted |-> TRUE]
            ELSE Brief(row)[s]
<1>1. s \notin DOMAIN NodesSaved(c)
  BY DEF NodesSaved
<1>2. s \in KB!Below(Brief(row), ParentsOf(asked[c])) <=> OnLevels(c, s)
  <2>1. CASE row[s] = NoRow
    BY <2>1, BriefOfRow DEF KB!Below, KB!Live, OnLevels, Live
  <2>2. CASE row[s] # NoRow
    BY <2>2, BriefOfRow DEF KB!Below, KB!Live, OnLevels, Live
  <2> QED
    BY <2>1, <2>2
<1>3. OnLevels(c, s) => [Brief(row)[s] EXCEPT !.deleted = TRUE] =
                            [id |-> row[s].id, parent |-> row[s].parent, deleted |-> TRUE]
  BY BriefOfRow DEF OnLevels, Live
<1> QED
  BY <1>1, <1>2, <1>3 DEF KB!Imported

LEMMA CommitImports ==
  ASSUME DInv, NEW c \in Saves, Commit(c), NEW s \in Slots
  PROVE  \/ Brief(row')[s] = KB!Imported(Brief(row), NodesSaved(c), ParentsOf(asked[c]))[s]
         \/ /\ s \notin SlotsOf(asked[c]) /\ row'[s] = row[s]
            /\ row[s].content \in alongside[c]
<1>0. TInv /\ c \in Calls /\ c # Nobody
  BY CallsAreSomebody DEF DInv, LInv, EInv
<1>1. Settled(c) /\ row'[s] = IF lock[s] = c THEN draft[s] ELSE row[s]
  BY DEF Commit
<1>2. CASE s \in SlotsOf(asked[c])
  <2>1. /\ lock[s] = c /\ draft[s] \in Rows
        /\ draft[s].id = NodesSaved(c)[s].id
        /\ draft[s].parent = NodesSaved(c)[s].parent
        /\ draft[s].deleted <=> WasDeleted(s)
    BY <1>1, <1>2, LastIsDrafted DEF Settled
  <2>2. draft[s].deleted = WasDeleted(s)
    <3>1. draft[s].deleted \in BOOLEAN
      BY <2>1 DEF Rows
    <3>2. WasDeleted(s) \in BOOLEAN
      BY <1>0 DEF WasDeleted
    <3> QED
      BY <2>1, <3>1, <3>2
  <2>3. row'[s] = draft[s] /\ row'[s] # NoRow
    BY <1>1, <2>1, NoRowAssumption
  <2>4. Brief(row')[s] = [id |-> row'[s].id, parent |-> row'[s].parent,
                          deleted |-> row'[s].deleted]
    BY <2>3, BriefOfRow
  <2> QED
    BY <1>2, <2>1, <2>2, <2>3, <2>4, ImportedOwn
<1>3. CASE s \notin SlotsOf(asked[c]) /\ lock[s] = c
  <2>1. OnLevels(c, s) /\ row'[s] = Struck(row[s])
    BY <1>0, <1>1, <1>3 DEF DInv, Drafted, OthersAreStruck, IsStruck, OnLevels
  <2>2. row[s] \in Rows
    BY <1>0, <2>1 DEF OnLevels, Live, TInv, TypeOK
  <2>3. /\ row'[s] \in Rows /\ row'[s].deleted
        /\ row'[s].id = row[s].id /\ row'[s].parent = row[s].parent
    BY <2>1, <2>2, FieldsStruck
  <2>4. row'[s] # NoRow /\ row'[s].deleted = TRUE
    BY <2>3, NoRowAssumption DEF Rows
  <2>5. Brief(row')[s] = [id |-> row[s].id, parent |-> row[s].parent, deleted |-> TRUE]
    <3>1. Brief(row')[s] = [id |-> row'[s].id, parent |-> row'[s].parent,
                            deleted |-> row'[s].deleted]
      BY <2>4, BriefOfRow
    <3> QED
      BY <2>3, <2>4, <3>1
  <2> QED
    BY <1>3, <2>1, <2>5, ImportedOther
<1>4. CASE s \notin SlotsOf(asked[c]) /\ lock[s] # c
  <2>1. row'[s] = row[s] /\ Seen(c, s) = row[s]
    BY <1>1, <1>4 DEF Seen
  <2>2. CASE OnLevels(c, s)
    <3>1. PICK p \in ParentsOf(asked[c]) : p = row[s].parent
      BY <2>2 DEF OnLevels
    <3>2. Cleared(c, p)
      BY <1>1, <3>1 DEF Settled, Open, DInv, LInv, LevelsToClear
    <3>3. Foreign(c, s, p)
      BY <1>4, <2>1, <2>2, <3>1 DEF Foreign, OnLevels
    <3> QED
      BY <1>4, <2>1, <3>2, <3>3 DEF Cleared
  <2>3. CASE ~OnLevels(c, s)
    <3>1. Brief(row')[s] = Brief(row)[s]
      BY <2>1 DEF Brief
    <3> QED
      BY <1>4, <2>3, <3>1, ImportedOther
  <2> QED
    BY <2>2, <2>3
<1> QED
  BY <1>2, <1>3, <1>4

\* Whatever runs beside it, a save does what KnowledgeBase says of an import, but for
\* nodes of its levels that saves open while it was have written (memory.service.ts:112).
THEOREM SaveIsImportedHolds == Spec => SaveIsImported
<1>1. ASSUME DInv, [Next]_vars, NEW c \in Saves, pc[c] # "done", pc'[c] = "done",
             NEW s \in Slots
      PROVE  \/ Brief(row')[s] = KB!Imported(Brief(row), NodesSaved(c), ParentsOf(asked[c]))[s]
             \/ /\ s \notin SlotsOf(asked[c]) /\ row'[s] = row[s]
                /\ row[s].content \in alongside[c]
  BY <1>1, DoneByCommit, CommitImports DEF DInv
<1>2. DInv /\ [Next]_vars =>
        [\A c \in Saves : pc[c] # "done" /\ pc'[c] = "done" =>
         LET kb == KB!Imported(Brief(row), NodesSaved(c), ParentsOf(asked[c])) IN
         \A s \in Slots :
            \/ Brief(row')[s] = kb[s]
            \/ /\ s \notin SlotsOf(asked[c]) /\ row'[s] = row[s]
               /\ row[s].content \in alongside[c]]_vars
  BY <1>1
<1> QED
  BY <1>2, DraftedInit, DraftedNext, PTL DEF Spec, SaveIsImported

\* A save that no other call was open beside is the import of KnowledgeBase exactly: there
\* the roles' scripts, which wait for each call, may be reasoned about one call at a time.
SerialSaveIsImported ==
    [][\A c \in Saves : pc[c] # "done" /\ pc'[c] = "done" /\ alongside[c] = {} =>
         Brief(row') = KB!Imported(Brief(row), NodesSaved(c), ParentsOf(asked[c]))]_vars

THEOREM SerialSaveIsImportedHolds == Spec => SerialSaveIsImported
<1>1. ASSUME DInv, [Next]_vars, NEW c \in Saves, pc[c] # "done", pc'[c] = "done",
             alongside[c] = {}
      PROVE  Brief(row') = KB!Imported(Brief(row), NodesSaved(c), ParentsOf(asked[c]))
  <2>1. PICK kb : kb = KB!Imported(Brief(row), NodesSaved(c), ParentsOf(asked[c]))
    OBVIOUS
  <2>2. \A s \in Slots : Brief(row')[s] = kb[s]
    BY <1>1, <2>1, DoneByCommit, CommitImports DEF DInv
  <2>3. kb = [s \in Slots |-> kb[s]]
    BY <2>1 DEF KB!Imported
  <2>4. Brief(row') = [s \in Slots |-> Brief(row')[s]]
    BY DEF Brief
  <2> QED
    BY <2>1, <2>2, <2>3, <2>4
<1>2. DInv /\ [Next]_vars =>
        [\A c \in Saves : pc[c] # "done" /\ pc'[c] = "done" /\ alongside[c] = {} =>
         Brief(row') = KB!Imported(Brief(row), NodesSaved(c), ParentsOf(asked[c]))]_vars
  BY <1>1
<1> QED
  BY <1>2, DraftedInit, DraftedNext, PTL DEF Spec, SerialSaveIsImported
=============================================================================

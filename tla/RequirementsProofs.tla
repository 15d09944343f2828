------------------------- MODULE RequirementsProofs -------------------------
(***************************************************************************)
(* Proofs about Requirements for every set of analysts, testers, stories   *)
(* and cases, and any number of saves of a key.                            *)
(***************************************************************************)
EXTENDS Requirements, TLAPS

-----------------------------------------------------------------------------
(***************************************************************************)
(* Types.  Rows carry the key they are saved under and hang below ids that *)
(* were given out; a session that works below a node has one.              *)
(***************************************************************************)
KbOK(store1) ==
    /\ store1 \in [Keys -> Rows \union {NoRow}]
    /\ \A k \in Keys : store1[k] # NoRow =>
          /\ store1[k].id \in {k} \X (1..MaxSaves)
          /\ store1[k].parent \in BoundedIds \union {Top}

WorksBelowANode ==
    \A s \in Sessions : pc[s] \in {"siblings", "clear", "save"} => current[s] \in Nodes

TInv == TypeOK /\ KbOK(kb) /\ WorksBelowANode

-----------------------------------------------------------------------------
(***************************************************************************)
(* Cases spare stories.  A key gets a new id with every save, with a       *)
(* higher number, so a live story that has an id a tester has seen is as   *)
(* it was when it was seen: not below a leaf.                              *)
(***************************************************************************)
SeenIsOld ==
    \A s \in Sessions : \A i \in seen[s] : \E k \in PRD :
        kb[k] # NoRow /\ i[1] = k /\ i[2] <= kb[k].id[2]

SeenIsNotBelowLeaves ==
    \A s \in Testers : pc[s] = "cases" =>
        \A k \in PRD : Live(kb, k) /\ kb[k].id \in seen[s] => kb[k].parent \notin leaves[s]

CInv == TInv /\ SeenIsOld /\ SeenIsNotBelowLeaves

-----------------------------------------------------------------------------
(***************************************************************************)
(* Orphans.  As long as nothing upset the tree, only one session is under  *)
(* way and the tree is whole: the root was never deleted, and what is live *)
(* is the root or hangs below a live node of the tree.  Then what the      *)
(* session has read is still so when it saves.                             *)
(***************************************************************************)
IdleForgets ==
    \A s \in Sessions : pc[s] = "idle" => current[s] = None /\ siblings[s] = {}

OneSession == \A s, o \in Busy : s = o

TreeIsWhole ==
    /\ kb[PrdRoot] # NoRow => Live(kb, PrdRoot) /\ kb[PrdRoot].parent = Top
    /\ \A k \in Keys \ {PrdRoot} : Live(kb, k) => kb[k].parent \in LiveIds(kb, PRD)

ReadIsSo(s) ==
    /\ current[s] # None => current[s].id \in LiveIds(kb, PRD)
    /\ \A n \in siblings[s] : n.id \in LiveIds(kb, PRD)
    /\ pc[s] \in {"query", "root"} => current[s] = None
    /\ pc[s] = "root" => kb[PrdRoot] = NoRow
    /\ pc[s] = "save" => Below(kb, {current[s].id}) = {}
    /\ pc[s] = "cases" => \A i \in leaves[s] :
                             i \in LiveIds(kb, PRD) /\ Below(kb, {i}) \intersect PRD = {}

Calm == OneSession /\ TreeIsWhole /\ \A s \in Sessions : ReadIsSo(s)

OInv == TInv /\ IdleForgets /\ (~upset => Calm)

-----------------------------------------------------------------------------
(* What the entries of the knowledge base leave of a row. *)

Mark(row) == [row EXCEPT !.deleted = TRUE]

LEMMA Marked ==
  ASSUME NEW row \in Rows
  PROVE  Mark(row) \in Rows /\ Mark(row).id = row.id /\ Mark(row).parent = row.parent
         /\ Mark(row).deleted = TRUE
BY DEF Rows, Mark

LEMMA IdTypes == \A k \in Keys : {k} \X (1..MaxSaves) \subseteq BoundedIds /\ BoundedIds \subseteq Ids
BY RequirementsAssumption DEF BoundedIds, Ids

LEMMA RemovedRows ==
  ASSUME NEW st, KbOK(st), NEW ids
  PROVE  /\ KbOK(Removed(st, ids))
         /\ \A k \in Keys :
              \/ Removed(st, ids)[k] = st[k]
              \/ /\ Live(st, k) /\ st[k].id \in ids
                 /\ Removed(st, ids)[k] # NoRow /\ Removed(st, ids)[k].deleted
                 /\ Removed(st, ids)[k].id = st[k].id
<1> DEFINE new == Removed(st, ids)
<1>1. ASSUME NEW k \in Keys
      PROVE  /\ new[k] \in Rows \union {NoRow}
             /\ \/ new[k] = st[k]
                \/ /\ Live(st, k) /\ st[k].id \in ids
                   /\ new[k] # NoRow /\ new[k].deleted
                   /\ new[k].id = st[k].id /\ new[k].parent = st[k].parent
  <2>1. CASE Live(st, k) /\ st[k].id \in ids
    <3>1. st[k] \in Rows
      BY <2>1 DEF Live, KbOK
    <3>2. new[k] = Mark(st[k])
      BY <2>1 DEF Removed, Mark
    <3> QED
      BY <2>1, <3>1, <3>2, Marked, NoRowAssumption
  <2>2. CASE ~(Live(st, k) /\ st[k].id \in ids)
    BY <2>2 DEF Removed, KbOK
  <2> QED
    BY <2>1, <2>2
<1>2. new \in [Keys -> Rows \union {NoRow}]
  <2>1. new = [k \in Keys |-> new[k]]
    BY DEF Removed
  <2> HIDE DEF new
  <2> QED
    BY <1>1, <2>1
<1>3. KbOK(new)
  BY <1>1, <1>2 DEF KbOK, Live
<1> QED
  BY <1>1, <1>3

\* Nodes as they are imported.
NodesOK(nodes) ==
    \A k \in DOMAIN nodes :
        nodes[k].id \in {k} \X (1..MaxSaves) /\ nodes[k].parent \in BoundedIds \union {Top}

LEMMA ImportedRows ==
  ASSUME NEW st, KbOK(st), NEW nodes, NodesOK(nodes), NEW levels
  PROVE  LET new == Imported(st, nodes, levels) IN
         /\ KbOK(new)
         /\ \A k \in Keys \intersect DOMAIN nodes :
              /\ new[k] # NoRow
              /\ new[k].id = nodes[k].id /\ new[k].parent = nodes[k].parent
              /\ new[k].deleted <=> st[k] # NoRow /\ st[k].deleted
         /\ \A k \in Below(st, levels) \ DOMAIN nodes :
              new[k] # NoRow /\ new[k].id = st[k].id /\ new[k].deleted
         /\ \A k \in Keys \ (DOMAIN nodes \union Below(st, levels)) : new[k] = st[k]
<1> DEFINE new == Imported(st, nodes, levels)
<1>1. ASSUME NEW k \in Keys \intersect DOMAIN nodes
      PROVE  /\ new[k] \in Rows /\ new[k] # NoRow
             /\ new[k].id = nodes[k].id /\ new[k].parent = nodes[k].parent
             /\ new[k].deleted <=> st[k] # NoRow /\ st[k].deleted
  <2>1. new[k] = [id |-> nodes[k].id, parent |-> nodes[k].parent,
                  deleted |-> st[k] # NoRow /\ st[k].deleted]
    BY DEF Imported
  <2>2. nodes[k].id \in Ids /\ nodes[k].parent \in Ids \union {Top}
    BY IdTypes DEF NodesOK
  <2>3. (st[k] # NoRow /\ st[k].deleted) \in BOOLEAN
    OBVIOUS
  <2>4. new[k] \in Rows
    BY <2>1, <2>2, <2>3 DEF Rows
  <2>5. new[k].id = nodes[k].id /\ new[k].parent = nodes[k].parent
    BY <2>1
  <2>6. new[k].deleted = (st[k] # NoRow /\ st[k].deleted)
    BY <2>1
  <2> HIDE DEF new
  <2> QED
    BY <2>4, <2>5, <2>6, NoRowAssumption
<1>2. ASSUME NEW k \in Below(st, levels) \ DOMAIN nodes
      PROVE  /\ new[k] \in Rows /\ new[k] # NoRow
             /\ new[k].id = st[k].id /\ new[k].parent = st[k].parent /\ new[k].deleted
  <2>1. st[k] \in Rows
    BY DEF Below, Live, KbOK
  <2>2. new[k] = Mark(st[k])
    BY DEF Imported, Mark, Below
  <2> QED
    BY <2>1, <2>2, Marked, NoRowAssumption
<1>3. ASSUME NEW k \in Keys \ (DOMAIN nodes \union Below(st, levels)) PROVE new[k] = st[k]
  BY DEF Imported
<1>4. new \in [Keys -> Rows \union {NoRow}]
  <2>1. \A k \in Keys : new[k] \in Rows \union {NoRow}
    BY <1>1, <1>2, <1>3 DEF KbOK
  <2>2. new = [k \in Keys |-> new[k]]
    BY DEF Imported
  <2> HIDE DEF new
  <2> QED
    BY <2>1, <2>2
<1>5. \A k \in Below(st, levels) : k \in Keys /\ st[k] # NoRow
  BY DEF Below, Live
<1>6. KbOK(new)
  <2> HIDE DEF new
  <2> QED
    BY <1>1, <1>2, <1>3, <1>4, <1>5 DEF KbOK, NodesOK
<1> QED
  BY <1>1, <1>2, <1>3, <1>6

-----------------------------------------------------------------------------
(* Types. *)

LEMMA InitTInv == Init => TInv
<1> SUFFICES ASSUME Init PROVE TInv
  OBVIOUS
<1>1. KbOK(kb)
  BY DEF Init, Empty, KbOK
<1>2. TypeOK
  BY <1>1 DEF Init, Empty, TypeOK, Waiting
<1>3. WorksBelowANode
  BY DEF Init, WorksBelowANode
<1> QED
  BY <1>1, <1>2, <1>3 DEF TInv

LocalTypes ==
    /\ pc \in [Sessions -> Waiting \union {"version", "upgrade", "load", "siblings", "ask",
                 "query", "remove", "root", "clear", "save", "chains", "cases"}]
    /\ named \in [Sessions -> BOOLEAN]
    /\ target \in [Sessions -> PRD \union {NoKey}]
    /\ current \in [Sessions -> Nodes \union {None}]
    /\ siblings \in [Sessions -> SUBSET Nodes]
    /\ list \in [Sessions -> SUBSET Stories]
    /\ old \in [Sessions -> BoundedIds \union {None}]
    /\ leaves \in [Sessions -> SUBSET BoundedIds]
    /\ seen \in [Sessions -> SUBSET BoundedIds]

LEMMA Types ==
  TypeOK /\ KbOK(kb) <=>
    version \in BOOLEAN /\ hung \in BOOLEAN /\ upset \in BOOLEAN /\ LocalTypes /\ KbOK(kb)
BY DEF TypeOK, KbOK, LocalTypes

\* What is left of the sessions when some of them end.
LEMMA Forgotten ==
  ASSUME LocalTypes, NEW ss \in SUBSET Sessions, Forget(ss)
  PROVE  /\ LocalTypes'
         /\ \A s \in ss : /\ pc'[s] = "idle" /\ current'[s] = None
                          /\ siblings'[s] = {} /\ leaves'[s] = {} /\ seen'[s] = {}
         /\ \A s \in Sessions \ ss :
               /\ pc'[s] = pc[s] /\ current'[s] = current[s] /\ siblings'[s] = siblings[s]
               /\ leaves'[s] = leaves[s] /\ seen'[s] = seen[s]
<1>1. LocalTypes'
  BY DEF LocalTypes, Forget, Waiting
<1> QED
  BY <1>1 DEF Forget

LEMMA ForgetTInv ==
  ASSUME TInv, NEW ss \in SUBSET Sessions, Forget(ss),
         version' \in BOOLEAN, hung' \in BOOLEAN, upset' \in BOOLEAN, KbOK(kb')
  PROVE  TInv'
<1>1. LocalTypes
  BY Types DEF TInv
<1>2. WorksBelowANode'
  BY <1>1, Forgotten DEF TInv, WorksBelowANode
<1>3. LocalTypes'
  BY <1>1, Forgotten
<1>4. KbOK(kb)'
  BY DEF KbOK
<1>5. TypeOK'
  BY <1>3, <1>4 DEF TypeOK, LocalTypes, KbOK
<1> QED
  BY <1>2, <1>4, <1>5 DEF TInv

\* The nodes of a save, typed.
LEMMA NewIdTypes ==
  ASSUME KbOK(kb), NEW k \in Keys, NewId(kb, k)[2] <= MaxSaves
  PROVE  /\ NewId(kb, k) \in {k} \X (1..MaxSaves)
         /\ kb[k] # NoRow => kb[k].id[2] < NewId(kb, k)[2]
<1>1. CASE kb[k] = NoRow
  BY <1>1, RequirementsAssumption DEF NewId
<1>2. CASE kb[k] # NoRow
  <2>1. kb[k].id \in {k} \X (1..MaxSaves)
    BY <1>2 DEF KbOK
  <2>2. kb[k].id[2] \in 1..MaxSaves
    BY <2>1
  <2> QED
    BY <1>2, <2>2, RequirementsAssumption DEF NewId
<1> QED
  BY <1>1, <1>2

SavedRoot == [k \in {PrdRoot} |-> [id |-> NewId(kb, PrdRoot), parent |-> Top]]
SavedStories(s) == [k \in list[s] |-> [id |-> NewId(kb, k), parent |-> current[s].id]]

LEMMA SavedRootOK ==
  ASSUME KbOK(kb), NEW s, SaveRoot(s)
  PROVE  /\ NodesOK(SavedRoot) /\ SavedRoot[PrdRoot].id = NewId(kb, PrdRoot)
         /\ DOMAIN SavedRoot = {PrdRoot} /\ PrdRoot \in Keys
         /\ kb' = Imported(kb, SavedRoot, {Top})
         /\ SavedRoot[PrdRoot] \in Nodes
         /\ SavedRoot[PrdRoot].parent = Top
         /\ current' = [current EXCEPT ![s] = SavedRoot[PrdRoot]]
         /\ siblings' = [siblings EXCEPT ![s] = {SavedRoot[PrdRoot]}]
<1>1. PrdRoot \in Keys
  BY RequirementsAssumption DEF PRD
<1>2. NewId(kb, PrdRoot) \in {PrdRoot} \X (1..MaxSaves)
  BY <1>1, NewIdTypes DEF SaveRoot
<1>3. SavedRoot[PrdRoot] = [id |-> NewId(kb, PrdRoot), parent |-> Top]
  BY DEF SavedRoot
<1>4. NodesOK(SavedRoot)
  BY <1>2, <1>3 DEF NodesOK, SavedRoot
<1>5. SavedRoot[PrdRoot] \in Nodes
  BY <1>1, <1>2, <1>3, IdTypes DEF Nodes
<1>6. kb' = Imported(kb, SavedRoot, {Top})
  BY DEF SaveRoot, SavedRoot
<1> QED
  BY <1>1, <1>3, <1>4, <1>5, <1>6 DEF SaveRoot, SavedRoot

LEMMA SavedStoriesOK ==
  ASSUME TInv, NEW s \in Sessions, SaveStories(s)
  PROVE  /\ NodesOK(SavedStories(s))
         /\ DOMAIN SavedStories(s) = list[s] /\ list[s] \subseteq Stories /\ Stories \subseteq Keys
         /\ \A k \in list[s] : SavedStories(s)[k].id = NewId(kb, k)
                               /\ SavedStories(s)[k].parent = current[s].id
         /\ kb' = Imported(kb, SavedStories(s), {current[s].id})
<1>1. list[s] \subseteq Stories /\ Stories \subseteq Keys
  BY RequirementsAssumption DEF TInv, TypeOK, PRD
<1>2. current[s] \in Nodes
  BY DEF SaveStories, At, TInv, WorksBelowANode
<1>3. current[s].id \in BoundedIds
  BY <1>2 DEF Nodes
<1>4. \A k \in list[s] : NewId(kb, k) \in {k} \X (1..MaxSaves)
  BY <1>1, NewIdTypes DEF SaveStories, TInv
<1>5. NodesOK(SavedStories(s))
  BY <1>3, <1>4 DEF NodesOK, SavedStories
<1> QED
  BY <1>1, <1>5 DEF SaveStories, SavedStories

SavedCases(last) == [k \in DOMAIN last |-> [id |-> NewId(kb, k), parent |-> last[k]]]

CasesSaved(s, for, nodes, levels) ==
    /\ NodesOK(nodes)
    /\ DOMAIN nodes = DOMAIN for /\ DOMAIN nodes \subseteq Cases /\ DOMAIN nodes \subseteq Keys
    /\ \A k \in DOMAIN nodes : nodes[k].id = NewId(kb, k) /\ NewId(kb, k)[2] <= MaxSaves
    /\ \A k \in DOMAIN nodes : nodes[k].parent \in leaves[s]
    /\ levels \subseteq leaves[s]
    /\ kb' = Imported(kb, nodes, levels)

LEMMA SavedCasesOK ==
  ASSUME TInv, NEW s \in Sessions, NEW for \in MadeFor(s), SaveCases(s, for)
  PROVE  \E nodes, levels : CasesSaved(s, for, nodes, levels)
<1>1. PICK last \in [DOMAIN for -> leaves[s]] :
        kb' = Imported(kb, [k \in DOMAIN for |-> [id |-> NewId(kb, k), parent |-> last[k]]],
                       UNION {for[k] : k \in DOMAIN for})
  BY DEF SaveCases
<1>2. PICK cs \in SUBSET Cases : for \in [cs -> SUBSET leaves[s] \ {{}}]
  BY DEF MadeFor
<1>3. DOMAIN for \subseteq Cases /\ Cases \subseteq Keys
  BY <1>2, RequirementsAssumption
<1>4. leaves[s] \subseteq BoundedIds
  BY DEF TInv, TypeOK
<1>5. \A k \in DOMAIN for : NewId(kb, k) \in {k} \X (1..MaxSaves)
  BY <1>3, NewIdTypes DEF SaveCases, TInv
<1>6. DOMAIN last = DOMAIN for /\ \A k \in DOMAIN for : last[k] \in leaves[s]
  OBVIOUS
<1>7. NodesOK(SavedCases(last))
  BY <1>4, <1>5, <1>6 DEF NodesOK, SavedCases
<1>8. UNION {for[k] : k \in DOMAIN for} \subseteq leaves[s]
  BY <1>2
<1>9. kb' = Imported(kb, SavedCases(last), UNION {for[k] : k \in DOMAIN for})
  BY <1>1, <1>6 DEF SavedCases
<1>10. \A k \in DOMAIN for : NewId(kb, k)[2] <= MaxSaves
  BY DEF SaveCases
<1> WITNESS SavedCases(last), UNION {for[k] : k \in DOMAIN for}
<1> QED
  BY <1>3, <1>6, <1>7, <1>8, <1>9, <1>10 DEF SavedCases, CasesSaved

LEMMA NodeTypes ==
  ASSUME KbOK(kb), NEW k \in Keys, kb[k] # NoRow
  PROVE  Node(k) \in Nodes
BY IdTypes DEF KbOK, Node, Nodes

LEMMA AnalystTInv ==
  ASSUME TInv, NEW s \in Analysts, AnalystStep(s)
  PROVE  TInv'
<1>0. /\ s \in Sessions /\ LocalTypes /\ KbOK(kb) /\ WorksBelowANode
      /\ version \in BOOLEAN /\ hung \in BOOLEAN /\ upset \in BOOLEAN
  BY Types DEF TInv, Sessions
<1>1. ASSUME version' \in BOOLEAN, hung' \in BOOLEAN, upset' \in BOOLEAN, LocalTypes', KbOK(kb)',
             WorksBelowANode'
      PROVE  TInv'
  BY <1>1 DEF TInv, TypeOK, LocalTypes, KbOK
<1>2. ASSUME UNCHANGED <<kb, version, hung, upset>>
      PROVE  version' \in BOOLEAN /\ hung' \in BOOLEAN /\ upset' \in BOOLEAN /\ KbOK(kb)'
  BY <1>0, <1>2 DEF KbOK
<1>3. ASSUME End(s) PROVE TInv'
  BY <1>0, <1>2, <1>3, ForgetTInv DEF End, store, KbOK
<1>4. ASSUME NEW name \in BOOLEAN, NEW k \in PRD \union {NoKey}, Generate(s, name, k) PROVE TInv'
  <2>1. LocalTypes'
    BY <1>0, <1>4 DEF Generate, Start, Goto, LocalTypes
  <2>2. upset' \in BOOLEAN /\ KbOK(kb)' /\ version' \in BOOLEAN /\ hung' \in BOOLEAN
    BY <1>0, <1>4 DEF Generate, Start, KbOK
  <2>3. WorksBelowANode'
    BY <1>0, <1>4 DEF Generate, Start, Goto, WorksBelowANode, LocalTypes
  <2> QED
    BY <1>1, <2>1, <2>2, <2>3
<1>5. CASE AnalystVersion(s)
  <2>1. CASE version /\ ~named[s]
    BY <1>3, <1>5, <2>1 DEF AnalystVersion
  <2>2. CASE ~(version /\ ~named[s])
    <3>1. /\ pc' = [pc EXCEPT ![s] = IF version THEN "load" ELSE "upgrade"]
          /\ named' = [named EXCEPT ![s] = named[s] /\ ~version]
          /\ UNCHANGED <<store, target, current, siblings, list, old, leaves, seen>>
      BY <1>0, <1>5, <2>2 DEF AnalystVersion, Goto, LocalTypes
    <3>2. named' \in [Sessions -> BOOLEAN]
      BY <1>0, <3>1 DEF LocalTypes
    <3>3. LocalTypes' /\ WorksBelowANode'
      BY <1>0, <3>1, <3>2 DEF LocalTypes, WorksBelowANode
    <3> QED
      BY <1>1, <1>2, <3>1, <3>3 DEF store
  <2> QED
    BY <2>1, <2>2
<1>6. CASE Upgrade(s)
  <2>1. CASE ~(named[s] /\ ~version)
    BY <1>3, <1>6, <2>1 DEF Upgrade
  <2>2. CASE named[s] /\ ~version
    <3>1. /\ version' = TRUE /\ pc' = [pc EXCEPT ![s] = "load"]
          /\ named' = [named EXCEPT ![s] = FALSE]
          /\ UNCHANGED <<kb, hung, upset, target, current, siblings, list, old, leaves, seen>>
      BY <1>6, <2>2 DEF Upgrade, Goto
    <3>2. LocalTypes' /\ WorksBelowANode'
      BY <1>0, <3>1 DEF LocalTypes, WorksBelowANode
    <3> QED
      BY <1>0, <1>1, <3>1, <3>2 DEF KbOK
  <2> QED
    BY <2>1, <2>2
<1>7. CASE FreshRoot(s) \/ Ask(s) \/ ClearSubs(s)
  <2>1. LocalTypes'
    BY <1>0, <1>7 DEF FreshRoot, Ask, ClearSubs, Goto, locals, LocalTypes, Waiting
  <2>2. WorksBelowANode'
    BY <1>0, <1>7 DEF FreshRoot, Ask, ClearSubs, At, Goto, locals, LocalTypes, WorksBelowANode
  <2> QED
    BY <1>1, <1>2, <1>7, <2>1, <2>2 DEF FreshRoot, Ask, ClearSubs, store
<1>8. CASE FromSiblings(s)
  <2>1. PICK n \in Nodes : current' = [current EXCEPT ![s] = n]
    BY <1>0, <1>8 DEF FromSiblings, Cached, LocalTypes
  <2>2. LocalTypes' /\ WorksBelowANode'
    BY <1>0, <1>8, <2>1 DEF FromSiblings, Goto, LocalTypes, WorksBelowANode
  <2> QED
    BY <1>1, <1>2, <1>8, <2>2 DEF FromSiblings, store
<1>9. CASE LoadNode(s)
  <2>1. CASE Has(kb, target[s])
    <3>1. target[s] \in Keys /\ kb[target[s]] # NoRow
      BY <1>0, <1>9, <2>1, RequirementsAssumption DEF LoadNode, Has, Live, LocalTypes
    <3>2. Node(target[s]) \in Nodes
      BY <1>0, <3>1, NodeTypes
    <3>3. LocalTypes' /\ WorksBelowANode'
      BY <1>0, <1>9, <2>1, <3>2 DEF LoadNode, Goto, LocalTypes, WorksBelowANode
    <3> QED
      BY <1>1, <1>2, <1>9, <2>1, <3>3 DEF LoadNode, store
  <2>2. CASE ~Has(kb, target[s])
    BY <1>3, <1>9, <2>2 DEF LoadNode
  <2> QED
    BY <2>1, <2>2
<1>10. CASE LoadSiblings(s)
  <2> DEFINE ks == Below(kb, {current[s].parent}) \intersect PRD
  <2>1. CASE ks = {}
    BY <1>3, <1>10, <2>1 DEF LoadSiblings
  <2>2. CASE ks # {}
    <3>1. {Node(k) : k \in ks} \subseteq Nodes
      BY <1>0, NodeTypes DEF Below, Live
    <3>2. /\ siblings' = [siblings EXCEPT ![s] = {Node(k) : k \in ks}]
          /\ Goto(s, "ask")
          /\ UNCHANGED <<store, named, target, current, list, old, leaves, seen>>
      BY <1>10, <2>2 DEF LoadSiblings
    <3> HIDE DEF ks
    <3>3. LocalTypes' /\ WorksBelowANode'
      BY <1>0, <3>1, <3>2 DEF Goto, LocalTypes, WorksBelowANode
    <3> QED
      BY <1>1, <1>2, <3>2, <3>3 DEF store
  <2> QED
    BY <2>1, <2>2
<1>11. CASE Decline(s) \/ Stop(s)
  BY <1>3, <1>11 DEF Decline, Stop
<1>12. ASSUME NEW ks \in SUBSET Stories \ {{}}, Confirm(s, ks) PROVE TInv'
  <2>1. LocalTypes'
    BY <1>0, <1>12 DEF Confirm, Goto, LocalTypes
  <2>2. WorksBelowANode'
    BY <1>0, <1>12 DEF Confirm, Goto, LocalTypes, WorksBelowANode
  <2> QED
    BY <1>1, <1>2, <1>12, <2>1, <2>2 DEF Confirm, store
<1>13. CASE QueryRoot(s)
  <2>1. ASSUME NEW k \in Roots(kb) \intersect PRD PROVE kb[k].id \in BoundedIds
    BY <1>0, <2>1, IdTypes DEF Roots, Below, Live, KbOK
  <2>2. LocalTypes'
    BY <1>0, <1>13, <2>1 DEF QueryRoot, Goto, LocalTypes
  <2>3. WorksBelowANode'
    BY <1>0, <1>13 DEF QueryRoot, Goto, LocalTypes, WorksBelowANode
  <2> QED
    BY <1>1, <1>2, <1>13, <2>2, <2>3 DEF QueryRoot, store
<1>14. CASE RemoveRoot(s)
  <2>1. KbOK(kb)'
    BY <1>0, <1>14, RemovedRows DEF RemoveRoot, KbOK
  <2>2. LocalTypes' /\ WorksBelowANode'
    BY <1>0, <1>14 DEF RemoveRoot, Goto, LocalTypes, WorksBelowANode
  <2> QED
    BY <1>0, <1>1, <1>14, <2>1, <2>2 DEF RemoveRoot
<1>15. CASE SaveRoot(s)
  <2>1. KbOK(kb)'
    BY <1>0, <1>15, SavedRootOK, ImportedRows DEF KbOK
  <2>2. PICK root \in Nodes : /\ current' = [current EXCEPT ![s] = root]
                              /\ siblings' = [siblings EXCEPT ![s] = {root}]
    BY <1>0, <1>15, SavedRootOK
  <2>3. LocalTypes' /\ WorksBelowANode'
    BY <1>0, <1>15, <2>2 DEF SaveRoot, Goto, LocalTypes, WorksBelowANode
  <2> QED
    BY <1>0, <1>1, <1>15, <2>1, <2>3 DEF SaveRoot
<1>16. CASE SaveStories(s)
  <2>1. KbOK(kb)'
    <3>1. NodesOK(SavedStories(s)) /\ kb' = Imported(kb, SavedStories(s), {current[s].id})
      BY <1>0, <1>16, SavedStoriesOK
    <3>2. KbOK(kb')
      BY <1>0, <3>1, ImportedRows
    <3> QED
      BY <3>2 DEF KbOK
  <2>2. LocalTypes' /\ WorksBelowANode'
    BY <1>0, <1>16 DEF SaveStories, Goto, LocalTypes, WorksBelowANode, Waiting
  <2>3. upset' \in BOOLEAN
    BY <1>16 DEF SaveStories
  <2> QED
    BY <1>0, <1>1, <1>16, <2>1, <2>2, <2>3 DEF SaveStories
<1>17. ASSUME NEW k \in PRD, Continue(s, k) PROVE TInv'
  <2>1. LocalTypes' /\ WorksBelowANode'
    BY <1>0, <1>17 DEF Continue, Goto, LocalTypes, WorksBelowANode
  <2> QED
    BY <1>1, <1>2, <1>17, <2>1 DEF Continue, store
<1>18. CASE Crash(s)
  <2>1. KbOK(kb')
    BY <1>0, <1>18, RemovedRows DEF Crash
  <2> QED
    BY <1>0, <1>18, <2>1, ForgetTInv DEF Crash
<1> QED
  BY <1>4, <1>5, <1>6, <1>7, <1>8, <1>9, <1>10, <1>11, <1>12, <1>13, <1>14, <1>15, <1>16, <1>17,
     <1>18 DEF AnalystStep

LEMMA TesterTInv ==
  ASSUME TInv, NEW s \in Testers, TesterStep(s)
  PROVE  TInv'
<1>0. /\ s \in Sessions /\ LocalTypes /\ KbOK(kb) /\ WorksBelowANode
      /\ version \in BOOLEAN /\ hung \in BOOLEAN /\ upset \in BOOLEAN
  BY Types DEF TInv, Sessions
<1>1. ASSUME UNCHANGED <<kb, version, hung>>, upset' \in BOOLEAN, LocalTypes', WorksBelowANode'
      PROVE  TInv'
  BY <1>0, <1>1 DEF TInv, TypeOK, LocalTypes, KbOK
<1>2. ASSUME End(s) PROVE TInv'
  BY <1>0, <1>2, ForgetTInv DEF End, store, KbOK
<1>3. ASSUME NEW name \in BOOLEAN, Test(s, name) PROVE TInv'
  <2>1. LocalTypes' /\ WorksBelowANode' /\ upset' \in BOOLEAN
    BY <1>0, <1>3 DEF Test, Start, Goto, LocalTypes, WorksBelowANode
  <2> QED
    BY <1>1, <1>3, <2>1 DEF Test, Start
<1>4. CASE TesterVersion(s)
  <2>1. CASE version
    <3>1. LocalTypes' /\ WorksBelowANode'
      BY <1>0, <1>4, <2>1 DEF TesterVersion, Goto, LocalTypes, WorksBelowANode
    <3> QED
      BY <1>0, <1>1, <1>4, <2>1, <3>1 DEF TesterVersion, store
  <2>2. CASE ~version
    BY <1>2, <1>4, <2>2 DEF TesterVersion
  <2> QED
    BY <2>1, <2>2
<1>5. CASE LoadChains(s)
  <2> DEFINE ends == Leaves(kb, PRD)
  <2>1. CASE ends = {}
    BY <1>2, <1>5, <2>1 DEF LoadChains
  <2>2. CASE ends # {}
    <3>1. LiveIds(kb, PRD) \subseteq BoundedIds
      BY <1>0, IdTypes, RequirementsAssumption DEF LiveIds, Live, KbOK
    <3>2. ends \subseteq BoundedIds
      BY <3>1 DEF Leaves
    <3>3. /\ leaves' = [leaves EXCEPT ![s] = ends]
          /\ seen' = [seen EXCEPT ![s] = LiveIds(kb, PRD)]
          /\ Goto(s, "cases")
          /\ UNCHANGED <<store, named, target, current, siblings, list, old>>
      BY <1>5, <2>2 DEF LoadChains
    <3> HIDE DEF ends
    <3>4. LocalTypes' /\ WorksBelowANode'
      BY <1>0, <3>1, <3>2, <3>3 DEF Goto, LocalTypes, WorksBelowANode
    <3> QED
      BY <1>0, <1>1, <3>3, <3>4 DEF store
  <2> QED
    BY <2>1, <2>2
<1>6. CASE Spin(s)
  BY <1>0, <1>6, ForgetTInv DEF Spin, KbOK
<1>7. ASSUME NEW for \in MadeFor(s), SaveCases(s, for) PROVE TInv'
  <2>1. KbOK(kb')
    <3>1. \E nodes, levels : NodesOK(nodes) /\ kb' = Imported(kb, nodes, levels)
      BY <1>0, <1>7, SavedCasesOK DEF CasesSaved
    <3> QED
      BY <1>0, <3>1, ImportedRows
  <2> QED
    BY <1>0, <1>7, <2>1, ForgetTInv DEF SaveCases
<1> QED
  BY <1>3, <1>4, <1>5, <1>6, <1>7 DEF TesterStep

LEMMA StepTInv == TInv /\ [Next]_vars => TInv'
<1> SUFFICES ASSUME TInv, [Next]_vars PROVE TInv'
  OBVIOUS
<1>0. KbOK(kb) /\ version \in BOOLEAN /\ hung \in BOOLEAN /\ upset \in BOOLEAN
  BY DEF TInv, TypeOK
<1>1. ASSUME NEW s \in Sessions, StepFails(s) PROVE TInv'
  BY <1>0, <1>1, ForgetTInv DEF StepFails, End, store
<1>2. CASE Restart
  BY <1>0, <1>2, ForgetTInv DEF Restart
<1>3. CASE UNCHANGED vars
  BY <1>3 DEF vars, TInv, TypeOK, KbOK, WorksBelowANode
<1> QED
  BY <1>1, <1>2, <1>3, AnalystTInv, TesterTInv DEF Next

(* ba-role.seed.ts, bdd-role.seed.ts: every state has its types; a session that clears or *)
(* saves below a node has one, and every row hangs below an id that was given out.        *)
THEOREM TypeCorrect == Spec => []TypeOK
<1>1. TInv => TypeOK
  BY DEF TInv
<1> QED
  BY <1>1, InitTInv, StepTInv, PTL DEF Spec

-----------------------------------------------------------------------------
(* What a step may do to the store, and to a session that does not take it. *)

SavedAnew(k) ==
    /\ kb'[k] # NoRow
    /\ kb'[k].id \in {k} \X (1..MaxSaves)
    /\ kb[k] # NoRow => kb[k].id[2] < kb'[k].id[2]

KeyMoves(k) ==
    \/ kb'[k] = kb[k]
    \/ kb[k] # NoRow /\ kb'[k] # NoRow /\ kb'[k].id = kb[k].id /\ kb'[k].deleted
    \/ SavedAnew(k)

LEMMA ImportMoves ==
  ASSUME KbOK(kb), NEW nodes, NodesOK(nodes), DOMAIN nodes \subseteq Keys,
         \A k \in DOMAIN nodes : NewId(kb, k)[2] <= MaxSaves /\ nodes[k].id = NewId(kb, k),
         NEW levels, kb' = Imported(kb, nodes, levels)
  PROVE  \A k \in Keys : KeyMoves(k)
<1> SUFFICES ASSUME NEW k \in Keys PROVE KeyMoves(k)
  OBVIOUS
<1>1. CASE k \in DOMAIN nodes
  <2>1. kb'[k] # NoRow /\ kb'[k].id = NewId(kb, k)
    BY <1>1, ImportedRows
  <2> QED
    BY <1>1, <2>1, NewIdTypes DEF KeyMoves, SavedAnew
<1>2. CASE k \in Below(kb, levels) \ DOMAIN nodes
  <2>1. kb'[k] # NoRow /\ kb'[k].id = kb[k].id /\ kb'[k].deleted
    BY <1>2, ImportedRows
  <2> QED
    BY <1>2, <2>1 DEF KeyMoves, Below, Live
<1>3. CASE k \notin DOMAIN nodes \union Below(kb, levels)
  BY <1>3, ImportedRows DEF KeyMoves
<1> QED
  BY <1>1, <1>2, <1>3

LEMMA RemovalMoves ==
  ASSUME KbOK(kb), NEW ids, kb' = Removed(kb, ids)
  PROVE  \A k \in Keys : KeyMoves(k)
BY RemovedRows DEF KeyMoves, Live

\* The steps that write.
LEMMA Writes ==
  ASSUME [Next]_vars
  PROVE  \/ kb' = kb
         \/ \E s \in Analysts : RemoveRoot(s) \/ SaveRoot(s) \/ SaveStories(s) \/ Crash(s)
         \/ \E s \in Testers : \E for \in MadeFor(s) : SaveCases(s, for)
BY DEF Next, AnalystStep, TesterStep, Generate, Start, AnalystVersion, Upgrade, FreshRoot, FromSiblings,
       LoadNode, LoadSiblings, Ask, Decline, Confirm, QueryRoot, ClearSubs, Continue, Stop, Test,
       TesterVersion, LoadChains, Spin, StepFails, Restart, End, store, vars

LEMMA StepMoves == TInv /\ [Next]_vars => \A k \in Keys : KeyMoves(k)
<1> SUFFICES ASSUME TInv, [Next]_vars PROVE \A k \in Keys : KeyMoves(k)
  OBVIOUS
<1>0. KbOK(kb)
  BY DEF TInv
<1>1. CASE kb' = kb
  BY <1>1 DEF KeyMoves
<1>2. ASSUME NEW s \in Analysts, RemoveRoot(s) \/ Crash(s) PROVE \A k \in Keys : KeyMoves(k)
  <2>1. kb' = kb \/ kb' = Removed(kb, {old[s]})
    BY <1>2 DEF RemoveRoot, Crash
  <2> QED
    BY <1>0, <1>1, <2>1, RemovalMoves
<1>3. ASSUME NEW s \in Analysts, SaveRoot(s) PROVE \A k \in Keys : KeyMoves(k)
  <2>1. /\ NodesOK(SavedRoot) /\ SavedRoot[PrdRoot].id = NewId(kb, PrdRoot)
        /\ DOMAIN SavedRoot = {PrdRoot} /\ PrdRoot \in Keys
        /\ kb' = Imported(kb, SavedRoot, {Top}) /\ NewId(kb, PrdRoot)[2] <= MaxSaves
    BY <1>0, <1>3, SavedRootOK DEF SaveRoot
  <2> QED
    BY <1>0, <2>1, ImportMoves
<1>4. ASSUME NEW s \in Analysts, SaveStories(s) PROVE \A k \in Keys : KeyMoves(k)
  <2>1. /\ NodesOK(SavedStories(s)) /\ DOMAIN SavedStories(s) = list[s] /\ list[s] \subseteq Keys
        /\ \A k \in list[s] : SavedStories(s)[k].id = NewId(kb, k)
        /\ kb' = Imported(kb, SavedStories(s), {current[s].id})
    BY <1>4, SavedStoriesOK DEF Sessions
  <2>2. \A k \in list[s] : NewId(kb, k)[2] <= MaxSaves
    BY <1>4 DEF SaveStories
  <2> QED
    BY <1>0, <2>1, <2>2, ImportMoves
<1>5. ASSUME NEW s \in Testers, NEW for \in MadeFor(s), SaveCases(s, for)
      PROVE  \A k \in Keys : KeyMoves(k)
  <2>1. PICK nodes, levels : CasesSaved(s, for, nodes, levels)
    BY <1>5, SavedCasesOK DEF Sessions
  <2> QED
    BY <1>0, <2>1, ImportMoves DEF CasesSaved
<1> QED
  BY <1>1, <1>2, <1>3, <1>4, <1>5, Writes

SameLocals(s) ==
    /\ pc'[s] = pc[s] /\ current'[s] = current[s] /\ siblings'[s] = siblings[s]
    /\ leaves'[s] = leaves[s] /\ seen'[s] = seen[s]

NoLocals(s) ==
    /\ pc'[s] = "idle" /\ current'[s] = None /\ siblings'[s] = {}
    /\ leaves'[s] = {} /\ seen'[s] = {}

LEMMA Ends ==
  ASSUME LocalTypes, NEW ss \in SUBSET Sessions, Forget(ss), NEW s \in Sessions
  PROVE  SameLocals(s) \/ NoLocals(s)
BY Forgotten DEF SameLocals, NoLocals

\* A session either takes the step, ends, or is left alone.
LEMMA Locals ==
  ASSUME TInv, [Next]_vars, NEW s \in Sessions
  PROVE  \/ SameLocals(s)
         \/ NoLocals(s)
         \/ /\ s \in Analysts /\ AnalystStep(s) /\ pc'[s] # "idle"
            /\ pc'[s] # "cases" /\ leaves'[s] = leaves[s] /\ seen'[s] = seen[s]
         \/ /\ s \in Testers /\ TesterStep(s) /\ pc'[s] # "idle"
            /\ pc'[s] = "cases" => LoadChains(s)
            /\ ~LoadChains(s) => leaves'[s] = leaves[s] /\ seen'[s] = seen[s]
<1>0. LocalTypes
  BY Types DEF TInv
<1>1. ASSUME NEW ss \in SUBSET Sessions, Forget(ss) PROVE SameLocals(s) \/ NoLocals(s)
  BY <1>0, <1>1, Ends
<1>2. ASSUME NEW o \in Analysts, AnalystStep(o)
      PROVE  \/ SameLocals(s) \/ NoLocals(s)
             \/ /\ o = s /\ pc'[s] # "idle"
                /\ pc'[s] # "cases" /\ leaves'[s] = leaves[s] /\ seen'[s] = seen[s]
  <2>1. CASE \/ \E ss \in SUBSET Sessions : Forget(ss)
    BY <1>1, <2>1
  <2>2. CASE ~\E ss \in SUBSET Sessions : Forget(ss)
    <3>1. ~Crash(o) /\ ~End(o)
      BY <2>2 DEF Crash, End, Sessions
    <3>2. leaves' = leaves /\ seen' = seen
      BY <1>2, <3>1 DEF AnalystStep, Generate, Start, AnalystVersion, Upgrade, FreshRoot, FromSiblings,
         LoadNode, LoadSiblings, Ask, Decline, Confirm, QueryRoot, RemoveRoot, SaveRoot, ClearSubs,
         SaveStories, Continue, Stop, locals
    <3>3. \E l \in {"version", "load", "upgrade", "siblings", "ask", "query", "remove", "root", "clear",
                    "save", "continue", "confirm"} : pc' = [pc EXCEPT ![o] = l]
      BY <1>2, <3>1 DEF AnalystStep, Generate, Start, AnalystVersion, Upgrade, FreshRoot, FromSiblings,
         LoadNode, LoadSiblings, Ask, Decline, Confirm, QueryRoot, RemoveRoot, SaveRoot, ClearSubs,
         SaveStories, Continue, Stop, Goto
    <3>4. s # o => current'[s] = current[s] /\ siblings'[s] = siblings[s]
      BY <1>0, <1>2, <3>1 DEF AnalystStep, Generate, Start, AnalystVersion, Upgrade, FreshRoot,
         FromSiblings, LoadNode, LoadSiblings, Ask, Decline, Confirm, QueryRoot, RemoveRoot, SaveRoot,
         ClearSubs, SaveStories, Continue, Stop, locals, LocalTypes
    <3> QED
      BY <1>0, <3>2, <3>3, <3>4 DEF SameLocals, LocalTypes
  <2> QED
    BY <2>1, <2>2
<1>3. ASSUME NEW o \in Testers, TesterStep(o)
      PROVE  \/ SameLocals(s) \/ NoLocals(s)
             \/ /\ o = s /\ pc'[s] # "idle" /\ (pc'[s] = "cases" => LoadChains(s))
                /\ ~LoadChains(s) => leaves'[s] = leaves[s] /\ seen'[s] = seen[s]
  <2>1. CASE \/ \E ss \in SUBSET Sessions : Forget(ss)
    BY <1>1, <2>1
  <2>2. CASE ~\E ss \in SUBSET Sessions : Forget(ss)
    <3>1. /\ ~End(o) /\ ~Spin(o)
          /\ \A for \in MadeFor(o) : ~SaveCases(o, for)
      BY <2>2 DEF Spin, SaveCases, End, Sessions
    <3>2. CASE LoadChains(o)
      BY <1>0, <3>1, <3>2 DEF LoadChains, Goto, SameLocals, LocalTypes
    <3>3. CASE (\E name \in BOOLEAN : Test(o, name)) \/ TesterVersion(o)
      BY <1>0, <3>1, <3>3 DEF Test, Start, TesterVersion, Goto, SameLocals, LocalTypes
    <3> QED
      BY <1>3, <3>1, <3>2, <3>3 DEF TesterStep
  <2> QED
    BY <2>1, <2>2
<1>4. ASSUME NEW o \in Sessions, StepFails(o) PROVE SameLocals(s) \/ NoLocals(s)
  BY <1>1, <1>4 DEF StepFails, End
<1>5. CASE Restart
  BY <1>1, <1>5 DEF Restart
<1>6. CASE UNCHANGED vars
  BY <1>6 DEF vars, SameLocals
<1> QED
  BY <1>2, <1>3, <1>4, <1>5, <1>6 DEF Next, Sessions

-----------------------------------------------------------------------------
(* What a tester has seen. *)

LEMMA InitCInv == Init => CInv
<1> SUFFICES ASSUME Init PROVE CInv
  OBVIOUS
<1>1. \A s \in Sessions : seen[s] = {} /\ pc[s] = "idle"
  BY DEF Init
<1>2. SeenIsOld /\ SeenIsNotBelowLeaves
  BY <1>1 DEF SeenIsOld, SeenIsNotBelowLeaves, Sessions
<1> QED
  BY <1>2, InitTInv DEF CInv

LEMMA NumbersGrow ==
  ASSUME KbOK(kb), NEW k \in Keys, KeyMoves(k), kb[k] # NoRow, NEW n \in Nat, n <= kb[k].id[2]
  PROVE  kb'[k] # NoRow /\ n <= kb'[k].id[2]
<1>1. kb[k].id \in {k} \X (1..MaxSaves)
  BY DEF KbOK
<1>2. kb[k].id[2] \in 1..MaxSaves
  BY <1>1
<1>3. CASE SavedAnew(k)
  <2>1. kb'[k].id[2] \in 1..MaxSaves
    BY <1>3 DEF SavedAnew
  <2> QED
    BY <1>2, <1>3, <2>1, RequirementsAssumption DEF SavedAnew
<1> QED
  BY <1>2, <1>3 DEF KeyMoves

\* What LoadChains reads.
LEMMA ChainsRead ==
  ASSUME TInv, NEW s \in Testers, LoadChains(s), pc'[s] = "cases"
  PROVE  kb' = kb /\ leaves'[s] = Leaves(kb, PRD) /\ seen'[s] = LiveIds(kb, PRD)
<1>1. LocalTypes /\ s \in Sessions
  BY Types DEF TInv, Sessions
<1>2. ~End(s)
  BY <1>1, Forgotten DEF End
<1> QED
  BY <1>1, <1>2 DEF LoadChains, LocalTypes, store

LEMMA StepSeenIsOld ==
  ASSUME CInv, [Next]_vars
  PROVE  SeenIsOld'
<1>0. TInv /\ KbOK(kb) /\ LocalTypes
  BY Types DEF CInv, TInv
<1>1. \A k \in Keys : KeyMoves(k)
  BY <1>0, StepMoves
<1>2. PRD \subseteq Keys
  BY RequirementsAssumption
<1> SUFFICES ASSUME NEW s \in Sessions, NEW i \in seen'[s]
             PROVE  \E k \in PRD : kb'[k] # NoRow /\ i[1] = k /\ i[2] <= kb'[k].id[2]
  BY DEF SeenIsOld
<1>3. CASE i \in seen[s]
  <2>1. PICK k \in PRD : kb[k] # NoRow /\ i[1] = k /\ i[2] <= kb[k].id[2]
    BY <1>3 DEF CInv, SeenIsOld
  <2>2. i \in BoundedIds
    BY <1>0, <1>3 DEF LocalTypes
  <2>3. i[2] \in Nat
    BY <2>2, RequirementsAssumption DEF BoundedIds
  <2> QED
    BY <1>0, <1>1, <1>2, <2>1, <2>3, NumbersGrow
<1>4. CASE i \notin seen[s]
  <2>1. s \in Testers /\ LoadChains(s) /\ ~NoLocals(s)
    BY <1>0, <1>4, Locals DEF SameLocals, NoLocals
  <2>2. ~End(s)
    BY <1>0, <2>1, Forgotten DEF End, NoLocals
  <2>3. kb' = kb /\ seen'[s] = LiveIds(kb, PRD)
    BY <1>0, <2>1, <2>2 DEF LoadChains, LocalTypes, store
  <2>4. PICK k \in PRD : Live(kb, k) /\ i = kb[k].id
    BY <2>3 DEF LiveIds
  <2>5. kb[k] # NoRow /\ i \in {k} \X (1..MaxSaves)
    BY <1>0, <1>2, <2>4 DEF Live, KbOK
  <2>6. i[1] = k /\ i[2] \in 1..MaxSaves
    BY <2>5
  <2>7. i[2] <= kb'[k].id[2]
    BY <2>3, <2>4, <2>6, RequirementsAssumption
  <2> QED
    BY <2>3, <2>5, <2>6, <2>7
<1> QED
  BY <1>3, <1>4

LEMMA StepSeenIsNotBelowLeaves ==
  ASSUME CInv, [Next]_vars
  PROVE  SeenIsNotBelowLeaves'
<1>0. TInv /\ KbOK(kb) /\ LocalTypes
  BY Types DEF CInv, TInv
<1>1. \A k \in Keys : KeyMoves(k)
  BY <1>0, StepMoves
<1>2. PRD \subseteq Keys
  BY RequirementsAssumption
<1> SUFFICES ASSUME NEW s \in Testers, pc'[s] = "cases", NEW k \in PRD, Live(kb', k),
                    kb'[k].id \in seen'[s], kb'[k].parent \in leaves'[s]
             PROVE  FALSE
  BY DEF SeenIsNotBelowLeaves
<1>3. s \in Sessions /\ k \in Keys
  BY <1>2 DEF Sessions
<1>4. CASE SameLocals(s)
  <2>1. pc[s] = "cases" /\ kb'[k].id \in seen[s] /\ kb'[k].parent \in leaves[s]
    BY <1>4 DEF SameLocals
  <2>2. kb'[k] # kb[k]
    BY <2>1 DEF CInv, SeenIsNotBelowLeaves, Live
  <2>3. SavedAnew(k)
    BY <1>1, <1>3, <2>2 DEF KeyMoves, Live
  <2>4. kb'[k].id[1] = k /\ kb'[k].id[2] \in 1..MaxSaves
    BY <2>3 DEF SavedAnew
  <2>5. kb[k] # NoRow /\ kb'[k].id[2] <= kb[k].id[2]
    BY <1>3, <2>1, <2>4 DEF CInv, SeenIsOld
  <2>6. kb[k].id \in {k} \X (1..MaxSaves)
    BY <1>0, <1>3, <2>5 DEF KbOK
  <2>7. kb[k].id[2] \in 1..MaxSaves
    BY <2>6
  <2> QED
    BY <2>3, <2>4, <2>5, <2>7, RequirementsAssumption DEF SavedAnew
<1>5. CASE LoadChains(s)
  <2>1. kb' = kb /\ leaves'[s] = Leaves(kb, PRD)
    BY <1>0, <1>5, ChainsRead
  <2>2. kb[k].parent \in Leaves(kb, PRD) /\ Live(kb, k)
    BY <2>1 DEF Live
  <2>3. k \in Below(kb, {kb[k].parent}) \intersect PRD
    BY <1>3, <2>2 DEF Below
  <2> QED
    BY <2>2, <2>3 DEF Leaves
<1> QED
  BY <1>0, <1>3, <1>4, <1>5, Locals DEF NoLocals

\* Only SaveCases writes while no session but a tester's, at its save, goes on.
LEMMA SavedByIsSaveCases ==
  ASSUME TInv, [Next]_vars, NEW s \in Testers, SavedBy(s)
  PROVE  \E for \in MadeFor(s) : SaveCases(s, for)
<1>0. LocalTypes
  BY Types DEF TInv
<1>1. ASSUME NEW o \in Analysts PROVE ~(RemoveRoot(o) \/ SaveRoot(o) \/ SaveStories(o))
  <2>1. o \in Sessions /\ o # s
    BY RequirementsAssumption DEF Sessions
  <2>2. pc'[o] = pc[o]
    BY <2>1 DEF SavedBy
  <2> QED
    BY <1>0, <2>1, <2>2 DEF RemoveRoot, SaveRoot, SaveStories, At, Goto, LocalTypes
<1>2. ASSUME NEW o \in Analysts PROVE ~Crash(o)
  <2>1. o \in Sessions /\ o # s
    BY RequirementsAssumption DEF Sessions
  <2>2. pc'[o] = pc[o]
    BY <2>1 DEF SavedBy
  <2>3. ASSUME Crash(o) PROVE FALSE
    <3>1. pc'[o] = "idle"
      BY <1>0, <2>1, <2>3, Forgotten DEF Crash
    <3> QED
      BY <2>2, <2>3, <3>1 DEF Crash, At
  <2> QED
    BY <2>3
<1>3. ASSUME NEW o \in Testers, NEW for \in MadeFor(o), SaveCases(o, for) PROVE o = s
  <2>1. pc[o] = "cases" /\ pc'[o] = "idle" /\ o \in Sessions
    BY <1>0, <1>3, Forgotten DEF SaveCases, At, Sessions
  <2> QED
    BY <2>1 DEF SavedBy
<1>4. kb' # kb
  BY DEF SavedBy
<1> QED
  BY <1>1, <1>2, <1>3, <1>4, Writes

\* bdd-role.seed.ts:52-56, memory.service.ts:110: saving the cases deletes no story that was
\* there when the tester read the chains, whatever other sessions did in between.
THEOREM CasesSpareStoriesHolds == Spec => CasesSpareStories
<1>1. ASSUME CInv, [Next]_vars, NEW s \in Testers, SavedBy(s),
             NEW k \in PRD, Live(kb, k), ~Live(kb', k)
      PROVE  kb[k].id \notin seen[s]
  <2>1. TInv /\ KbOK(kb) /\ pc[s] = "cases" /\ s \in Sessions
    BY <1>1 DEF CInv, TInv, SavedBy, Sessions
  <2>2. PICK for \in MadeFor(s) : SaveCases(s, for)
    BY <1>1, <2>1, SavedByIsSaveCases
  <2>3. PICK nodes, levels : CasesSaved(s, for, nodes, levels)
    BY <2>1, <2>2, SavedCasesOK
  <2>4. k \in Keys /\ k \notin DOMAIN nodes
    BY <1>1, <2>3, RequirementsAssumption DEF CasesSaved
  <2>5. k \in Below(kb, levels)
    <3>1. SUFFICES ASSUME k \notin Below(kb, levels) PROVE FALSE
      OBVIOUS
    <3>2. kb'[k] = kb[k]
      BY <2>1, <2>3, <2>4, <3>1, ImportedRows DEF CasesSaved
    <3> QED
      BY <1>1, <3>2 DEF Live
  <2>6. kb[k].parent \in leaves[s]
    BY <2>3, <2>5 DEF Below, CasesSaved
  <2> QED
    BY <1>1, <2>1, <2>6 DEF CInv, SeenIsNotBelowLeaves
<1>2. CInv /\ [Next]_vars => CInv'
  BY StepTInv, StepSeenIsOld, StepSeenIsNotBelowLeaves DEF CInv
<1>3. CInv /\ [Next]_vars =>
        [\A s \in Testers : SavedBy(s) =>
            \A k \in PRD : Live(kb, k) /\ ~Live(kb', k) => kb[k].id \notin seen[s]]_vars
  BY <1>1
<1> QED
  BY <1>2, <1>3, InitCInv, PTL DEF Spec, CasesSpareStories

-----------------------------------------------------------------------------
(* The tree. *)

LEMMA InitOInv == Init => OInv
<1> SUFFICES ASSUME Init PROVE OInv
  OBVIOUS
<1>1. /\ \A s \in Sessions : pc[s] = "idle" /\ current[s] = None /\ siblings[s] = {}
      /\ \A k \in Keys : kb[k] = NoRow
  BY DEF Init, Empty
<1>2. TreeIsWhole
  BY <1>1, RequirementsAssumption DEF TreeIsWhole, Live, PRD
<1>3. \A s \in Sessions : ReadIsSo(s)
  BY <1>1 DEF ReadIsSo
<1>4. IdleForgets /\ OneSession
  BY <1>1 DEF IdleForgets, OneSession, Busy
<1> QED
  BY <1>2, <1>3, <1>4, InitTInv DEF OInv, Calm

LEMMA StepIdleForgets == TInv /\ IdleForgets /\ [Next]_vars => IdleForgets'
BY Locals DEF IdleForgets, SameLocals, NoLocals

\* What upsets the tree is not forgotten.
LEMMA UpsetStays ==
  ASSUME TInv, [Next]_vars, upset
  PROVE  upset'
BY DEF Next, AnalystStep, TesterStep, Generate, Start, AnalystVersion, Upgrade, FreshRoot, FromSiblings,
       LoadNode, LoadSiblings, Ask, Decline, Confirm, QueryRoot, RemoveRoot, SaveRoot, ClearSubs,
       SaveStories, Continue, Stop, Crash, Test, TesterVersion, LoadChains, Spin, SaveCases, StepFails,
       Restart, End, store, vars

Starts(s) ==
    \/ s \in Analysts /\ \E name \in BOOLEAN, k \in PRD \union {NoKey} : Generate(s, name, k)
    \/ s \in Testers /\ \E name \in BOOLEAN : Test(s, name)

\* Any other step is one of a session that was busy.
LEMMA BusySteps ==
  ASSUME TInv, NEW s \in Sessions,
         (s \in Analysts /\ AnalystStep(s)) \/ (s \in Testers /\ TesterStep(s)), ~Starts(s)
  PROVE  s \in Busy
BY DEF AnalystStep, TesterStep, Starts, AnalystVersion, Upgrade, FreshRoot, FromSiblings, LoadNode,
       LoadSiblings, Ask, Decline, Confirm, QueryRoot, RemoveRoot, SaveRoot, ClearSubs, SaveStories,
       Continue, Stop, Crash, TesterVersion, LoadChains, Spin, SaveCases, At, Busy

LEMMA StartsAlone ==
  ASSUME NEW s \in Sessions, Starts(s), ~upset', LocalTypes
  PROVE  Busy = {} /\ pc' = [pc EXCEPT ![s] = "version"] /\ kb' = kb
         /\ current' = current /\ siblings' = siblings
BY DEF Starts, Generate, Test, Start, Goto

LEMMA StepOneSession ==
  ASSUME TInv, OneSession, [Next]_vars, ~upset'
  PROVE  OneSession'
<1>0. LocalTypes
  BY Types DEF TInv
<1>1. CASE \E x \in Sessions : Starts(x)
  <2>1. PICK x \in Sessions : Starts(x)
    BY <1>1
  <2>2. Busy = {} /\ pc' = [pc EXCEPT ![x] = "version"]
    BY <1>0, <2>1, StartsAlone
  <2>3. \A s \in Sessions : pc'[s] # "idle" => s = x
    BY <1>0, <2>2 DEF Busy, LocalTypes
  <2> QED
    BY <2>3 DEF OneSession, Busy
<1>2. CASE \A x \in Sessions : ~Starts(x)
  <2>1. ASSUME NEW s \in Sessions, pc'[s] # "idle" PROVE s \in Busy
    BY <1>2, <2>1, Locals, BusySteps DEF SameLocals, NoLocals, Busy
  <2> QED
    BY <2>1 DEF OneSession, Busy
<1> QED
  BY <1>1, <1>2

\* A step that writes is one of a session that was busy, and moves it.
LEMMA WritersMove ==
  ASSUME TInv, [Next]_vars, kb' # kb
  PROVE  \E s \in Busy : pc'[s] # pc[s]
<1>0. LocalTypes
  BY Types DEF TInv
<1>1. ASSUME NEW s \in Analysts, RemoveRoot(s) \/ SaveRoot(s) \/ SaveStories(s) PROVE s \in Busy /\ pc'[s] # pc[s]
  BY <1>0, <1>1 DEF RemoveRoot, SaveRoot, SaveStories, At, Goto, Busy, LocalTypes, Sessions
<1>2. ASSUME NEW s \in Analysts, Crash(s) PROVE s \in Busy /\ pc'[s] # pc[s]
  <2>1. s \in Sessions /\ pc[s] \in {"remove", "clear"}
    BY <1>2 DEF Crash, At, Sessions
  <2>2. pc'[s] = "idle"
    BY <1>0, <1>2, <2>1, Forgotten DEF Crash
  <2> QED
    BY <2>1, <2>2 DEF Busy
<1>3. ASSUME NEW s \in Testers, NEW for \in MadeFor(s), SaveCases(s, for) PROVE s \in Busy /\ pc'[s] # pc[s]
  <2>1. s \in Sessions /\ pc[s] = "cases"
    BY <1>3 DEF SaveCases, At, Sessions
  <2>2. pc'[s] = "idle"
    BY <1>0, <1>3, <2>1, Forgotten DEF SaveCases
  <2> QED
    BY <2>1, <2>2 DEF Busy
<1> QED
  BY <1>1, <1>2, <1>3, Writes

\* The tree after a save that leaves its live nodes alone and hangs new ones below them.
LEMMA TreeGrows ==
  ASSUME TreeIsWhole,
         \A k \in PRD : Live(kb, k) => kb'[k] = kb[k],
         \A k \in Keys \ {PrdRoot} :
            Live(kb', k) => kb'[k] = kb[k] \/ kb'[k].parent \in LiveIds(kb, PRD),
         kb'[PrdRoot] # NoRow => kb'[PrdRoot] = kb[PrdRoot] \/ (Live(kb', PrdRoot) /\ kb'[PrdRoot].parent = Top)
  PROVE  TreeIsWhole' /\ LiveIds(kb, PRD) \subseteq LiveIds(kb', PRD)
<1>1. LiveIds(kb, PRD) \subseteq LiveIds(kb', PRD)
  BY DEF LiveIds, Live
<1>2. kb'[PrdRoot] # NoRow => Live(kb', PrdRoot) /\ kb'[PrdRoot].parent = Top
  BY DEF TreeIsWhole, Live
<1>3. \A k \in Keys \ {PrdRoot} : Live(kb', k) => kb'[k].parent \in LiveIds(kb', PRD)
  BY <1>1 DEF TreeIsWhole, Live
<1>4. TreeIsWhole'
  BY <1>2, <1>3 DEF TreeIsWhole, LiveIds, Live
<1> QED
  BY <1>1, <1>4

LEMMA SaveRootGrows ==
  ASSUME TInv, TreeIsWhole, NEW s \in Analysts, ReadIsSo(s), SaveRoot(s)
  PROVE  TreeIsWhole' /\ ReadIsSo(s)'
<1>0. KbOK(kb) /\ LocalTypes /\ s \in Sessions /\ PrdRoot \in PRD /\ PRD \subseteq Keys
  BY Types, RequirementsAssumption DEF TInv, Sessions, PRD
<1>1. kb[PrdRoot] = NoRow
  BY DEF ReadIsSo, SaveRoot, At
<1>2. LiveIds(kb, PRD) \subseteq Ids
  BY <1>0, IdTypes DEF LiveIds, Live, KbOK
<1>3. Below(kb, {Top}) = {}
  BY <1>1, <1>2, TopAssumption DEF Below, Live, TreeIsWhole
<1>4. /\ kb'[PrdRoot] # NoRow /\ kb'[PrdRoot].id = SavedRoot[PrdRoot].id
      /\ kb'[PrdRoot].parent = SavedRoot[PrdRoot].parent
      /\ ~kb'[PrdRoot].deleted
  BY <1>0, <1>1, SavedRootOK, ImportedRows
<1>5. Live(kb', PrdRoot) /\ kb'[PrdRoot].parent = Top
  BY <1>0, <1>4, SavedRootOK DEF Live
<1>6. \A k \in Keys \ {PrdRoot} : kb'[k] = kb[k]
  <2>1. NodesOK(SavedRoot) /\ DOMAIN SavedRoot = {PrdRoot} /\ kb' = Imported(kb, SavedRoot, {Top})
    BY <1>0, SavedRootOK
  <2>2. \A k \in Keys \ (DOMAIN SavedRoot \union Below(kb, {Top})) : kb'[k] = kb[k]
    BY <1>0, <2>1, ImportedRows
  <2> QED
    BY <1>3, <2>1, <2>2
<1>7. TreeIsWhole' /\ LiveIds(kb, PRD) \subseteq LiveIds(kb', PRD)
  <2>1. \A k \in PRD : Live(kb, k) => kb'[k] = kb[k]
    BY <1>0, <1>1, <1>6 DEF Live
  <2> QED
    BY <1>5, <1>6, <2>1, TreeGrows
<1>8. SavedRoot[PrdRoot].id \in LiveIds(kb', PRD)
  BY <1>0, <1>4, <1>5 DEF LiveIds
<1>9. current'[s] = SavedRoot[PrdRoot] /\ siblings'[s] = {SavedRoot[PrdRoot]} /\ pc'[s] = "clear"
  <2>1. /\ current' = [current EXCEPT ![s] = SavedRoot[PrdRoot]]
        /\ siblings' = [siblings EXCEPT ![s] = {SavedRoot[PrdRoot]}]
    BY <1>0, SavedRootOK
  <2>2. pc' = [pc EXCEPT ![s] = "clear"]
    BY DEF SaveRoot, Goto
  <2> QED
    BY <1>0, <2>1, <2>2 DEF LocalTypes
<1>10. ReadIsSo(s)'
  BY <1>8, <1>9 DEF ReadIsSo
<1> QED
  BY <1>7, <1>10

LEMMA SaveStoriesGrows ==
  ASSUME TInv, TreeIsWhole, NEW s \in Analysts, ReadIsSo(s), SaveStories(s), ~upset'
  PROVE  TreeIsWhole' /\ ReadIsSo(s)'
<1>0. /\ KbOK(kb) /\ LocalTypes /\ s \in Sessions /\ PrdRoot \in PRD /\ PRD \subseteq Keys
      /\ PrdRoot \notin Stories
  BY Types, RequirementsAssumption DEF TInv, Sessions, PRD
<1> DEFINE nodes == SavedStories(s)
           levels == {current[s].id}
<1>1. /\ NodesOK(nodes) /\ DOMAIN nodes = list[s] /\ list[s] \subseteq Stories /\ list[s] \subseteq Keys
      /\ kb' = Imported(kb, nodes, levels)
      /\ \A k \in list[s] : nodes[k].parent = current[s].id
  BY <1>0, SavedStoriesOK
<1> HIDE DEF nodes
<1>2. Below(kb, levels) = {}
  BY DEF ReadIsSo, SaveStories, At
<1>3. \A k \in list[s] : ~Live(kb, k)
  BY DEF SaveStories
<1> HIDE DEF levels
<1>4. current[s] # None => current[s].id \in LiveIds(kb, PRD)
  BY DEF ReadIsSo
<1>5. \A k \in Keys \ list[s] : kb'[k] = kb[k]
  BY <1>0, <1>1, <1>2, ImportedRows
<1>6. \A k \in list[s] : kb'[k].parent = current[s].id
  <2>1. \A k \in list[s] : kb'[k].parent = nodes[k].parent
    BY <1>0, <1>1, ImportedRows
  <2> QED
    BY <1>1, <2>1
<1>7. current[s].id \in LiveIds(kb, PRD) \/ current[s] = None
  BY <1>4
<1>8. TreeIsWhole' /\ LiveIds(kb, PRD) \subseteq LiveIds(kb', PRD)
  <2>1. \A k \in PRD : Live(kb, k) => kb'[k] = kb[k]
    BY <1>0, <1>3, <1>5
  <2>2. kb'[PrdRoot] = kb[PrdRoot]
    BY <1>0, <1>1, <1>5
  <2>3. current[s] # None
    BY NoneAssumption DEF SaveStories, At, TInv, WorksBelowANode, Sessions
  <2> QED
    BY <1>5, <1>6, <1>7, <2>1, <2>2, <2>3, TreeGrows
<1>9. current'[s] = current[s] /\ siblings'[s] = siblings[s] /\ pc'[s] = "continue"
  BY <1>0 DEF SaveStories, Goto, LocalTypes
<1>10. ReadIsSo(s)'
  BY <1>8, <1>9 DEF ReadIsSo
<1> QED
  BY <1>8, <1>10

LEMMA SaveCasesKeeps ==
  ASSUME TInv, TreeIsWhole, NEW s \in Testers, ReadIsSo(s), NEW for \in MadeFor(s), SaveCases(s, for)
  PROVE  TreeIsWhole'
<1>0. /\ KbOK(kb) /\ LocalTypes /\ s \in Sessions /\ PrdRoot \in PRD /\ PRD \subseteq Keys
      /\ PRD \intersect Cases = {}
  BY Types, RequirementsAssumption DEF TInv, Sessions, PRD
<1>1. PICK nodes, levels : CasesSaved(s, for, nodes, levels)
  BY <1>0, SavedCasesOK
<1>2. \A i \in levels : i \in LiveIds(kb, PRD) /\ Below(kb, {i}) \intersect PRD = {}
  BY <1>1 DEF CasesSaved, ReadIsSo, SaveCases, At
<1>3. Below(kb, levels) \intersect PRD = {}
  BY <1>2 DEF Below
<1>4. \A k \in PRD : kb'[k] = kb[k]
  BY <1>0, <1>1, <1>3, ImportedRows DEF CasesSaved
<1>5. ASSUME NEW k \in Keys, Live(kb', k), kb'[k] # kb[k] PROVE kb'[k].parent \in LiveIds(kb, PRD)
  <2>1. k \notin Below(kb, levels) \ DOMAIN nodes
    BY <1>0, <1>1, <1>5, ImportedRows DEF CasesSaved, Live
  <2>2. k \in DOMAIN nodes
    BY <1>0, <1>1, <1>5, <2>1, ImportedRows DEF CasesSaved
  <2>3. kb'[k].parent = nodes[k].parent
    BY <1>0, <1>1, <2>2, ImportedRows DEF CasesSaved
  <2> QED
    BY <1>1, <2>2, <2>3 DEF CasesSaved, ReadIsSo, SaveCases, At
<1> QED
  BY <1>0, <1>4, <1>5, TreeGrows

\* Sessions that are idle, and those that are left alone while nothing is written.
LEMMA IdleReads ==
  ASSUME NEW s, pc'[s] = "idle", current'[s] = None, siblings'[s] = {}
  PROVE  ReadIsSo(s)'
BY DEF ReadIsSo

LEMMA SameReads ==
  ASSUME NEW s, kb' = kb, SameLocals(s), ReadIsSo(s)
  PROVE  ReadIsSo(s)'
BY DEF ReadIsSo, SameLocals

\* A step that reads nothing and asks for nothing that was read.
LEMMA NothingRead ==
  ASSUME NEW s, kb' = kb, current'[s] = current[s], siblings'[s] = siblings[s], ReadIsSo(s),
         pc'[s] \notin {"query", "root", "save", "cases"}
  PROVE  ReadIsSo(s)'
BY DEF ReadIsSo

LEMMA AnalystReads ==
  ASSUME TInv, IdleForgets, TreeIsWhole, NEW s \in Analysts, ReadIsSo(s), AnalystStep(s), ~upset',
         pc'[s] # "idle"
  PROVE  TreeIsWhole' /\ ReadIsSo(s)'
<1>0. KbOK(kb) /\ LocalTypes /\ s \in Sessions /\ PrdRoot \in PRD /\ PRD \subseteq Keys
  BY Types, RequirementsAssumption DEF TInv, Sessions, PRD
<1>1. ASSUME kb' = kb PROVE TreeIsWhole'
  BY <1>1 DEF TreeIsWhole, Live
<1>2. ASSUME NEW k \in PRD, Live(kb, k) PROVE Node(k).id \in LiveIds(kb, PRD)
  BY <1>2 DEF Node, LiveIds
<1>3. ~End(s) /\ ~RemoveRoot(s) /\ ~Crash(s)
  <2>1. ~End(s)
    BY <1>0, Forgotten DEF End
  <2> QED
    BY <2>1 DEF RemoveRoot, Crash
<1>4. CASE \/ \E name \in BOOLEAN, k \in PRD \union {NoKey} : Generate(s, name, k)
           \/ AnalystVersion(s) \/ Upgrade(s) \/ FreshRoot(s) \/ Ask(s)
  <2>1. kb' = kb /\ current' = current /\ siblings' = siblings
    BY <1>3, <1>4 DEF Generate, Start, AnalystVersion, Upgrade, FreshRoot, Ask, store, locals
  <2>2. \E l \in {"version", "load", "upgrade", "ask", "confirm"} : pc' = [pc EXCEPT ![s] = l]
    BY <1>3, <1>4 DEF Generate, Start, AnalystVersion, Upgrade, FreshRoot, Ask, Goto
  <2> QED
    BY <1>0, <1>1, <2>1, <2>2, NothingRead DEF LocalTypes
<1>5. CASE FromSiblings(s)
  <2>1. PICK n \in siblings[s] : current' = [current EXCEPT ![s] = n]
    BY <1>5 DEF FromSiblings, Cached
  <2>2. kb' = kb /\ siblings' = siblings /\ pc'[s] = "ask"
    BY <1>0, <1>5 DEF FromSiblings, Goto, store, LocalTypes
  <2> QED
    BY <1>0, <1>1, <2>1, <2>2 DEF ReadIsSo, LocalTypes
<1>6. CASE LoadNode(s)
  <2>1. Has(kb, target[s]) /\ target[s] # NoKey
    BY <1>3, <1>6 DEF LoadNode
  <2>2. current' = [current EXCEPT ![s] = Node(target[s])]
    BY <1>3, <1>6 DEF LoadNode
  <2>3. kb' = kb /\ siblings' = siblings /\ pc'[s] = "siblings"
    BY <1>0, <1>3, <1>6 DEF LoadNode, Goto, store, LocalTypes
  <2>4. target[s] \in PRD /\ Live(kb, target[s])
    BY <1>0, <2>1 DEF LocalTypes, Has
  <2> QED
    BY <1>0, <1>1, <1>2, <2>2, <2>3, <2>4 DEF ReadIsSo, LocalTypes
<1>7. CASE LoadSiblings(s)
  <2> DEFINE ks == Below(kb, {current[s].parent}) \intersect PRD
  <2>1. siblings' = [siblings EXCEPT ![s] = {Node(k) : k \in ks}]
    BY <1>3, <1>7 DEF LoadSiblings
  <2>2. kb' = kb /\ current' = current /\ pc'[s] = "ask"
    BY <1>0, <1>3, <1>7 DEF LoadSiblings, Goto, store, LocalTypes
  <2>3. \A n \in {Node(k) : k \in ks} : n.id \in LiveIds(kb, PRD)
    BY <1>2 DEF Below
  <2>4. siblings'[s] = {Node(k) : k \in ks}
    BY <1>0, <2>1 DEF LocalTypes
  <2> QED
    BY <1>1, <2>2, <2>3, <2>4 DEF ReadIsSo
<1>8. ASSUME NEW ks \in SUBSET Stories \ {{}}, Confirm(s, ks) PROVE TreeIsWhole' /\ ReadIsSo(s)'
  <2>1. /\ kb' = kb /\ current' = current /\ siblings' = siblings
        /\ pc'[s] = IF current[s] = None THEN "query" ELSE "clear"
    BY <1>0, <1>8 DEF Confirm, Goto, store, LocalTypes
  <2> QED
    BY <1>1, <2>1 DEF ReadIsSo
<1>9. CASE QueryRoot(s)
  <2>1. /\ kb' = kb /\ current' = current /\ siblings' = siblings /\ current[s] = None
    BY <1>9 DEF QueryRoot, store, ReadIsSo, At
  <2>2. CASE Roots(kb) \intersect PRD = {}
    <3>1. kb[PrdRoot] = NoRow
      BY <1>0, <2>2 DEF TreeIsWhole, Roots, Below
    <3>2. pc'[s] = "root"
      BY <1>0, <1>9, <2>2 DEF QueryRoot, Goto, LocalTypes
    <3> QED
      BY <1>1, <2>1, <3>1, <3>2 DEF ReadIsSo
  <2>3. CASE Roots(kb) \intersect PRD # {}
    <3>1. pc'[s] = "remove"
      BY <1>0, <1>9, <2>3 DEF QueryRoot, Goto, LocalTypes
    <3> QED
      BY <1>1, <2>1, <3>1, NothingRead
  <2> QED
    BY <2>2, <2>3
<1>10. CASE ClearSubs(s)
  <2>1. /\ kb' = kb /\ current' = current /\ siblings' = siblings /\ pc'[s] = "save"
        /\ Below(kb, {current[s].id}) = {}
    BY <1>0, <1>10 DEF ClearSubs, Goto, store, locals, LocalTypes, EndsProcess
  <2> QED
    BY <1>1, <2>1 DEF ReadIsSo
<1>11. ASSUME NEW k \in PRD, Continue(s, k) PROVE TreeIsWhole' /\ ReadIsSo(s)'
  <2>1. kb' = kb /\ current'[s] = None /\ siblings' = siblings /\ pc'[s] = "load"
    BY <1>0, <1>11 DEF Continue, Goto, store, LocalTypes
  <2> QED
    BY <1>1, <2>1 DEF ReadIsSo
<1>12. CASE SaveRoot(s)
  BY <1>12, SaveRootGrows
<1>13. CASE SaveStories(s)
  BY <1>13, SaveStoriesGrows
<1>14. CASE Decline(s) \/ Stop(s)
  BY <1>3, <1>14 DEF Decline, Stop
<1> QED
  BY <1>3, <1>4, <1>5, <1>6, <1>7, <1>8, <1>9, <1>10, <1>11, <1>12, <1>13, <1>14 DEF AnalystStep

LEMMA TesterReads ==
  ASSUME TInv, NEW s \in Testers, ReadIsSo(s), TesterStep(s), pc'[s] # "idle"
  PROVE  ReadIsSo(s)'
<1>0. LocalTypes /\ s \in Sessions
  BY Types DEF TInv, Sessions
<1>1. ~End(s) /\ ~Spin(s) /\ \A for \in MadeFor(s) : ~SaveCases(s, for)
  BY <1>0, Forgotten DEF End, Spin, SaveCases
<1>2. CASE (\E name \in BOOLEAN : Test(s, name)) \/ TesterVersion(s)
  <2>1. kb' = kb /\ current' = current /\ siblings' = siblings
    BY <1>1, <1>2 DEF Test, Start, TesterVersion, store
  <2>2. pc'[s] \in {"version", "chains"}
    BY <1>0, <1>1, <1>2 DEF Test, Start, TesterVersion, Goto, LocalTypes
  <2> QED
    BY <2>1, <2>2, NothingRead
<1>3. CASE LoadChains(s)
  <2>1. /\ kb' = kb /\ current' = current /\ siblings' = siblings /\ pc'[s] = "cases"
        /\ leaves'[s] = Leaves(kb, PRD)
    BY <1>0, <1>1, <1>3 DEF LoadChains, Goto, store, LocalTypes
  <2>2. \A i \in leaves'[s] : i \in LiveIds(kb, PRD) /\ Below(kb, {i}) \intersect PRD = {}
    BY <2>1 DEF Leaves
  <2> QED
    BY <2>1, <2>2 DEF ReadIsSo
<1> QED
  BY <1>1, <1>2, <1>3 DEF TesterStep

LEMMA StepTree ==
  ASSUME OInv, Calm, [Next]_vars, ~upset'
  PROVE  TreeIsWhole'
<1>0. TInv /\ TreeIsWhole /\ (\A s \in Sessions : ReadIsSo(s)) /\ LocalTypes
  BY Types DEF OInv, Calm, TInv
<1>1. CASE kb' = kb
  BY <1>0, <1>1 DEF TreeIsWhole, Live
<1>2. ASSUME NEW s \in Analysts, SaveRoot(s) \/ SaveStories(s) PROVE TreeIsWhole'
  <2>1. ReadIsSo(s)
    BY <1>0 DEF Sessions
  <2> QED
    BY <1>0, <1>2, <2>1, SaveRootGrows, SaveStoriesGrows
<1>3. ASSUME NEW s \in Testers, NEW for \in MadeFor(s), SaveCases(s, for) PROVE TreeIsWhole'
  <2>1. ReadIsSo(s)
    BY <1>0 DEF Sessions
  <2> QED
    BY <1>0, <1>3, <2>1, SaveCasesKeeps
<1>4. ASSUME NEW s \in Analysts PROVE ~RemoveRoot(s) /\ ~Crash(s)
  BY DEF RemoveRoot, Crash
<1> QED
  BY <1>1, <1>2, <1>3, <1>4, Writes

LEMMA StepReads ==
  ASSUME OInv, Calm, [Next]_vars, ~upset', NEW s \in Sessions
  PROVE  ReadIsSo(s)'
<1>0. TInv /\ IdleForgets /\ TreeIsWhole /\ ReadIsSo(s) /\ OneSession
  BY DEF OInv, Calm
<1>1. CASE pc'[s] = "idle"
  BY <1>0, <1>1, StepIdleForgets, IdleReads DEF IdleForgets
<1>2. CASE pc'[s] # "idle" /\ SameLocals(s)
  <2>1. CASE kb' = kb
    BY <1>0, <1>2, <2>1, SameReads
  <2>2. CASE kb' # kb
    <3>1. PICK o \in Busy : pc'[o] # pc[o]
      BY <1>0, <2>2, WritersMove
    <3>2. s \in Busy
      BY <1>2 DEF SameLocals, Busy
    <3> QED
      BY <1>0, <1>2, <3>1, <3>2 DEF OneSession, SameLocals
  <2> QED
    BY <2>1, <2>2
<1>3. CASE pc'[s] # "idle" /\ s \in Analysts /\ AnalystStep(s)
  BY <1>0, <1>3, AnalystReads
<1>4. CASE pc'[s] # "idle" /\ s \in Testers /\ TesterStep(s)
  BY <1>0, <1>4, TesterReads
<1> QED
  BY <1>0, <1>1, <1>2, <1>3, <1>4, Locals DEF NoLocals

LEMMA StepOInv == OInv /\ [Next]_vars => OInv'
<1> SUFFICES ASSUME OInv, [Next]_vars PROVE OInv'
  OBVIOUS
<1>1. TInv' /\ IdleForgets'
  BY StepTInv, StepIdleForgets DEF OInv
<1>2. ASSUME ~upset' PROVE Calm'
  <2>1. Calm
    BY <1>2, UpsetStays DEF OInv
  <2>2. OneSession'
    BY <1>2, <2>1, StepOneSession DEF OInv, Calm
  <2>3. TreeIsWhole'
    BY <1>2, <2>1, StepTree
  <2>4. \A s \in Sessions : ReadIsSo(s)'
    BY <1>2, <2>1, StepReads
  <2> QED
    BY <2>2, <2>3, <2>4 DEF Calm
<1> QED
  BY <1>1, <1>2 DEF OInv

\* ba-role.seed.ts:232-270, bdd-role.seed.ts:230-237: no live node is left below an id that
\* is gone unless sessions overlapped, a root was removed with its tree, or a story was
\* listed that the tree had already.
THEOREM OrphansHaveReasonHolds == Spec => []OrphansHaveReason
<1>1. OInv => OrphansHaveReason
  <2> SUFFICES ASSUME OInv, ~upset, NEW k \in Orphans(kb) PROVE FALSE
    BY DEF OrphansHaveReason
  <2>1. TreeIsWhole /\ PRD \subseteq Keys
    BY RequirementsAssumption DEF OInv, Calm
  <2>2. Live(kb, k) /\ kb[k].parent # Top /\ kb[k].parent \notin LiveIds(kb, Keys) /\ k \in Keys
    BY DEF Orphans
  <2>3. k # PrdRoot
    BY <2>1, <2>2 DEF TreeIsWhole, Live
  <2>4. kb[k].parent \in LiveIds(kb, PRD)
    BY <2>1, <2>2, <2>3 DEF TreeIsWhole
  <2> QED
    BY <2>1, <2>2, <2>4 DEF LiveIds
<1> QED
  BY <1>1, InitOInv, StepOInv, PTL DEF Spec
=============================================================================

----------------------------- MODULE DesignProofs -----------------------------
(***************************************************************************)
(* Proofs about Design for every set of runs and keys.                     *)
(***************************************************************************)
EXTENDS Design, TLAPS

Node == [id : BoundedIds, parent : BoundedIds \union {Top}]

-----------------------------------------------------------------------------
(* Lemmas about what a designer collects. *)

LEMMA NodeMapsElements ==
  ASSUME NEW f
  PROVE  f \in NodeMaps <=> \E ks \in SUBSET Keys : f \in [ks -> Node]
BY DEF NodeMaps, Node

LEMMA NodeMapDomain ==
  ASSUME NEW f \in NodeMaps
  PROVE  DOMAIN f \subseteq Keys /\ \A k \in DOMAIN f : f[k] \in Node
BY NodeMapsElements

LEMMA WithTyped ==
  ASSUME NEW f \in NodeMaps, NEW k \in Keys, NEW n \in Node
  PROVE  With(f, k, n) \in NodeMaps
<1> DEFINE ks == DOMAIN f \union {k}
<1>1. ks \in SUBSET Keys
  BY NodeMapDomain
<1>2. With(f, k, n) \in [ks -> Node]
  BY NodeMapDomain DEF With
<1> QED
  BY <1>1, <1>2, NodeMapsElements

LEMMA NothingTyped == Nothing \in NodeMaps
<1>1. Nothing \in [{} -> Node]
  BY DEF Nothing
<1> QED
  BY <1>1, NodeMapsElements

LEMMA RootTyped ==
  ASSUME NEW n \in Node
  PROVE  [k \in {DesignRoot} |-> n] \in NodeMaps
<1>1. {DesignRoot} \in SUBSET Keys /\ [k \in {DesignRoot} |-> n] \in [{DesignRoot} -> Node]
  BY DesignAssumption
<1> QED
  BY <1>1, NodeMapsElements

LEMMA ImportedTyped ==
  ASSUME NEW f \in NodeMaps, NEW levels, NEW st \in [Keys -> Rows \union {NoRow}]
  PROVE  Imported(st, f, levels) \in [Keys -> Rows \union {NoRow}]
<1>1. ASSUME NEW k \in Keys PROVE Imported(st, f, levels)[k] \in Rows \union {NoRow}
  <2>1. CASE k \in DOMAIN f
    <3>1. f[k].id \in Ids /\ f[k].parent \in Ids \union {Top}
      BY <2>1, NodeMapDomain, DesignAssumption DEF Node, BoundedIds, Ids
    <3>2. (st[k] # NoRow /\ st[k].deleted) \in BOOLEAN
      BY DEF Rows
    <3> QED
      BY <2>1, <3>1, <3>2 DEF Imported, Rows
  <2>2. CASE k \notin DOMAIN f /\ k \in Below(st, levels)
    BY <2>2 DEF Imported, Below, Live, Rows
  <2>3. CASE k \notin DOMAIN f /\ k \notin Below(st, levels)
    BY <2>3 DEF Imported
  <2> QED
    BY <2>1, <2>2, <2>3
<1> QED
  BY <1>1 DEF Imported

LEMMA DeletedRow ==
  ASSUME NEW row \in Rows
  PROVE  LET gone == [row EXCEPT !.deleted = TRUE] IN
         gone \in Rows /\ gone.id = row.id /\ gone.parent = row.parent /\ gone.deleted
BY DEF Rows

\* A row an import does not list stays as it was or is deleted.
LEMMA ImportedOthers ==
  ASSUME NEW f, NEW levels, NEW st \in [Keys -> Rows \union {NoRow}],
         NEW k \in Keys \ DOMAIN f, Imported(st, f, levels)[k] # NoRow
  PROVE  st[k] # NoRow /\ Imported(st, f, levels)[k].id = st[k].id
<1>1. CASE k \in Below(st, levels)
  <2>1. st[k] \in Rows /\ st[k] # NoRow
    BY <1>1 DEF Below, Live
  <2>2. Imported(st, f, levels)[k] = [st[k] EXCEPT !.deleted = TRUE]
    BY <1>1 DEF Imported
  <2> QED
    BY <2>1, <2>2, DeletedRow
<1>2. CASE k \notin Below(st, levels)
  BY <1>2 DEF Imported
<1> QED
  BY <1>1, <1>2

-----------------------------------------------------------------------------
(* Type correctness. *)

LEMMA ForgetTyped ==
  ASSUME TypeOK, NEW rs, Forget(rs)
  PROVE  /\ pc' \in [Runs -> {"idle", "prd", "version", "upgrade", "reset", "root", "levels",
                              "design", "chains", "own", "ask"}]
         /\ nodes' \in [Designers -> NodeMaps]
         /\ \A d \in Designers, k \in Keys :
              k \in DOMAIN nodes'[d] => nodes'[d][k].id \in {k} \X (1..made[k])
         /\ basis' \in [Architects -> SUBSET BoundedIds]
BY NothingTyped DEF TypeOK, Forget, Nothing

\* What an architect reads are ids of live rows.
LEMMA PagesTyped ==
  ASSUME TypeOK, NEW read \in PagesRead(kb)
  PROVE  read \in SUBSET BoundedIds /\ read \subseteq LiveIds(kb, Keys)
<1>1. read \subseteq LiveIds(kb, Keys)
  BY DEF PagesRead, NearestPages
<1>2. ASSUME NEW k \in Keys, kb[k] # NoRow PROVE kb[k].id \in BoundedIds
  BY <1>2 DEF TypeOK, BoundedIds
<1>3. LiveIds(kb, Keys) \subseteq BoundedIds
  BY <1>2 DEF LiveIds, Live
<1> QED
  BY <1>1, <1>3

LEMMA InitTypeOK == Init => TypeOK
<1> SUFFICES ASSUME Init PROVE TypeOK
  OBVIOUS
<1>1. nodes \in [Designers -> NodeMaps] /\ \A d \in Designers : DOMAIN nodes[d] = {}
  BY NothingTyped DEF Init, Nothing
<1>2. kb \in [Keys -> Rows \union {NoRow}] /\ \A k \in Keys : kb[k] = NoRow
  BY DEF Init, Empty
<1>3. made \in [Keys -> 0..MaxIds]
  BY DesignAssumption DEF Init
<1> QED
  BY <1>1, <1>2, <1>3 DEF Init, TypeOK

LEMMA StepTypeOK == TypeOK /\ [Next]_vars => TypeOK'
<1> SUFFICES ASSUME TypeOK, [Next]_vars PROVE TypeOK'
  OBVIOUS
<1> USE DEF ours, theirs
<1>1. ASSUME NEW d \in Designers,
             Generate(d) \/ ReadPrd(d) \/ CountVersion(d) \/ Upgrade(d)
      PROVE  TypeOK'
  BY <1>1 DEF TypeOK, Runs, StepTo, Goto, Generate, ReadPrd, CountVersion, Upgrade
<1>2. ASSUME NEW d \in Designers, Reset(d) \/ Fail(d) PROVE TypeOK'
  BY <1>2, ForgetTyped DEF TypeOK, Reset, Fail
<1>3. ASSUME NEW d \in Designers, QueryRoot(d) PROVE TypeOK'
  <2> DEFINE root == [id |-> <<DesignRoot, made[DesignRoot] + 1>>, parent |-> Top]
             only == [k \in {DesignRoot} |-> root]
  <2>1. /\ made[DesignRoot] \in 0..MaxIds /\ made[DesignRoot] + 1 \in 1..MaxIds
        /\ made' = [made EXCEPT ![DesignRoot] = @ + 1]
        /\ nodes' = [nodes EXCEPT ![d] = only]
    BY <1>3, DesignAssumption DEF QueryRoot, TypeOK
  <2>2. root \in Node /\ only \in NodeMaps
    <3>1. root \in Node
      BY <2>1, DesignAssumption DEF Node, BoundedIds
    <3> QED
      BY <3>1, RootTyped
  <2>3. made' \in [Keys -> 0..MaxIds]
    BY <2>1, DesignAssumption DEF TypeOK
  <2>4. nodes' \in [Designers -> NodeMaps]
    BY <2>1, <2>2 DEF TypeOK
  <2>5. ASSUME NEW e \in Designers, NEW k \in Keys, k \in DOMAIN nodes'[e]
        PROVE  nodes'[e][k].id \in {k} \X (1..made'[k])
    <3>1. CASE e = d
      BY <2>1, <2>3, <2>5, <3>1, DesignAssumption DEF TypeOK
    <3>2. CASE e # d
      <4>1. nodes[e][k].id \in {k} \X (1..made[k]) /\ nodes'[e] = nodes[e]
        BY <2>1, <2>5, <3>2 DEF TypeOK
      <4>2. made[k] <= made'[k] /\ made[k] \in Nat /\ made'[k] \in Nat
        BY <2>1, DesignAssumption DEF TypeOK
      <4> QED
        BY <4>1, <4>2
    <3> QED
      BY <3>1, <3>2
  <2> QED
    BY <1>3, <2>3, <2>4, <2>5 DEF TypeOK, QueryRoot, StepTo, Goto, Runs
<1>4. ASSUME NEW d \in Designers, NEW k \in Keys, NEW p \in Keys, AddComponent(d, k, p)
      PROVE  TypeOK'
  <2> DEFINE n == [id |-> <<k, made[k] + 1>>, parent |-> nodes[d][p].id]
  <2>1. /\ made[k] \in 0..MaxIds /\ made[k] + 1 \in 1..MaxIds
        /\ made' = [made EXCEPT ![k] = @ + 1]
        /\ nodes' = [nodes EXCEPT ![d] = With(nodes[d], k, n)]
    BY <1>4, DesignAssumption DEF AddComponent, TypeOK
  <2>2. nodes[d] \in NodeMaps /\ p \in DOMAIN nodes[d]
    BY <1>4 DEF AddComponent, TypeOK
  <2>3. n \in Node
    BY <2>1, <2>2, NodeMapDomain DEF Node, BoundedIds
  <2>4. With(nodes[d], k, n) \in NodeMaps
    BY <2>2, <2>3, WithTyped
  <2>5. made' \in [Keys -> 0..MaxIds]
    BY <2>1, DesignAssumption DEF TypeOK
  <2>6. nodes' \in [Designers -> NodeMaps]
    BY <2>1, <2>4 DEF TypeOK
  <2>7. ASSUME NEW e \in Designers, NEW j \in Keys, j \in DOMAIN nodes'[e]
        PROVE  nodes'[e][j].id \in {j} \X (1..made'[j])
    <3>1. made[j] <= made'[j] /\ made[j] \in Nat /\ made'[j] \in Nat
      BY <2>1, DesignAssumption DEF TypeOK
    <3>2. CASE e = d /\ j = k
      <4>1. nodes'[e] = With(nodes[d], k, n)
        BY <2>1, <3>2 DEF TypeOK
      <4>3. nodes'[e][j] = n
        BY <3>2, <4>1 DEF With
      <4>2. made'[j] = made[k] + 1
        BY <2>1, <3>2 DEF TypeOK
      <4> QED
        BY <2>1, <3>2, <4>2, <4>3
    <3>3. CASE ~(e = d /\ j = k)
      <4>1. j \in DOMAIN nodes[e] /\ nodes'[e][j] = nodes[e][j]
        <5>1. CASE e # d
          BY <2>1, <2>7, <5>1 DEF TypeOK
        <5>2. CASE e = d
          <6>1. nodes'[e] = With(nodes[d], k, n)
            BY <2>1, <5>2 DEF TypeOK
          <6>2. j # k /\ j \in DOMAIN nodes[d] \union {k}
            BY <2>7, <3>3, <5>2, <6>1 DEF With
          <6> QED
            BY <5>2, <6>1, <6>2 DEF With
        <5> QED
          BY <5>1, <5>2
      <4>2. nodes[e][j].id \in {j} \X (1..made[j])
        BY <4>1 DEF TypeOK
      <4> QED
        BY <3>1, <4>1, <4>2
    <3> QED
      BY <3>2, <3>3
  <2>8. relisted' \in BOOLEAN
    BY <1>4 DEF AddComponent, TypeOK
  <2> QED
    BY <1>4, <2>5, <2>6, <2>7, <2>8 DEF TypeOK, AddComponent
<1>5. ASSUME NEW d \in Designers, Import(d) PROVE TypeOK'
  <2>1. kb' \in [Keys -> Rows \union {NoRow}]
    BY <1>5, ImportedTyped DEF Import, TypeOK
  <2>2. ASSUME NEW k \in Keys, kb'[k] # NoRow PROVE kb'[k].id \in {k} \X (1..MaxIds)
    <3>1. CASE k \in DOMAIN nodes[d]
      <4>1. nodes[d][k].id \in {k} \X (1..made[k]) /\ made[k] \in 0..MaxIds
        BY <3>1 DEF TypeOK
      <4> QED
        BY <1>5, <3>1, <4>1, DesignAssumption DEF Import, Imported
    <3>2. CASE k \notin DOMAIN nodes[d]
      <4>1. kb[k] # NoRow /\ kb'[k].id = kb[k].id
        BY <1>5, <2>2, <3>2, ImportedOthers DEF Import, TypeOK
      <4> QED
        BY <4>1 DEF TypeOK
    <3> QED
      BY <3>1, <3>2
  <2> QED
    BY <1>5, <2>1, <2>2, ForgetTyped DEF TypeOK, Import
<1>6. ASSUME NEW a \in Architects, ArchitectStep(a) PROVE TypeOK'
  <2>1. CASE Choose(a) \/ CountDesign(a) \/ ReadRequirement(a) \/ OwnVersion(a) \/ UpgradeOwn(a)
    BY <2>1 DEF TypeOK, Runs, StepTo, Goto, Choose, CountDesign, ReadRequirement, OwnVersion,
                UpgradeOwn
  <2>2. CASE ReadPages(a)
    <3>1. PICK read \in PagesRead(kb) : basis' = [basis EXCEPT ![a] = read]
      BY <2>2 DEF ReadPages
    <3>2. basis' \in [Architects -> SUBSET BoundedIds]
      BY <3>1, PagesTyped DEF TypeOK
    <3> QED
      BY <2>2, <3>2 DEF TypeOK, Runs, StepTo, Goto, ReadPages
  <2>3. CASE SaveFramework(a)
    BY <2>3, ForgetTyped DEF TypeOK, SaveFramework
  <2> QED
    BY <1>6, <2>1, <2>2, <2>3 DEF ArchitectStep
<1>7. ASSUME NEW r \in Runs, Fail(r) PROVE TypeOK'
  BY <1>7, ForgetTyped DEF TypeOK, Fail
<1>8. CASE Restart
  BY <1>8, ForgetTyped DEF TypeOK, Restart
<1>9. CASE UNCHANGED vars
  BY <1>9 DEF TypeOK, vars
<1> QED
  BY <1>1, <1>2, <1>3, <1>4, <1>5, <1>6, <1>7, <1>8, <1>9, Zenon DEF Next, DesignerStep

(* ui-designer-role.seed.ts, ui-architect-role.seed.ts: every state has its types. *)
THEOREM TypeCorrect == Spec => []TypeOK
<1> QED
  BY InitTypeOK, StepTypeOK, PTL DEF Spec

-----------------------------------------------------------------------------
(***************************************************************************)
(* The inductive invariant.  Draft: nothing is saved before there is a     *)
(* version, and only a run that has made sure of it goes on to the walk.   *)
(* Walk: what a designer collects is a tree.  While designers do not       *)
(* overlap (Calm), one that walks has found no node, so its import is the  *)
(* first and only one; an architect past its count has seen a design, so   *)
(* nobody will import another while it works.                              *)
(***************************************************************************)
Draft ==
    /\ ~version => kb = Empty
    /\ \A d \in Designers : pc[d] \in {"root", "levels"} => version

Walk(map) ==
    \A k \in DOMAIN map : \/ map[k].parent = Top
                          \/ \E j \in DOMAIN map : map[j].id = map[k].parent

Alone == \A d, e \in Designers : pc[d] # "idle" /\ pc[e] # "idle" => d = e

FirstImport == \A d \in Designers : pc[d] \in {"root", "levels"} => kb = Empty

Undeleted == \A k \in Keys : kb[k] # NoRow => ~kb[k].deleted

Counted(a) ==
    pc[a] \in {"prd", "chains", "own", "upgrade", "ask"} => LiveIds(kb, Keys) # {}

HasRead(a) == pc[a] \in {"own", "upgrade", "ask"} => basis[a] \in PagesRead(kb)

Chosen == framework # None => framework \in PagesRead(kb) /\ LiveIds(kb, Keys) # {}

Calm ==
    /\ Alone /\ FirstImport /\ Undeleted
    /\ ~relisted => Orphans(kb) = {}
    /\ \A a \in Architects : Counted(a) /\ HasRead(a)
    /\ Chosen

IInv ==
    /\ TypeOK /\ Draft
    /\ \A d \in Designers : ~relisted => Walk(nodes[d])
    /\ ~overlap => Calm

LEMMA EmptyStore ==
  ASSUME kb = Empty
  PROVE  LiveIds(kb, Keys) = {} /\ Orphans(kb) = {} /\ \A k \in Keys : ~Live(kb, k)
BY DEF Empty, LiveIds, Orphans, Live

LEMMA NothingLive ==
  ASSUME TypeOK, Undeleted, LiveIds(kb, Keys) = {}
  PROVE  kb = Empty
<1>1. \A k \in Keys : kb[k] = NoRow
  BY DEF Undeleted, LiveIds, Live
<1> QED
  BY <1>1 DEF TypeOK, Empty

LEMMA InitIInv == Init => IInv
<1> SUFFICES ASSUME Init PROVE IInv
  OBVIOUS
<1>1. TypeOK /\ kb = Empty
  BY InitTypeOK DEF Init
<1>2. \A r \in Runs : pc[r] = "idle"
  BY DEF Init
<1>3. \A d \in Designers : Walk(nodes[d])
  BY DEF Init, Nothing, Walk
<1>4. Undeleted
  BY <1>1 DEF Empty, Undeleted
<1>5. Calm
  BY <1>1, <1>2, <1>4, EmptyStore
     DEF Init, Calm, Alone, FirstImport, Counted, HasRead, Chosen, Runs
<1> QED
  BY <1>1, <1>2, <1>3, <1>5 DEF IInv, Draft, Runs

-----------------------------------------------------------------------------
(* Steps. *)

\* What a step that saves nothing and starts no designer leaves as it was.
LEMMA StoreKept ==
  ASSUME IInv, kb' = kb, overlap' = overlap, relisted => relisted',
         \A d \in Designers : pc'[d] # "idle" => pc[d] # "idle"
  PROVE  ~overlap' => /\ Alone' /\ Undeleted'
                      /\ ~relisted' => Orphans(kb)' = {}
BY DEF IInv, Calm, Alone, Undeleted, Orphans, LiveIds, Live

\* A designer's step does not touch what an architect knows, if it saves nothing.
LEMMA ArchitectsKept ==
  ASSUME IInv, kb' = kb, overlap' = overlap, UNCHANGED theirs,
         \A a \in Architects : pc'[a] = pc[a]
  PROVE  ~overlap' => Chosen' /\ \A a \in Architects : Counted(a)' /\ HasRead(a)'
BY DEF IInv, Calm, Counted, HasRead, Chosen, LiveIds, Live, theirs

LEMMA GenerateStep ==
  ASSUME IInv, NEW d \in Designers, Generate(d)
  PROVE  IInv'
<1>1. TypeOK'
  BY StepTypeOK DEF IInv, Next, DesignerStep
<1>2. /\ kb' = kb /\ UNCHANGED <<version, nodes, relisted, framework, basis>>
      /\ pc' = [pc EXCEPT ![d] = "prd"] /\ d \in Runs
      /\ overlap' = (overlap \/ Working # {})
      /\ pc \in [Runs -> {"idle", "prd", "version", "upgrade", "reset", "root", "levels",
                          "design", "chains", "own", "ask"}]
  BY DEF Generate, StepTo, Goto, theirs, Runs, IInv, TypeOK
<1>3. Draft'
  BY <1>2 DEF IInv, Draft, Runs
<1>4. \A e \in Designers : ~relisted' => Walk(nodes'[e])
  BY <1>2 DEF IInv
<1>5. ASSUME ~overlap' PROVE Calm'
  <2>1. ~overlap /\ Calm /\ \A e \in Designers : pc[e] = "idle"
    BY <1>2, <1>5 DEF IInv, Working, TypeOK
  <2>2. Alone' /\ FirstImport'
    BY <1>2, <2>1 DEF Alone, FirstImport, Runs
  <2>3. Undeleted' /\ (~relisted' => Orphans(kb)' = {}) /\ Chosen'
    BY <1>2, <2>1 DEF Calm, Undeleted, Orphans, Live, LiveIds, Chosen
  <2>4. ASSUME NEW a \in Architects PROVE Counted(a)' /\ HasRead(a)'
    <3>1. pc'[a] = pc[a] /\ LiveIds(kb, Keys)' = LiveIds(kb, Keys) /\ basis' = basis
      BY <1>2, DesignAssumption DEF Runs, LiveIds, Live
    <3> QED
      BY <1>2, <2>1, <3>1 DEF Calm, Counted, HasRead
  <2> QED
    BY <2>2, <2>3, <2>4 DEF Calm
<1> QED
  BY <1>1, <1>3, <1>4, <1>5 DEF IInv

\* Steps of a walk: they save nothing, and enter the walk only with an empty store.
LEMMA WalkStep ==
  ASSUME IInv, NEW d \in Designers,
         \/ ReadPrd(d) \/ CountVersion(d) \/ Upgrade(d) \/ QueryRoot(d)
         \/ \E k, p \in Keys : AddComponent(d, k, p)
  PROVE  IInv'
<1>1. TypeOK'
  BY StepTypeOK DEF IInv, Next, DesignerStep
<1>2. /\ kb' = kb /\ overlap' = overlap /\ UNCHANGED theirs
      /\ relisted => relisted'
      /\ version => version'
      /\ \A r \in Runs \ {d} : pc'[r] = pc[r]
      /\ pc[d] # "idle"
  BY DEF ReadPrd, CountVersion, Upgrade, QueryRoot, AddComponent, StepTo, Goto, ours, theirs,
         IInv, TypeOK
<1>3. pc'[d] \in {"root", "levels"} => version' /\ (overlap \/ kb = Empty)
  <2>1. CASE ReadPrd(d)
    BY <2>1 DEF ReadPrd, StepTo, Goto, IInv, TypeOK, Runs
  <2>2. CASE CountVersion(d)
    BY <2>2, NothingLive DEF CountVersion, StepTo, Goto, IInv, Calm, TypeOK, Runs, ours
  <2>3. CASE Upgrade(d)
    BY <2>3 DEF Upgrade, IInv, Draft
  <2>4. CASE QueryRoot(d)
    BY <2>4 DEF QueryRoot, StepTo, IInv, Draft, Calm, FirstImport
  <2>5. CASE \E k, p \in Keys : AddComponent(d, k, p)
    BY <2>5 DEF AddComponent, IInv, Draft, Calm, FirstImport
  <2> QED
    BY <2>1, <2>2, <2>3, <2>4, <2>5
<1>4. Draft'
  <2>1. ~version' => kb' = Empty
    BY <1>2 DEF IInv, Draft
  <2>2. ASSUME NEW e \in Designers, pc'[e] \in {"root", "levels"} PROVE version'
    BY <1>2, <1>3, <2>2 DEF IInv, Draft, Runs
  <2> QED
    BY <2>1, <2>2 DEF Draft
<1>5. ASSUME NEW e \in Designers, ~relisted' PROVE Walk(nodes'[e])
  <2>1. ~relisted /\ Walk(nodes[e])
    BY <1>2, <1>5 DEF IInv
  <2>2. CASE ReadPrd(d) \/ CountVersion(d) \/ Upgrade(d)
    BY <2>1, <2>2 DEF ReadPrd, CountVersion, Upgrade, ours
  <2>3. CASE QueryRoot(d)
    <3>1. \/ nodes'[e] = nodes[e]
          \/ /\ DOMAIN nodes'[e] = {DesignRoot}
             /\ nodes'[e][DesignRoot].parent = Top
      BY <2>3 DEF QueryRoot, IInv, TypeOK
    <3> QED
      BY <2>1, <3>1 DEF Walk
  <2>4. ASSUME NEW k \in Keys, NEW p \in Keys, AddComponent(d, k, p) PROVE Walk(nodes'[e])
    <3> DEFINE n == [id |-> <<k, made[k] + 1>>, parent |-> nodes[d][p].id]
    <3>1. nodes' = [nodes EXCEPT ![d] = With(nodes[d], k, n)] /\ p \in DOMAIN nodes[d]
      BY <2>4 DEF AddComponent
    <3>2. CASE e # d
      BY <2>1, <3>1, <3>2 DEF IInv, TypeOK
    <3>3. CASE e = d
      <4>1. k \notin DOMAIN nodes[d]
        BY <1>5, <2>4 DEF AddComponent
      <4>2. nodes'[d] = With(nodes[d], k, n)
        BY <3>1 DEF IInv, TypeOK
      <4>3. /\ DOMAIN nodes'[d] = DOMAIN nodes[d] \union {k}
            /\ nodes'[d][k].parent = nodes[d][p].id
            /\ \A j \in DOMAIN nodes[d] : nodes'[d][j] = nodes[d][j]
        BY <4>1, <4>2 DEF With
      <4> QED
        BY <2>1, <3>1, <3>3, <4>3 DEF Walk
    <3> QED
      BY <3>2, <3>3
  <2> QED
    BY <2>2, <2>3, <2>4
<1>6. ASSUME ~overlap' PROVE Calm'
  <2>1. FirstImport'
    BY <1>2, <1>3, <1>6 DEF FirstImport, IInv, Calm, Runs
  <2>2. Alone' /\ Undeleted' /\ (~relisted' => Orphans(kb)' = {})
    BY <1>2, <1>6, StoreKept DEF Runs
  <2>3. Chosen' /\ \A a \in Architects : Counted(a)' /\ HasRead(a)'
    BY <1>2, <1>6, ArchitectsKept, DesignAssumption DEF Runs
  <2> QED
    BY <2>1, <2>2, <2>3 DEF Calm
<1> QED
  BY <1>1, <1>4, <1>5, <1>6 DEF IInv

\* What a run forgets is no longer part of the invariant.
LEMMA ForgetKeeps ==
  ASSUME IInv, NEW rs, Forget(rs)
  PROVE  /\ \A r \in Runs : pc'[r] # "idle" => pc'[r] = pc[r]
         /\ \A d \in Designers : ~relisted => Walk(nodes'[d])
         /\ \A a \in Architects : pc'[a] # "idle" => basis'[a] = basis[a]
<1>1. Walk(Nothing)
  BY DEF Walk, Nothing
<1>2. ASSUME NEW d \in Designers, ~relisted PROVE Walk(nodes'[d])
  <2>1. nodes'[d] = Nothing \/ nodes'[d] = nodes[d]
    BY DEF Forget
  <2> QED
    BY <1>1, <1>2, <2>1 DEF IInv
<1> QED
  BY <1>2 DEF Forget, Runs

\* A run that fails, or a restart: nothing is saved, and no run goes on anywhere else.
LEMMA ForgetStep ==
  ASSUME IInv, TypeOK', NEW rs, Forget(rs),
         UNCHANGED <<version, kb, framework, overlap, relisted>>
  PROVE  IInv'
<1>1. Draft'
  BY ForgetKeeps DEF IInv, Draft, Runs
<1>2. ASSUME ~overlap' PROVE Calm'
  <2>1. Calm /\ kb' = kb /\ LiveIds(kb, Keys)' = LiveIds(kb, Keys)
    BY <1>2 DEF IInv
  <2>2. Alone' /\ FirstImport'
    BY <2>1, ForgetKeeps DEF Calm, Alone, FirstImport, Runs
  <2>3. Undeleted' /\ (~relisted' => Orphans(kb)' = {}) /\ Chosen'
    BY <2>1 DEF Calm, Undeleted, Orphans, Live, LiveIds, Chosen
  <2>4. ASSUME NEW a \in Architects PROVE Counted(a)' /\ HasRead(a)'
    <3>1. pc'[a] # "idle" => pc'[a] = pc[a] /\ basis'[a] = basis[a]
      BY ForgetKeeps DEF Runs
    <3>2. Counted(a) /\ HasRead(a)
      BY <2>1 DEF Calm
    <3> QED
      BY <2>1, <3>1, <3>2 DEF Counted, HasRead
  <2> QED
    BY <2>2, <2>3, <2>4 DEF Calm
<1> QED
  BY <1>1, <1>2, ForgetKeeps DEF IInv

\* The first import: the rows are the nodes of the walk.
LEMMA FirstRows ==
  ASSUME NEW f \in NodeMaps, NEW levels
  PROVE  /\ \A k \in DOMAIN f : /\ Imported(Empty, f, levels)[k] \in Rows
                                /\ Imported(Empty, f, levels)[k].id = f[k].id
                                /\ Imported(Empty, f, levels)[k].parent = f[k].parent
                                /\ ~Imported(Empty, f, levels)[k].deleted
         /\ \A k \in Keys \ DOMAIN f : Imported(Empty, f, levels)[k] = NoRow
<1>1. \A k \in Keys : Empty[k] = NoRow /\ k \notin Below(Empty, levels)
  BY DEF Empty, Below, Live
<1>2. ASSUME NEW k \in DOMAIN f
      PROVE  /\ Imported(Empty, f, levels)[k]
                  = [id |-> f[k].id, parent |-> f[k].parent, deleted |-> FALSE]
             /\ f[k].id \in Ids /\ f[k].parent \in Ids \union {Top}
  <2>1. k \in Keys /\ f[k] \in Node
    BY NodeMapDomain
  <2>2. f[k].id \in Ids /\ f[k].parent \in Ids \union {Top}
    BY <2>1, DesignAssumption DEF Node, BoundedIds, Ids
  <2>3. (Empty[k] # NoRow /\ Empty[k].deleted) = FALSE
    BY <1>1, <2>1
  <2> QED
    BY <2>1, <2>2, <2>3 DEF Imported
<1>3. ASSUME NEW k \in Keys \ DOMAIN f PROVE Imported(Empty, f, levels)[k] = NoRow
  BY <1>1 DEF Imported
<1>4. ASSUME NEW k \in DOMAIN f
      PROVE  /\ Imported(Empty, f, levels)[k] \in Rows
             /\ Imported(Empty, f, levels)[k].id = f[k].id
             /\ Imported(Empty, f, levels)[k].parent = f[k].parent
             /\ ~Imported(Empty, f, levels)[k].deleted
  <2> DEFINE row == [id |-> f[k].id, parent |-> f[k].parent, deleted |-> FALSE]
  <2>1. row \in Rows /\ row.id = f[k].id /\ row.parent = f[k].parent /\ ~row.deleted
    BY <1>2 DEF Rows
  <2>2. Imported(Empty, f, levels)[k] = row
    BY <1>2
  <2> HIDE DEF row
  <2> QED
    BY <2>1, <2>2
<1> QED
  BY <1>3, <1>4

LEMMA ImportStep ==
  ASSUME IInv, NEW d \in Designers, Import(d)
  PROVE  IInv'
<1> DEFINE f == nodes[d]
           levels == {f[k].parent : k \in DOMAIN f}
<1>1. TypeOK'
  BY StepTypeOK DEF IInv, Next, DesignerStep
<1>2. /\ UNCHANGED <<version, overlap, relisted, framework>>
      /\ kb' = Imported(kb, f, levels) /\ Forget({d}) /\ pc[d] = "levels" /\ version
      /\ f \in NodeMaps
  BY DEF Import, IInv, Draft, TypeOK
<1>3. pc'[d] = "idle"
  BY <1>2 DEF Forget, Runs
<1>4. Draft'
  BY <1>2 DEF Draft
<1>5. ASSUME ~overlap' PROVE Calm'
  <2>1. Calm /\ kb = Empty /\ LiveIds(kb, Keys) = {}
    BY <1>2, <1>5, EmptyStore DEF IInv, Calm, FirstImport
  <2>2. \A e \in Designers : pc'[e] = "idle"
    BY <1>2, <1>3, <2>1, ForgetKeeps DEF Calm, Alone, Runs
  <2>3. Alone' /\ FirstImport'
    BY <2>2 DEF Alone, FirstImport
  <2>4. Undeleted'
    BY <1>2, <2>1, FirstRows DEF Undeleted
  <2>5. ASSUME ~relisted' PROVE Orphans(kb)' = {}
    <3> SUFFICES ASSUME NEW k \in Keys, Live(kb', k), kb'[k].parent # Top
                 PROVE  kb'[k].parent \in LiveIds(kb', Keys)
      BY DEF Orphans
    <3>1. k \in DOMAIN f /\ kb'[k].parent = f[k].parent
      BY <1>2, <2>1, FirstRows DEF Live
    <3>2. PICK j \in DOMAIN f : f[j].id = f[k].parent
      BY <1>2, <2>5, <3>1 DEF IInv, Walk
    <3>3. j \in Keys /\ Live(kb', j) /\ kb'[j].id = f[k].parent
      BY <1>2, <2>1, <3>2, FirstRows, NodeMapDomain, NoRowAssumption DEF Live
    <3> QED
      BY <3>1, <3>3 DEF LiveIds
  <2>6. Chosen'
    BY <1>2, <2>1 DEF Calm, Chosen
  <2>7. ASSUME NEW a \in Architects PROVE Counted(a)' /\ HasRead(a)'
    <3>1. pc[a] \notin {"prd", "chains", "own", "upgrade", "ask"}
      BY <2>1 DEF Calm, Counted
    <3>2. pc'[a] \notin {"prd", "chains", "own", "upgrade", "ask"}
      BY <1>2, <3>1, ForgetKeeps DEF Runs
    <3> QED
      BY <3>2 DEF Counted, HasRead
  <2> QED
    BY <2>3, <2>4, <2>5, <2>6, <2>7 DEF Calm
<1> QED
  BY <1>1, <1>2, <1>4, <1>5, ForgetKeeps DEF IInv

\* An architect's step before it saves: it counts a design, and what it reads stays.
LEMMA ReadStep ==
  ASSUME IInv, NEW a \in Architects,
         \/ Choose(a) \/ CountDesign(a) \/ ReadRequirement(a)
         \/ ReadPages(a) \/ OwnVersion(a) \/ UpgradeOwn(a)
  PROVE  IInv'
<1>1. TypeOK'
  BY StepTypeOK DEF IInv, Next, ArchitectStep
<1>2. /\ UNCHANGED <<version, kb, nodes, overlap, relisted, framework>>
      /\ \A r \in Runs \ {a} : pc'[r] = pc[r]
      /\ \A b \in Architects \ {a} : basis'[b] = basis[b]
      /\ \A d \in Designers : d \in Runs \ {a}
      /\ LiveIds(kb, Keys)' = LiveIds(kb, Keys)
  BY DesignAssumption DEF Choose, CountDesign, ReadRequirement, ReadPages, OwnVersion,
         UpgradeOwn, StepTo, Goto, ours, theirs, IInv, TypeOK, Runs
<1>3. Draft'
  BY <1>2 DEF IInv, Draft
<1>4. ASSUME ~overlap' PROVE Calm'
  <2>1. Calm
    BY <1>2, <1>4 DEF IInv
  <2>2. Alone' /\ FirstImport' /\ Undeleted'
    BY <1>2, <2>1 DEF Calm, Alone, FirstImport, Undeleted
  <2>3. (~relisted' => Orphans(kb)' = {}) /\ Chosen'
    BY <1>2, <2>1 DEF Calm, Orphans, Live, LiveIds, Chosen
  <2>4. ASSUME NEW b \in Architects \ {a} PROVE Counted(b)' /\ HasRead(b)'
    BY <1>2, <2>1 DEF Calm, Counted, HasRead, Runs
  <2>5. Counted(a)' /\ HasRead(a)'
    <3>1. Counted(a) /\ HasRead(a)
      BY <2>1 DEF Calm
    <3>2. CASE Choose(a)
      BY <3>2 DEF Choose, StepTo, Goto, Counted, HasRead, IInv, TypeOK, Runs
    <3>3. CASE CountDesign(a)
      BY <1>2, <3>3 DEF CountDesign, StepTo, Goto, Counted, HasRead, IInv, TypeOK, Runs
    <3>4. CASE ReadRequirement(a)
      BY <1>2, <3>1, <3>4 DEF ReadRequirement, StepTo, Goto, Counted, HasRead, IInv, TypeOK, Runs
    <3>5. CASE ReadPages(a)
      BY <1>2, <3>1, <3>5 DEF ReadPages, StepTo, Goto, Counted, HasRead, IInv, TypeOK, Runs
    <3>6. CASE OwnVersion(a)
      BY <1>2, <3>1, <3>6 DEF OwnVersion, StepTo, Goto, Counted, HasRead, IInv, TypeOK, Runs,
                              theirs
    <3>7. CASE UpgradeOwn(a)
      BY <1>2, <3>1, <3>7 DEF UpgradeOwn, StepTo, Goto, Counted, HasRead, IInv, TypeOK, Runs
    <3> QED
      BY <3>2, <3>3, <3>4, <3>5, <3>6, <3>7
  <2> QED
    BY <2>2, <2>3, <2>4, <2>5 DEF Calm
<1> QED
  BY <1>1, <1>2, <1>3, <1>4 DEF IInv

\* The answer of the model is saved for the components that were read.
LEMMA SaveStep ==
  ASSUME IInv, NEW a \in Architects, SaveFramework(a)
  PROVE  IInv'
<1>1. TypeOK'
  BY StepTypeOK DEF IInv, Next, ArchitectStep
<1>2. /\ UNCHANGED <<version, kb, overlap, relisted>>
      /\ Forget({a}) /\ pc[a] = "ask" /\ framework' = basis[a]
  BY DEF SaveFramework
<1>3. Draft'
  BY <1>2, ForgetKeeps DEF IInv, Draft, Runs
<1>4. ASSUME ~overlap' PROVE Calm'
  <2>1. Calm /\ LiveIds(kb, Keys)' = LiveIds(kb, Keys)
    BY <1>2, <1>4 DEF IInv
  <2>2. Chosen'
    BY <1>2, <2>1 DEF Calm, Counted, HasRead, Chosen
  <2>3. Alone' /\ FirstImport'
    BY <1>2, <2>1, ForgetKeeps DEF Calm, Alone, FirstImport, Runs
  <2>4. Undeleted' /\ (~relisted' => Orphans(kb)' = {})
    BY <1>2, <2>1 DEF Calm, Undeleted, Orphans, Live, LiveIds
  <2>5. ASSUME NEW b \in Architects PROVE Counted(b)' /\ HasRead(b)'
    <3>1. pc'[b] # "idle" => pc'[b] = pc[b] /\ basis'[b] = basis[b]
      BY <1>2, ForgetKeeps DEF Runs
    <3>2. Counted(b) /\ HasRead(b)
      BY <2>1 DEF Calm
    <3> QED
      BY <1>2, <2>1, <3>1, <3>2 DEF Counted, HasRead
  <2> QED
    BY <2>2, <2>3, <2>4, <2>5 DEF Calm
<1> QED
  BY <1>1, <1>2, <1>3, <1>4, ForgetKeeps DEF IInv

LEMMA StepIInv == IInv /\ [Next]_vars => IInv'
<1> SUFFICES ASSUME IInv, [Next]_vars PROVE IInv'
  OBVIOUS
<1>1. TypeOK'
  BY StepTypeOK DEF IInv
<1>2. ASSUME NEW d \in Designers, DesignerStep(d) PROVE IInv'
  <2>1. CASE Reset(d)
    BY <1>1, <2>1, ForgetStep DEF Reset, Fail
  <2> QED
    BY <1>2, <2>1, GenerateStep, WalkStep, ImportStep DEF DesignerStep
<1>3. ASSUME NEW a \in Architects, ArchitectStep(a) PROVE IInv'
  BY <1>3, ReadStep, SaveStep DEF ArchitectStep
<1>4. ASSUME NEW r \in Runs, Fail(r) PROVE IInv'
  BY <1>1, <1>4, ForgetStep DEF Fail
<1>5. CASE Restart
  BY <1>1, <1>5, ForgetStep DEF Restart
<1>6. CASE UNCHANGED vars
  <2>1. UNCHANGED <<version, kb, framework, pc, nodes, basis, overlap, relisted>>
    BY <1>6 DEF vars
  <2>2. Draft' /\ Calm' = Calm
    BY <2>1 DEF IInv, Draft, Calm, Alone, FirstImport, Undeleted, Counted, HasRead, Chosen
  <2> QED
    BY <1>1, <2>1, <2>2 DEF IInv
<1> QED
  BY <1>2, <1>3, <1>4, <1>5, <1>6 DEF Next

(* The inductive invariant holds in every reachable state of generate and     *)
(* choose-framework (ui-designer-role.seed.ts:94, ui-architect-role.seed.ts:79). *)
THEOREM Invariance == Spec => []IInv
<1> QED
  BY InitIInv, StepIInv, PTL DEF Spec

-----------------------------------------------------------------------------
(* What follows. *)

(* ui-designer-role.seed.ts:214-253: the saved components are a tree from the root, unless *)
(* designers overlapped or a component was answered twice.                                 *)
THEOREM DesignIsWholeHolds == Spec => []DesignIsWhole
<1>1. IInv => DesignIsWhole
  BY DEF IInv, Calm, DesignIsWhole
<1> QED
  BY <1>1, Invariance, PTL

(* ui-architect-role.seed.ts:109-133: the framework was chosen for pages the design still *)
(* has, next to the ends of its chains, all of them or as many as a model is shown.       *)
THEOREM FrameworkOfItsPagesHolds == Spec => []FrameworkOfItsPages
<1>1. IInv => FrameworkOfItsPages
  BY DEF IInv, Calm, Chosen, FrameworkOfItsPages
<1> QED
  BY <1>1, Invariance, PTL
=============================================================================

------------------------------- MODULE Design --------------------------------
(***************************************************************************)
(* The UI designer's `generate` (src/prisma/appdiy/ui-designer-role.seed   *)
(* .ts) and the UI architect's `choose-framework` (ui-architect-role.seed  *)
(* .ts), each with the knowledge base of its own KBK member.               *)
(*                                                                         *)
(* A design is collected in memory while the designer walks down the       *)
(* stories and asks a model about every level, and imported at once at the *)
(* end; the architect reads the design and much later saves one node made  *)
(* from it.  The requirements they read are environment: any story, any    *)
(* number of levels, any components a model answers.  A step that fails    *)
(* ends the script with nothing saved.                                     *)
(***************************************************************************)
EXTENDS KnowledgeBase

CONSTANTS
    Designers, Architects,  \* runs of generate and of choose-framework
    DesignRoot,             \* 'ui-design-root'
    None,
    PageIds,                \* ids of components with level system, module or page: every
                            \* answer of a model gets a new id, and may choose the level
    MaxPages,               \* how many pages an architect shows a model: ten
    MaxIds                  \* bound on the ids made for a key

Runs == Designers \union Architects

ASSUME DesignAssumption ==
    /\ DesignRoot \in Keys
    /\ None \notin Keys
    /\ Designers \intersect Architects = {}
    /\ PageIds \subseteq (Keys \ {DesignRoot}) \X Nat
    /\ MaxPages \in Nat /\ MaxIds \in Nat

VARIABLES
    version,        \* whether the designer's keeper has the version of the requirements
    kb,             \* the designer's nodes
    ownVersion,     \* whether the architect's keeper has it
    framework,      \* the node 'ui-framework': the components it was chosen for, or None
    made,           \* ids made for a key: a uuid never comes twice
    pc,             \* a run: what it does next
    nodes,          \* a designer's resultNodesMap
    basis,          \* the pages an architect has taken from the chains
    overlap,        \* history: whether two designers were at work at a time
    relisted        \* history: whether a design has a component that was answered twice

vars == <<version, kb, ownVersion, framework, made, pc, nodes, basis, overlap, relisted>>
ours == <<version, kb, made, nodes, overlap, relisted>>     \* the designers'
theirs == <<ownVersion, framework, basis>>                  \* the architects'

BoundedIds == Keys \X (1..MaxIds)
NodeMaps == UNION {[ks -> [id : BoundedIds, parent : BoundedIds \union {Top}]] :
                    ks \in SUBSET Keys}

\* No nodes yet.
Nothing == [k \in {} |-> None]

TypeOK ==
    /\ version \in BOOLEAN /\ ownVersion \in BOOLEAN
    /\ kb \in [Keys -> Rows \union {NoRow}]
    /\ \A k \in Keys : kb[k] # NoRow => kb[k].id \in {k} \X (1..MaxIds)
    /\ framework \in (SUBSET BoundedIds) \union {None}
    /\ made \in [Keys -> 0..MaxIds]
    /\ pc \in [Runs -> {"idle", "prd", "version", "upgrade", "reset", "root", "levels",
                        "design", "chains", "own", "ask"}]
    /\ nodes \in [Designers -> NodeMaps]
    /\ \A d \in Designers, k \in Keys :
         k \in DOMAIN nodes[d] => nodes[d][k].id \in {k} \X (1..made[k])
    /\ basis \in [Architects -> SUBSET BoundedIds]
    /\ overlap \in BOOLEAN /\ relisted \in BOOLEAN

Init ==
    /\ version = FALSE /\ ownVersion = FALSE
    /\ kb = Empty
    /\ framework = None
    /\ made = [k \in Keys |-> 0]
    /\ pc = [r \in Runs |-> "idle"]
    /\ nodes = [d \in Designers |-> Nothing]
    /\ basis = [a \in Architects |-> {}]
    /\ overlap = FALSE /\ relisted = FALSE

Goto(r, l) == pc' = [pc EXCEPT ![r] = l]
StepTo(r, from, l) == pc[r] = from /\ Goto(r, l)

\* What a run has in memory goes with it.
Forget(rs) ==
    /\ pc' = [r \in Runs |-> IF r \in rs THEN "idle" ELSE pc[r]]
    /\ nodes' = [d \in Designers |-> IF d \in rs THEN Nothing ELSE nodes[d]]
    /\ basis' = [a \in Architects |-> IF a \in rs THEN {} ELSE basis[a]]

\* The script answers with an error, 404 or 409 among them: nothing it made is saved.
Fail(r) ==
    /\ pc[r] # "idle"
    /\ Forget({r})
    /\ UNCHANGED <<version, kb, ownVersion, framework, made, overlap, relisted>>

-----------------------------------------------------------------------------
(* generate. *)

Working == {d \in Designers : pc[d] # "idle"}

Generate(d) ==
    /\ StepTo(d, "idle", "prd")
    /\ overlap' = (overlap \/ Working # {})
    /\ UNCHANGED <<version, kb, made, nodes, relisted, theirs>>

\* version-count of the BA's keeper; 404 if there is no story.
ReadPrd(d) ==
    /\ d \in Designers
    /\ StepTo(d, "prd", "version")
    /\ UNCHANGED <<ours, theirs>>

\* Faulty variant: the nodes of the version are not counted.
CountUncounted(d) ==
    /\ StepTo(d, "version", IF ~version THEN "upgrade" ELSE "root")
    /\ UNCHANGED <<ours, theirs>>

\* version-count of its own keeper, in domain UI.  The version is never published.
CountVersion(d) ==
    /\ StepTo(d, "version", IF ~version THEN "upgrade"
                            ELSE IF LiveIds(kb, Keys) # {} THEN "reset" ELSE "root")
    /\ UNCHANGED <<ours, theirs>>

\* @@unique([actorId, key]): fails when another run was faster.
Upgrade(d) ==
    /\ ~version
    /\ StepTo(d, "upgrade", "root")
    /\ version' = TRUE
    /\ UNCHANGED <<kb, made, nodes, overlap, relisted, theirs>>

\* version-reset: a DELETE with a join, which PostgreSQL refuses.
Reset(d) == pc[d] = "reset" /\ Fail(d)

\* The first root story, whose walk starts with a design root of its own.
QueryRoot(d) ==
    LET id == <<DesignRoot, made[DesignRoot] + 1>> IN
    /\ id[2] <= MaxIds
    /\ StepTo(d, "root", "levels")
    /\ made' = [made EXCEPT ![DesignRoot] = @ + 1]
    /\ nodes' = [nodes EXCEPT ![d] = [k \in {DesignRoot} |-> [id |-> id, parent |-> Top]]]
    /\ UNCHANGED <<version, kb, overlap, relisted, theirs>>

With(map, k, node) == [j \in DOMAIN map \union {k} |-> IF j = k THEN node ELSE map[j]]

\* Faulty variant: a component whose parent nobody knows is kept.
AddComponentAnyway(d, k, p) ==
    /\ pc[d] = "levels"
    /\ made[k] < MaxIds
    /\ made' = [made EXCEPT ![k] = @ + 1]
    /\ nodes' = [nodes EXCEPT ![d] = With(@, k,
                    [id |-> <<k, made[k] + 1>>,
                     parent |-> IF p \in DOMAIN @ THEN @[p].id ELSE None])]
    /\ relisted' = (relisted \/ k \in DOMAIN nodes[d])
    /\ UNCHANGED <<version, kb, overlap, pc, theirs>>

\* One component a model answers for some level, below one known by its key.  An unknown
\* one drops what the answer has after it and the levels below, which adds nothing.
AddComponent(d, k, p) ==
    /\ pc[d] = "levels"
    /\ made[k] < MaxIds
    /\ p \in DOMAIN nodes[d]
    /\ made' = [made EXCEPT ![k] = @ + 1]
    /\ nodes' = [nodes EXCEPT ![d] = With(@, k,
                    [id |-> <<k, made[k] + 1>>, parent |-> @[p].id])]
    /\ relisted' = (relisted \/ k \in DOMAIN nodes[d])
    /\ UNCHANGED <<version, kb, overlap, pc, theirs>>

\* The whole walk is imported.
Import(d) ==
    /\ pc[d] = "levels"
    /\ kb' = Imported(kb, nodes[d], {nodes[d][k].parent : k \in DOMAIN nodes[d]})
    /\ Forget({d})
    /\ UNCHANGED <<version, made, overlap, relisted, ownVersion, framework>>

-----------------------------------------------------------------------------
(* choose-framework. *)

Choose(a) ==
    /\ a \in Architects
    /\ StepTo(a, "idle", "design")
    /\ UNCHANGED <<ours, theirs>>

\* Faulty variant: a version is enough, with nodes or without.
CountDesignEmpty(a) ==
    /\ version
    /\ StepTo(a, "design", "prd")
    /\ UNCHANGED <<ours, theirs>>

\* 404 (Fail) without a version or without nodes.
CountDesign(a) ==
    /\ version /\ LiveIds(kb, Keys) # {}
    /\ StepTo(a, "design", "prd")
    /\ UNCHANGED <<ours, theirs>>

\* The requirements of the same version, and their root.
ReadRequirement(a) ==
    /\ a \in Architects
    /\ StepTo(a, "prd", "chains")
    /\ UNCHANGED <<ours, theirs>>

\* Where the chains are after n nodes from their ends, each as far as its first page.
Reached(store) ==
    LET at[n \in 0..Cardinality(Keys)] ==
            IF n = 0 THEN Leaves(store, Keys)
            ELSE {store[k].parent :
                    k \in {j \in Keys : Live(store, j) /\ store[j].id \in at[n - 1] \ PageIds}}
    IN  UNION {at[n] : n \in 0..Cardinality(Keys)}

\* On every chain the page next to its end; what is above it is shown to nobody.
NearestPages(store) == Reached(store) \intersect PageIds \intersect LiveIds(store, Keys)

\* All of them, or MaxPages: which are first depends on the order of the keys, left open.
PagesRead(store) ==
    LET nearest == NearestPages(store) IN
    {read \in SUBSET nearest : \/ read = nearest /\ Cardinality(nearest) <= MaxPages
                               \/ Cardinality(read) = MaxPages}

\* The pages that go into the question.
ReadPages(a) ==
    /\ StepTo(a, "chains", "own")
    /\ \E read \in PagesRead(kb) : basis' = [basis EXCEPT ![a] = read]
    /\ UNCHANGED <<ours, ownVersion, framework>>

\* The version of the design's key, in its own keeper.
OwnVersion(a) ==
    /\ StepTo(a, "own", IF ownVersion THEN "ask" ELSE "upgrade")
    /\ UNCHANGED <<ours, theirs>>

UpgradeOwn(a) ==
    /\ a \in Architects /\ ~ownVersion
    /\ StepTo(a, "upgrade", "ask")
    /\ ownVersion' = TRUE
    /\ UNCHANGED <<ours, framework, basis>>

\* The answer of the model, imported under a key of its own: the last one stays.
SaveFramework(a) ==
    /\ pc[a] = "ask"
    /\ framework' = basis[a]
    /\ Forget({a})
    /\ UNCHANGED <<version, kb, made, overlap, relisted, ownVersion>>

-----------------------------------------------------------------------------

Restart ==
    /\ Forget(Runs)
    /\ UNCHANGED <<version, kb, ownVersion, framework, made, overlap, relisted>>

DesignerStep(d) ==
    \/ Generate(d) \/ ReadPrd(d) \/ CountVersion(d) \/ Upgrade(d) \/ Reset(d)
    \/ QueryRoot(d)
    \/ \E k, p \in Keys : AddComponent(d, k, p)
    \/ Import(d)

ArchitectStep(a) ==
    \/ Choose(a) \/ CountDesign(a) \/ ReadRequirement(a) \/ ReadPages(a)
    \/ OwnVersion(a) \/ UpgradeOwn(a) \/ SaveFramework(a)

Next ==
    \/ \E d \in Designers : DesignerStep(d)
    \/ \E a \in Architects : ArchitectStep(a)
    \/ \E r \in Runs : Fail(r)
    \/ Restart

Spec == Init /\ [][Next]_vars

-----------------------------------------------------------------------------
(* Properties. *)

\* ui-designer-role.seed.ts:214-253: every component hangs below the id its parent was
\* given in this walk.  However runs fail and start again, the components saved are a tree
\* from the root, unless designers were at work at the same time or a model answered a
\* component again, which gives it a new id and leaves what hangs below behind.
DesignIsWhole == Orphans(kb) # {} => overlap \/ relisted

\* ui-architect-role.seed.ts:109-133: the framework was chosen for pages the design still
\* has, the one next to the end of every chain or ten of them, however long after the count
\* the architect reads the chains and however long the model takes.
FrameworkOfItsPages ==
    framework # None => framework \in PagesRead(kb) \/ overlap

\* "existing draft will all be cleared" (ui-designer-role.seed.ts:80), "reset and generate"
\* (:46).  It does not hold, README 6: the statement is refused, so a design is made once.
DraftIsCleared == [][\A d \in Designers : Reset(d) => LiveIds(kb', Keys) = {}]_vars
=============================================================================

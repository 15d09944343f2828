---------------------------- MODULE Requirements ----------------------------
(***************************************************************************)
(* The two roles that write into the business analyst's knowledge base:    *)
(* generatePRD, a conversation that breaks a requirement and then one      *)
(* story after the other into stories (src/prisma/appdiy/ba-role.seed.ts), *)
(* and generateBDD, which hangs test cases below the leaves of the tree    *)
(* (src/prisma/appdiy/bdd-role.seed.ts).                                   *)
(*                                                                         *)
(* Both are scripts: each step is a prompt (script.tool.ts), a step that   *)
(* fails leaves its status on the dto and nothing after it runs, and what  *)
(* was saved before stays saved.  What a script has read is not read again *)
(* after it has waited for a model or a user.                              *)
(***************************************************************************)
EXTENDS KnowledgeBase

CONSTANTS
    Analysts, Testers,      \* runs of generatePRD and of generateBDD
    Stories, Cases,         \* keys the models and users choose
    PrdRoot,                \* 'prd-root'
    NoKey, None,
    MaxSaves                \* bound on the ids a key gets

Sessions == Analysts \union Testers
PRD == Stories \union {PrdRoot}

ASSUME RequirementsAssumption ==
    /\ Keys = PRD \union Cases
    /\ PRD \intersect Cases = {} /\ PrdRoot \notin Stories
    /\ NoKey \notin Keys
    /\ Analysts \intersect Testers = {}
    /\ MaxSaves \in Nat

BoundedIds == Keys \X (1..MaxSaves)
Nodes == [id : BoundedIds, parent : BoundedIds \union {Top}]

ASSUME NoneAssumption == None \notin Nodes

VARIABLES
    version,    \* whether the keeper has its draft version
    kb,         \* the nodes
    hung,       \* a script spins and no other code of the process runs
    pc,         \* a session: what it does next
    named,      \* whether it was started with the draft's key, until that is looked up
    target,     \* nodeKey; NoKey is the whole requirement
    current,    \* currentNode [id, parent]; None until the fresh root is saved
    siblings,   \* nodeSiblings
    list,       \* the stories the user confirmed, until they are saved
    old,        \* the root to be removed
    leaves,     \* where a tester's chains end
    seen,       \* history: the stories there were when the chains were read
    upset       \* history: whether something happened that can cost a node its parent

vars == <<version, kb, hung, pc, named, target, current, siblings, list, old, leaves,
          seen, upset>>
store == <<version, kb, hung, upset>>
locals == <<named, target, current, siblings, list, old, leaves, seen>>

Node(k) == [id |-> kb[k].id, parent |-> kb[k].parent]

Waiting == {"idle", "confirm", "continue"}

TypeOK ==
    /\ version \in BOOLEAN
    /\ kb \in [Keys -> Rows \union {NoRow}]
    /\ \A k \in Keys : kb[k] # NoRow => kb[k].id \in {k} \X (1..MaxSaves)
    /\ hung \in BOOLEAN
    /\ pc \in [Sessions -> Waiting \union {"version", "upgrade", "load", "siblings", "ask",
                 "query", "remove", "root", "clear", "save", "chains", "cases"}]
    /\ named \in [Sessions -> BOOLEAN]
    /\ target \in [Sessions -> PRD \union {NoKey}]
    /\ current \in [Sessions -> Nodes \union {None}]
    /\ siblings \in [Sessions -> SUBSET Nodes]
    /\ list \in [Sessions -> SUBSET Stories]
    /\ old \in [Sessions -> BoundedIds \union {None}]
    /\ leaves \in [Sessions -> SUBSET BoundedIds]
    /\ seen \in [Sessions -> SUBSET BoundedIds]
    /\ upset \in BOOLEAN

Init ==
    /\ version = FALSE
    /\ kb = Empty
    /\ hung = FALSE
    /\ pc = [s \in Sessions |-> "idle"]
    /\ named = [s \in Sessions |-> FALSE]
    /\ target = [s \in Sessions |-> NoKey]
    /\ current = [s \in Sessions |-> None]
    /\ siblings = [s \in Sessions |-> {}]
    /\ list = [s \in Sessions |-> {}]
    /\ old = [s \in Sessions |-> None]
    /\ leaves = [s \in Sessions |-> {}]
    /\ seen = [s \in Sessions |-> {}]
    /\ upset = FALSE

-----------------------------------------------------------------------------
(* Steps of a script (script.tool.ts). *)

At(s, l) == ~hung /\ pc[s] = l
Goto(s, l) == pc' = [pc EXCEPT ![s] = l]

\* The locals of the sessions that end go with them.
Forget(ss) ==
    LET Cleared(f, v) == [s \in Sessions |-> IF s \in ss THEN v ELSE f[s]] IN
    /\ pc' = Cleared(pc, "idle")
    /\ named' = Cleared(named, FALSE)
    /\ target' = Cleared(target, NoKey)
    /\ current' = Cleared(current, None)
    /\ siblings' = Cleared(siblings, {})
    /\ list' = Cleared(list, {})
    /\ old' = Cleared(old, None)
    /\ leaves' = Cleared(leaves, {})
    /\ seen' = Cleared(seen, {})

\* The script answers, with its result or with an error.
End(s) == Forget({s}) /\ UNCHANGED store

\* A prompt answers an error, or later where the script cannot wait for it (-2).
StepFails(s) ==
    /\ ~hung /\ pc[s] # "idle"
    /\ End(s)

Busy == {s \in Sessions : pc[s] # "idle"}

Start(s, name, k, l) ==
    /\ At(s, "idle")
    /\ Goto(s, l)
    /\ named' = [named EXCEPT ![s] = name]
    /\ target' = [target EXCEPT ![s] = k]
    /\ upset' = (upset \/ Busy # {})
    /\ UNCHANGED <<version, kb, hung, current, siblings, list, old, leaves, seen>>

-----------------------------------------------------------------------------
(* generatePRD. *)

Generate(s, name, k) == s \in Analysts /\ Start(s, name, k, "version")

\* 409 unless the draft, when there is one, was named.
AnalystVersion(s) ==
    /\ s \in Analysts /\ At(s, "version")
    /\ IF version /\ ~named[s] THEN End(s)
       ELSE /\ Goto(s, IF version THEN "load" ELSE "upgrade")
            /\ named' = [named EXCEPT ![s] = @ /\ ~version]
            /\ UNCHANGED <<store, target, current, siblings, list, old, leaves, seen>>

\* A version needs a key, and @@unique([actorId, key]).
Upgrade(s) ==
    /\ At(s, "upgrade")
    /\ IF named[s] /\ ~version
       THEN /\ version' = TRUE
            /\ Goto(s, "load")
            /\ named' = [named EXCEPT ![s] = FALSE]
            /\ UNCHANGED <<kb, hung, upset, target, current, siblings, list, old, leaves, seen>>
       ELSE End(s)

\* Without a node key: a root that is not saved before the user confirms.
FreshRoot(s) ==
    /\ At(s, "load") /\ target[s] = NoKey
    /\ Goto(s, "ask")
    /\ UNCHANGED <<store, locals>>

Cached(s) == {n \in siblings[s] : n.id[1] = target[s]}

\* A sibling of the node broken last is taken as it was read then.
FromSiblings(s) ==
    /\ At(s, "load") /\ Cached(s) # {}
    /\ \E n \in Cached(s) : current' = [current EXCEPT ![s] = n]
    /\ Goto(s, "ask")
    /\ UNCHANGED <<store, named, target, siblings, list, old, leaves, seen>>

\* 404 if there is none.
LoadNode(s) ==
    LET k == target[s] IN
    /\ At(s, "load") /\ k # NoKey /\ Cached(s) = {}
    /\ IF Has(kb, k)
       THEN /\ current' = [current EXCEPT ![s] = Node(k)]
            /\ Goto(s, "siblings")
            /\ UNCHANGED <<store, named, target, siblings, list, old, leaves, seen>>
       ELSE End(s)

\* None left since: reading the first of them throws.
LoadSiblings(s) ==
    LET ks == Below(kb, {current[s].parent}) \intersect PRD IN
    /\ At(s, "siblings")
    /\ IF ks = {} THEN End(s)
       ELSE /\ siblings' = [siblings EXCEPT ![s] = {Node(k) : k \in ks}]
            /\ Goto(s, "ask")
            /\ UNCHANGED <<store, named, target, current, list, old, leaves, seen>>

\* The model breaks the node, and user-command:start waits for the user.
Ask(s) ==
    /\ At(s, "ask")
    /\ Goto(s, "confirm")
    /\ UNCHANGED <<store, locals>>

\* The user ends with an error, no text or an empty list.
Decline(s) == At(s, "confirm") /\ End(s)

Confirm(s, ks) ==
    /\ At(s, "confirm")
    /\ list' = [list EXCEPT ![s] = ks]
    /\ Goto(s, IF current[s] = None THEN "query" ELSE "clear")
    /\ UNCHANGED <<store, named, target, current, siblings, old, leaves, seen>>

\* Faulty variant: the old root is not looked for.
QueryNothing(s) ==
    /\ At(s, "query")
    /\ Goto(s, "root")
    /\ UNCHANGED <<store, locals>>

QueryRoot(s) ==
    LET rs == Roots(kb) \intersect PRD IN
    /\ At(s, "query")
    /\ IF rs = {} THEN Goto(s, "root") /\ UNCHANGED old
       ELSE \E k \in rs : /\ old' = [old EXCEPT ![s] = kb[k].id]
                          /\ Goto(s, "remove")
    /\ UNCHANGED <<store, named, target, current, siblings, list, leaves, seen>>

RemoveRoot(s) ==
    /\ At(s, "remove") /\ ~EndsProcess(kb, {old[s]})
    /\ kb' = Removed(kb, {old[s]})
    /\ upset' = TRUE
    /\ old' = [old EXCEPT ![s] = None]
    /\ Goto(s, "root")
    /\ UNCHANGED <<version, hung, named, target, current, siblings, list, leaves, seen>>

\* Import the fresh root: the same key again, whatever has become of its row.
SaveRoot(s) ==
    LET root == [id |-> NewId(kb, PrdRoot), parent |-> Top] IN
    /\ At(s, "root") /\ root.id[2] <= MaxSaves
    /\ kb' = Imported(kb, [k \in {PrdRoot} |-> root], {Top})
    /\ current' = [current EXCEPT ![s] = root]
    /\ siblings' = [siblings EXCEPT ![s] = {root}]
    /\ Goto(s, "clear")
    /\ UNCHANGED <<version, hung, upset, named, target, list, old, leaves, seen>>

\* remove-subs, which finds nothing or ends the process.
ClearSubs(s) ==
    /\ At(s, "clear") /\ ~EndsProcess(kb, {current[s].id})
    /\ Goto(s, "save")
    /\ UNCHANGED <<store, locals>>

SaveStories(s) ==
    LET ks == list[s] IN
    /\ At(s, "save") /\ \A k \in ks : NewId(kb, k)[2] <= MaxSaves
    /\ kb' = Imported(kb, [k \in ks |-> [id |-> NewId(kb, k), parent |-> current[s].id]],
                      {current[s].id})
    /\ list' = [list EXCEPT ![s] = {}]
    /\ upset' = (upset \/ \E k \in ks : Live(kb, k))
    /\ Goto(s, "continue")
    /\ UNCHANGED <<version, hung, named, target, current, siblings, old, leaves, seen>>

\* 'continue to generate?': another node of the same version, or the end.
Continue(s, k) ==
    /\ At(s, "continue")
    /\ target' = [target EXCEPT ![s] = k]
    /\ current' = [current EXCEPT ![s] = None]
    /\ Goto(s, "load")
    /\ UNCHANGED <<store, named, siblings, list, old, leaves, seen>>

Stop(s) == At(s, "continue") /\ End(s)

-----------------------------------------------------------------------------
(* generateBDD. *)

Test(s, name) == s \in Testers /\ Start(s, name, NoKey, "version")

\* 404 without a draft.  No key is needed; a wrong one is refused (StepFails).
TesterVersion(s) ==
    /\ s \in Testers /\ At(s, "version")
    /\ IF version
       THEN /\ Goto(s, "chains")
            /\ named' = [named EXCEPT ![s] = FALSE]
            /\ UNCHANGED <<store, target, current, siblings, list, old, leaves, seen>>
       ELSE End(s)

\* 404 if there is no chain.
LoadChains(s) ==
    LET ends == Leaves(kb, PRD) IN
    /\ At(s, "chains")
    /\ IF ends = {} THEN End(s)
       ELSE /\ leaves' = [leaves EXCEPT ![s] = ends]
            /\ seen' = [seen EXCEPT ![s] = LiveIds(kb, PRD)]
            /\ Goto(s, "cases")
            /\ UNCHANGED <<store, named, target, current, siblings, list, old>>

\* The features are asked for again until the answer names them all.  Once the answer is
\* an error the script's process returns at once: the loop never yields to anything else.
Spin(s) ==
    /\ At(s, "cases")
    /\ hung' = TRUE
    /\ Forget(Sessions)
    /\ UNCHANGED <<version, kb, upset>>

\* What the model's cases of all chains, with similar ones merged, can be: cases, each with
\* the leaves it was made for.
MadeFor(s) == UNION {[cs -> SUBSET leaves[s] \ {{}}] : cs \in SUBSET Cases}

\* A case is saved once for each of its leaves, in some order.
SaveCases(s, for) ==
    LET cs == DOMAIN for IN
    /\ At(s, "cases") /\ \A k \in cs : NewId(kb, k)[2] <= MaxSaves
    /\ \E last \in [cs -> leaves[s]] :
         /\ \A k \in cs : last[k] \in for[k]
         /\ kb' = Imported(kb, [k \in cs |-> [id |-> NewId(kb, k), parent |-> last[k]]],
                           UNION {for[k] : k \in cs})
    /\ Forget({s})
    /\ UNCHANGED <<version, hung, upset>>

-----------------------------------------------------------------------------
(* The process. *)

\* A removal that finds nodes below: the process is gone, before its transaction has
\* committed or after, and so are all sessions.
Crash(s) ==
    /\ \/ /\ At(s, "remove") /\ EndsProcess(kb, {old[s]})
          /\ kb' \in {kb, Removed(kb, {old[s]})}
       \/ /\ At(s, "clear") /\ EndsProcess(kb, {current[s].id})
          /\ UNCHANGED kb
    /\ upset' = TRUE
    /\ Forget(Sessions)
    /\ UNCHANGED <<version, hung>>

Restart ==
    /\ hung' = FALSE
    /\ Forget(Sessions)
    /\ UNCHANGED <<version, kb, upset>>

AnalystStep(s) ==
    \/ \E name \in BOOLEAN, k \in PRD \union {NoKey} : Generate(s, name, k)
    \/ AnalystVersion(s) \/ Upgrade(s)
    \/ FreshRoot(s) \/ FromSiblings(s) \/ LoadNode(s) \/ LoadSiblings(s)
    \/ Ask(s) \/ Decline(s)
    \/ \E ks \in SUBSET Stories \ {{}} : Confirm(s, ks)
    \/ QueryRoot(s) \/ RemoveRoot(s) \/ SaveRoot(s) \/ ClearSubs(s) \/ SaveStories(s)
    \/ \E k \in PRD : Continue(s, k)
    \/ Stop(s)
    \/ Crash(s)

TesterStep(s) ==
    \/ \E name \in BOOLEAN : Test(s, name)
    \/ TesterVersion(s) \/ LoadChains(s) \/ Spin(s)
    \/ \E for \in MadeFor(s) : SaveCases(s, for)

Next ==
    \/ \E s \in Analysts : AnalystStep(s)
    \/ \E s \in Testers : TesterStep(s)
    \/ \E s \in Sessions : StepFails(s)
    \/ Restart

Spec == Init /\ [][Next]_vars

-----------------------------------------------------------------------------
(* Properties. *)

\* ba-role.seed.ts:232-270, bdd-role.seed.ts:230-237: a node is saved below an id read some
\* steps before.  Whatever fails or stops between the steps, no live node is left below an
\* id that is gone, unless sessions have overlapped, a root with the tree below it was
\* removed, or a story was listed that the tree had already.
OrphansHaveReason == Orphans(kb) # {} => upset

\* bdd-role.seed.ts:52-56 ("hang below the leaves of the stories tree"), memory.service.ts:
\* 110: a save deletes what else is below the stories of its cases, of any domain.  However
\* the conversations go on meanwhile, it deletes no story that was there when the tester
\* read the chains.
SavedBy(s) ==
    /\ pc[s] = "cases" /\ kb' # kb
    /\ \A o \in Sessions \ {s} : pc'[o] = pc[o]

CasesSpareStories ==
    [][\A s \in Testers : SavedBy(s) =>
         \A k \in PRD : Live(kb, k) /\ ~Live(kb', k) => kb[k].id \notin seen[s]]_vars

\* ba-role.seed.ts:245 ("save new root prd"): the root saved by a conversation is live.
SavedRootIsLive ==
    [][\A s \in Analysts : pc[s] = "root" /\ pc'[s] = "clear" => Live(kb', PrdRoot)]_vars
=============================================================================

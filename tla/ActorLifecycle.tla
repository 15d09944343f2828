--------------------------- MODULE ActorLifecycle ---------------------------
(***************************************************************************)
(* How an actor comes into being (src/src/actors/actors.service.ts and the *)
(* three listeners of src/src/actors/listeners/).                          *)
(*                                                                         *)
(* _createActor inserts the row in a transaction and emits `actor.create`, *)
(* whose listener is awaited inside that transaction.  It runs the host's  *)
(* onCreate prompt and then emits `actor.init`; the init listener runs     *)
(* onInit and emits `actor.created`; the created listener runs onCreated   *)
(* and either emits `actor.init` again (the prompt answered something) or  *)
(* makes the actor ready.  The last two listeners are asynchronous: an     *)
(* emitted event waits in the event loop, nobody awaits it, and it shares  *)
(* no lock with the transaction, the chats or the other actors.            *)
(*                                                                         *)
(* What the onCreate prompt does while it is awaited runs in the same      *)
(* transaction (PrismaTransactionScope.run joins the one it is called in): *)
(* a member it creates on demand is a row of its parent's transaction,     *)
(* with a lifecycle of its own.                                            *)
(*                                                                         *)
(* Rows live in the database, `me.status` in MemNamespacedStorage: a       *)
(* restart keeps the first and loses the second.                           *)
(*                                                                         *)
(* An element of Actor is one attempt to create an actor: a fresh UUID     *)
(* with the (parentId, nick) it asks for, of which the database keeps at   *)
(* most one (@@unique([parentId, nick])).                                  *)
(***************************************************************************)
EXTENDS Naturals

CONSTANTS
    Actor,          \* ids _createActor may generate
    User,           \* the root actor of the user; it always exists
    ParentOf,       \* newActor.parentId
    NickOf,         \* newActor.nick
    Hosted,         \* actors whose host row is not null
    Singleton,      \* ... whose host is a singleton
    HasOnCreate,    \* ... whose host has an onCreate prompt
    HasOnInit,
    HasOnCreated,
    Early,          \* members their parent creates early (HostMember.earlyCreate)
    MaxRestarts     \* bound on the restarts explored

ASSUME UserAssumption == User \notin Actor
ASSUME TreeAssumption == /\ ParentOf \in [Actor -> Actor \cup {User}]
                         /\ \A a \in Actor : ParentOf[a] # a
ASSUME HostAssumption == /\ Hosted \subseteq Actor
                         /\ Singleton \subseteq Hosted
                         /\ HasOnCreate \cup HasOnInit \cup HasOnCreated
                              \subseteq Hosted \ Singleton
ASSUME EarlyAssumption ==
    /\ Early \subseteq Actor
    /\ \A a \in Early : ParentOf[a] \in Hosted \ Singleton
    /\ \A a, b \in Early : ParentOf[a] = ParentOf[b] /\ NickOf[a] = NickOf[b] => a = b
ASSUME BoundAssumption == MaxRestarts \in Nat

VARIABLES
    row,            \* the actors table: absent, open (uncommitted), committed, gone
                    \* (rolled back), deleted (marked so by the soft-delete middleware)
    pc,             \* where the fiber running _createActor is; failed: before the
                    \* commit was tried, aborted: by the commit
    tx,             \* the actor whose creation opened the transaction that inserts the row
    status,         \* `me.status` in the actor's longrun scope; "none" is unset
    createRunning,  \* create handlers and their QuickResponse chains not yet over
    initQueued,     \* `actor.init` events emitted and not yet delivered
    initRunning,    \* init handlers (and their chains) not yet over
    createdQueued,  \* `actor.created` events emitted and not yet delivered
    createdRunning, \* created handlers (and their chains) not yet over
    onCreateRuns,   \* history: how many times the create event was handled
    inited,         \* history: init handlers finished since the process started
    checked,        \* history: the last onCreated answered nothing
    served,         \* actors an entry of which was processed since the start
    restarts        \* number of restarts so far

dbVars    == <<row, pc, tx>>
eventVars == <<createRunning, initQueued, initRunning, createdQueued, createdRunning>>
histVars  == <<onCreateRuns, inited, checked>>
vars == <<dbVars, status, eventVars, histVars, served, restarts>>

Status == {"none", "creating", "initing", "ready"}
Rows   == {"absent", "open", "committed", "gone", "deleted"}
Places == {"idle", "inserting", "handling", "committing", "done", "failed", "aborted"}

TypeOK ==
    /\ row \in [Actor -> Rows]
    /\ pc \in [Actor -> Places]
    /\ tx \in [Actor -> Actor]
    /\ status \in [Actor -> Status]
    /\ createRunning \in [Actor -> Nat]
    /\ initQueued \in [Actor -> Nat]
    /\ initRunning \in [Actor -> Nat]
    /\ createdQueued \in [Actor -> Nat]
    /\ createdRunning \in [Actor -> Nat]
    /\ onCreateRuns \in [Actor -> Nat]
    /\ inited \in [Actor -> BOOLEAN]
    /\ checked \in [Actor -> BOOLEAN]
    /\ served \subseteq Actor
    /\ restarts \in Nat

Init ==
    /\ row = [a \in Actor |-> "absent"]
    /\ pc = [a \in Actor |-> "idle"]
    /\ tx = [a \in Actor |-> a]
    /\ status = [a \in Actor |-> "none"]
    /\ createRunning = [a \in Actor |-> 0]
    /\ initQueued = [a \in Actor |-> 0]
    /\ initRunning = [a \in Actor |-> 0]
    /\ createdQueued = [a \in Actor |-> 0]
    /\ createdRunning = [a \in Actor |-> 0]
    /\ onCreateRuns = [a \in Actor |-> 0]
    /\ inited = [a \in Actor |-> FALSE]
    /\ checked = [a \in Actor |-> FALSE]
    /\ served = {}
    /\ restarts = 0

-----------------------------------------------------------------------------
Incr(f, a) == [f EXCEPT ![a] = @ + 1]
Decr(f, a) == [f EXCEPT ![a] = @ - 1]

\* The rows the unique index sees as the same member.
Sibling(a, b) == a # b /\ ParentOf[a] = ParentOf[b] /\ NickOf[a] = NickOf[b]

Exists(a) == a = User \/ (a \in Actor /\ row[a] = "committed")

\* A lifecycle prompt of p is under way.
InPrompt(p) ==
    \/ p \in HasOnCreate /\ createRunning[p] > 0
    \/ p \in HasOnInit /\ initRunning[p] > 0
    \/ p \in HasOnCreated /\ createdRunning[p] > 0

\* What p does goes into the transaction that inserts its row: the function it was
\* opened for has not returned.
Joined(p) == p \in Actor /\ row[p] # "absent" /\ pc[tx[p]] = "handling"

(***************************************************************************)
(* Starting a creation.  POST /actors does not look for an existing        *)
(* member; the actor tool (`@member`) creates only what it did not find.   *)
(* In both, other requests run before the row is inserted.  A client needs *)
(* a parent it can see.  A prompt of the parent, or in its transaction one *)
(* that calls `@parent@member`, has it in memory, committed or not.        *)
(***************************************************************************)
CreateRequest(a) ==
    LET parent == ParentOf[a]
    IN  /\ pc[a] = "idle"
        /\ a \notin Early
        /\ parent \notin Singleton
        /\ \/ Exists(parent)
           \/ parent \in Actor /\ (InPrompt(parent) \/ (Joined(parent) /\ tx[parent] # parent))
        /\ pc' = [pc EXCEPT ![a] = "inserting"]
        /\ tx' = IF Joined(parent) THEN [tx EXCEPT ![a] = tx[parent]] ELSE tx
        /\ UNCHANGED <<row, status, eventVars, histVars, served, restarts>>

\* Members the create handler of p starts without awaiting them.
EarlyMembers(p) == {m \in Early : ParentOf[m] = p}

StartEarlyMembers(p) ==
    [a \in Actor |-> IF a \in EarlyMembers(p) THEN "inserting" ELSE pc[a]]

\* They are not awaited either: by the time one asks for its transaction, that of its
\* parent is the one it runs in only if it is another actor's.
EarlyTx(p) ==
    [a \in Actor |-> IF a \in EarlyMembers(p) /\ tx[p] # p /\ Joined(p) THEN tx[p] ELSE tx[a]]

\* Faulty variants: the key is looked up instead of locked; rolled back rows hold it.
KeyNotCommitted(a) == \A b \in Actor : Sibling(a, b) => row[b] \notin {"committed", "deleted"}
KeyNeverUsed(a) == \A b \in Actor : Sibling(a, b) => row[b] = "absent"

\* The unique index lets the row of a in.  A soft-deleted row is out of sight of every
\* query and stays in the index.
KeyFree(a) == \A b \in Actor : Sibling(a, b) => row[b] \notin {"open", "committed", "deleted"}

\* The transaction the row of a goes into takes statements.
TxIsOpen(a) == tx[a] = a \/ row[tx[a]] = "open"

\* _createActor has its answer: its own transaction commits, another's goes on.
Returned(a) == IF tx[a] = a THEN "committing" ELSE "done"

RolledBack(t) == [b \in Actor |-> IF tx[b] = t /\ row[b] = "open" THEN "gone" ELSE row[b]]

(***************************************************************************)
(* prisma.actor.create, then the part of the create listener that precedes *)
(* the onCreate prompt.  The unique index makes an insert wait for an open *)
(* transaction holding the same key and fail once that one has committed.  *)
(***************************************************************************)
InsertRow(a) ==
    /\ pc[a] = "inserting"
    /\ TxIsOpen(a) /\ KeyFree(a)
    /\ row' = [row EXCEPT ![a] = "open"]
    /\ onCreateRuns' = IF a \in Hosted THEN Incr(onCreateRuns, a) ELSE onCreateRuns
    /\ IF a \in Hosted \ Singleton
         THEN /\ status' = [status EXCEPT ![a] = "creating"]
              /\ createRunning' = Incr(createRunning, a)
              /\ pc' = [pc EXCEPT ![a] = "handling"]
         ELSE /\ status' = IF a \in Singleton THEN [status EXCEPT ![a] = "ready"] ELSE status
              /\ pc' = [pc EXCEPT ![a] = Returned(a)]
              /\ UNCHANGED createRunning
    /\ UNCHANGED <<tx, initQueued, initRunning, createdQueued, createdRunning,
                   inited, checked, served, restarts>>

\* A member inherits the ctxId of its parent.  If that scope was lost in a restart,
\* initContext finds nothing, createScope throws "no scope found" and the
\* transaction rolls back.  (The id may have been given to a new scope meanwhile.)
ContextLost(a) ==
    /\ pc[a] = "inserting"
    /\ a \in Hosted /\ ParentOf[a] \in Hosted
    /\ status[ParentOf[a]] = "none"
    /\ KeyFree(a)
    /\ pc' = [pc EXCEPT ![a] = "failed"]
    /\ row' = [row EXCEPT ![a] = "gone"]
    /\ UNCHANGED <<tx, status, eventVars, histVars, served, restarts>>

\* The insert is refused.  Inside another's transaction that ends the transaction as
\* far as the database goes, whatever its fibers still do.
InsertConflict(a) ==
    /\ pc[a] = "inserting"
    /\ TxIsOpen(a)
    /\ \E b \in Actor : /\ Sibling(a, b)
                         /\ \/ row[b] \in {"committed", "deleted"}
                            \/ row[b] = "open" /\ tx[b] = tx[a]
    /\ pc' = [pc EXCEPT ![a] = "failed"]
    /\ row' = RolledBack(tx[a])
    /\ UNCHANGED <<tx, status, eventVars, histVars, served, restarts>>

\* The transaction a member was to be inserted in is over: committed before an unawaited
\* prompt came to its insert, or broken by a conflict.
TransactionClosed(a) ==
    /\ pc[a] = "inserting"
    /\ tx[a] # a
    /\ row[tx[a]] # "open" \/ pc[tx[a]] # "handling"
    /\ pc' = [pc EXCEPT ![a] = "failed"]
    /\ UNCHANGED <<row, tx, status, eventVars, histVars, served, restarts>>

\* The onCreate prompt of p awaits the creation of a member it asked for.
AwaitsMember(p) ==
    \E m \in Actor : /\ ParentOf[m] = p /\ tx[m] = tx[p] /\ tx[m] # m
                     /\ pc[m] \in {"inserting", "handling"}

\* Faulty variant: onInit is passed over.
CreateHandledEmitsCreated(a) ==
    /\ pc[a] = "handling" /\ ~AwaitsMember(a)
    /\ createRunning' = Decr(createRunning, a)
    /\ createdQueued' = Incr(createdQueued, a)
    /\ pc' = [StartEarlyMembers(a) EXCEPT ![a] = Returned(a)]
    /\ tx' = EarlyTx(a)
    /\ UNCHANGED <<row, status, initRunning, initQueued, createdRunning,
                   histVars, served, restarts>>

(***************************************************************************)
(* The create listener's postHandle: emit `actor.init`, start the early    *)
(* members.  It follows onCreate directly, or ends the QuickResponse chain *)
(* when onCreate answered that it will answer later; the listener, and     *)
(* with it the transaction, does not wait for that chain.                  *)
(***************************************************************************)
CreateHandled(a) ==
    /\ pc[a] = "handling" /\ ~AwaitsMember(a)
    /\ createRunning' = Decr(createRunning, a)
    /\ initQueued' = Incr(initQueued, a)
    /\ pc' = [StartEarlyMembers(a) EXCEPT ![a] = Returned(a)]
    /\ tx' = EarlyTx(a)
    /\ UNCHANGED <<row, status, initRunning, createdQueued, createdRunning,
                   histVars, served, restarts>>

\* Faulty variant: postHandle runs at once, and again when the chain ends.
OnCreatePendingEmits(a) ==
    /\ pc[a] = "handling"
    /\ a \in HasOnCreate
    /\ initQueued' = Incr(initQueued, a)
    /\ pc' = [pc EXCEPT ![a] = Returned(a)]
    /\ UNCHANGED <<row, tx, status, createRunning, initRunning, createdQueued, createdRunning,
                   histVars, served, restarts>>

\* Part of the prompt goes on unawaited, and so does what that part has asked for.
OnCreatePending(a) ==
    /\ pc[a] = "handling"
    /\ a \in HasOnCreate
    /\ pc' = [pc EXCEPT ![a] = Returned(a)]
    /\ UNCHANGED <<row, tx, status, eventVars, histVars, served, restarts>>

\* The error rolls back the transaction it is thrown in.  From another's transaction
\* the tool that asked for the member answers it, and the row stays.
OnCreateThrows(a) ==
    /\ pc[a] = "handling" /\ ~AwaitsMember(a)
    /\ a \in HasOnCreate
    /\ createRunning' = Decr(createRunning, a)
    /\ pc' = [pc EXCEPT ![a] = "failed"]
    /\ row' = IF tx[a] = a THEN RolledBack(a) ELSE row
    /\ UNCHANGED <<tx, status, initQueued, initRunning, createdQueued, createdRunning,
                   histVars, served, restarts>>

\* Faulty variant: a chain may resolve more than once.
ChainAlwaysPending(a) == pc[a] \in {"committing", "done", "failed", "aborted"}

ChainPending(a) ==
    /\ pc[a] \in {"committing", "done", "failed", "aborted"}
    /\ createRunning[a] > 0

CreateChainResolves(a) ==
    /\ ChainPending(a)
    /\ createRunning' = Decr(createRunning, a)
    /\ initQueued' = Incr(initQueued, a)
    /\ pc' = StartEarlyMembers(a)
    /\ tx' = EarlyTx(a)
    /\ UNCHANGED <<row, status, initRunning, createdQueued, createdRunning,
                   histVars, served, restarts>>

CreateChainRejects(a) ==
    /\ ChainPending(a)
    /\ createRunning' = Decr(createRunning, a)
    /\ UNCHANGED <<dbVars, status, initQueued, initRunning, createdQueued, createdRunning,
                   histVars, served, restarts>>

Commit(a) ==
    /\ pc[a] = "committing"
    /\ row[a] = "open"
    /\ pc' = [pc EXCEPT ![a] = "done"]
    /\ row' = [b \in Actor |-> IF tx[b] = a /\ row[b] = "open" THEN "committed" ELSE row[b]]
    /\ UNCHANGED <<tx, status, eventVars, histVars, served, restarts>>

\* The transaction is over time (timeout: 360000) while its function still runs: the
\* database rolls it back, and the fiber finds out at its next statement or its commit.
TimesOut(a) ==
    /\ pc[a] = "handling" /\ tx[a] = a
    /\ row[a] = "open"
    /\ row' = RolledBack(a)
    /\ UNCHANGED <<pc, tx, status, eventVars, histVars, served, restarts>>

\* The database refuses the commit, or the transaction was rolled back before.
CommitFails(a) ==
    /\ pc[a] = "committing"
    /\ pc' = [pc EXCEPT ![a] = "aborted"]
    /\ row' = RolledBack(a)
    /\ UNCHANGED <<tx, status, eventVars, histVars, served, restarts>>

-----------------------------------------------------------------------------
(***************************************************************************)
(* The asynchronous listeners.  Delivering an event starts its handler;    *)
(* the handler ends when its prompt, and the chain it may have returned,   *)
(* does, or with the error of either, which nobody catches.                *)
(***************************************************************************)
InitEvent(a) ==
    /\ initQueued[a] > 0
    /\ initQueued' = Decr(initQueued, a)
    /\ initRunning' = Incr(initRunning, a)
    /\ status' = [status EXCEPT ![a] = "initing"]
    /\ UNCHANGED <<dbVars, createRunning, createdQueued, createdRunning,
                   histVars, served, restarts>>

InitHandled(a) ==
    /\ initRunning[a] > 0
    /\ initRunning' = Decr(initRunning, a)
    /\ createdQueued' = Incr(createdQueued, a)
    /\ inited' = [inited EXCEPT ![a] = TRUE]
    /\ UNCHANGED <<dbVars, status, createRunning, initQueued, createdRunning,
                   onCreateRuns, checked, served, restarts>>

InitThrows(a) ==
    /\ initRunning[a] > 0
    /\ a \in HasOnInit
    /\ initRunning' = Decr(initRunning, a)
    /\ UNCHANGED <<dbVars, status, createRunning, initQueued, createdQueued, createdRunning,
                   histVars, served, restarts>>

CreatedEvent(a) ==
    /\ createdQueued[a] > 0
    /\ createdQueued' = Decr(createdQueued, a)
    /\ createdRunning' = Incr(createdRunning, a)
    /\ checked' = [checked EXCEPT ![a] = FALSE]
    /\ UNCHANGED <<dbVars, status, createRunning, initQueued, initRunning,
                   onCreateRuns, inited, served, restarts>>

\* Faulty variant: `actor.init` is emitted whatever onCreated answered.
CreatedPassesInitsAgain(a) ==
    /\ createdRunning[a] > 0
    /\ createdRunning' = Decr(createdRunning, a)
    /\ initQueued' = Incr(initQueued, a)
    /\ checked' = [checked EXCEPT ![a] = TRUE]
    /\ status' = [status EXCEPT ![a] = "ready"]
    /\ UNCHANGED <<dbVars, createRunning, initRunning, createdQueued,
                   onCreateRuns, inited, served, restarts>>

\* onCreated is null or answered nothing: the actor is ready.
CreatedPasses(a) ==
    /\ createdRunning[a] > 0
    /\ createdRunning' = Decr(createdRunning, a)
    /\ checked' = [checked EXCEPT ![a] = TRUE]
    /\ status' = [status EXCEPT ![a] = "ready"]
    /\ UNCHANGED <<dbVars, createRunning, initQueued, initRunning, createdQueued,
                   onCreateRuns, inited, served, restarts>>

\* onCreated answered something: `actor.init` is emitted again.
CreatedAnswers(a) ==
    /\ createdRunning[a] > 0
    /\ a \in HasOnCreated
    /\ createdRunning' = Decr(createdRunning, a)
    /\ initQueued' = Incr(initQueued, a)
    /\ UNCHANGED <<dbVars, status, createRunning, initRunning, createdQueued,
                   histVars, served, restarts>>

CreatedThrows(a) ==
    /\ createdRunning[a] > 0
    /\ a \in HasOnCreated
    /\ createdRunning' = Decr(createdRunning, a)
    /\ UNCHANGED <<dbVars, status, createRunning, initQueued, initRunning, createdQueued,
                   histVars, served, restarts>>

-----------------------------------------------------------------------------
\* Faulty variant: the status is not looked at.
ChatAnyway(a) ==
    /\ row[a] = "committed"
    /\ a \in Hosted
    /\ served' = served \cup {a}
    /\ UNCHANGED <<dbVars, status, eventVars, histVars, restarts>>

\* An entry of a committed actor, or inside its transaction of one that is not yet, is
\* processed; while the status is not ready the chat is answered "not ready, task
\* stopped" and nothing changes.
Chat(a) ==
    /\ row[a] = "committed" \/ (row[a] = "open" /\ Joined(a))
    /\ a \in Hosted
    /\ status[a] = "ready"
    /\ served' = served \cup {a}
    /\ UNCHANGED <<dbVars, status, eventVars, histVars, restarts>>

\* $remove marks the row as deleted (createSoftDeleteMiddleware turns deleteMany into
\* updateMany): events under way, the status and the rows of the members stay.  It
\* finds the actors the user has made himself (createdBy is the owner): a member's
\* createdBy is its parent, unless it was made with POST /actors as well.
Remove(a) ==
    /\ row[a] = "committed"
    /\ row' = [row EXCEPT ![a] = "deleted"]
    /\ UNCHANGED <<pc, tx, status, eventVars, histVars, served, restarts>>

Zero == [a \in Actor |-> 0]

\* The process stops and starts: memory is lost, open transactions roll back.
Restart ==
    /\ restarts < MaxRestarts
    /\ restarts' = restarts + 1
    /\ row' = [a \in Actor |-> IF row[a] = "open" THEN "gone" ELSE row[a]]
    /\ pc' = [a \in Actor |-> IF pc[a] \in {"idle", "done"} THEN pc[a] ELSE "failed"]
    /\ status' = [a \in Actor |-> "none"]
    /\ createRunning' = Zero /\ initQueued' = Zero /\ initRunning' = Zero
    /\ createdQueued' = Zero /\ createdRunning' = Zero
    /\ inited' = [a \in Actor |-> FALSE]
    /\ checked' = [a \in Actor |-> FALSE]
    /\ served' = {}
    /\ UNCHANGED <<tx, onCreateRuns>>

-----------------------------------------------------------------------------
Create(a) ==
    \/ InsertRow(a) \/ ContextLost(a) \/ InsertConflict(a) \/ TransactionClosed(a)
    \/ CreateHandled(a) \/ OnCreatePending(a) \/ OnCreateThrows(a)
    \/ CreateChainResolves(a) \/ CreateChainRejects(a)
    \/ TimesOut(a) \/ Commit(a) \/ CommitFails(a)

Listen(a) ==
    \/ InitEvent(a) \/ InitHandled(a) \/ InitThrows(a)
    \/ CreatedEvent(a) \/ CreatedPasses(a) \/ CreatedAnswers(a) \/ CreatedThrows(a)

Next ==
    \/ \E a \in Actor : CreateRequest(a) \/ Create(a) \/ Listen(a) \/ Chat(a) \/ Remove(a)
    \/ Restart

Spec == Init /\ [][Next]_vars

(***************************************************************************)
(* The fiber of _createActor goes on whenever it can: the database answers *)
(* an insert and a commit, one way or another, and ends a transaction that *)
(* is over time.  The event loop delivers every event, and a listener      *)
(* without a prompt ends.  Prompts are under no fairness: one in command   *)
(* mode waits for a user for ever, a call of a tool has no time limit, and *)
(* onCreated may ask for another round in every round (the listener has no *)
(* bound, "TODO check eventCtx.initCnt").  Nor are users, failures and     *)
(* restarts.                                                               *)
(***************************************************************************)
FiberStep(a) ==
    \/ InsertRow(a) \/ InsertConflict(a) \/ TransactionClosed(a)
    \/ a \notin HasOnCreate /\ CreateHandled(a)
    \/ TimesOut(a) \/ Commit(a) \/ CommitFails(a)

ListenerStep(a) ==
    \/ InitEvent(a) \/ CreatedEvent(a)
    \/ a \notin HasOnInit /\ InitHandled(a)
    \/ a \notin HasOnCreated /\ CreatedPasses(a)

Fairness == \A a \in Actor : WF_vars(FiberStep(a)) /\ WF_vars(ListenerStep(a))

FairSpec == Spec /\ Fairness

-----------------------------------------------------------------------------
(***************************************************************************)
(* Properties                                                              *)
(***************************************************************************)

Tokens(a) == createRunning[a] + initQueued[a] + initRunning[a]
               + createdQueued[a] + createdRunning[a]

\* An actor has at most one lifecycle event or handler outstanding, however its
\* prompts answer (at once, later, with an error, with "not yet"), and none once
\* it is ready: no second round can run beside the first or undo its result.
OneLifecycle ==
    \A a \in Actor : Tokens(a) <= 1 /\ (status[a] = "ready" => Tokens(a) = 0)

\* A ready actor with a host that is no singleton had its create event handled
\* exactly once ("fired only once"), was initialised at least once in this
\* process ("fired at least once"), and the last onCreated asked nothing more.
ReadyAfterHooks ==
    \A a \in Hosted \ Singleton :
        status[a] = "ready" => onCreateRuns[a] = 1 /\ inited[a] /\ checked[a]

\* Only a restart takes the ready status away from an actor.
ReadyIsFinal ==
    [][\A a \in Actor : status[a] = "ready" /\ status'[a] # "ready" => restarts' # restarts]_vars

\* An entry is processed only for an actor whose lifecycle ended well in this
\* very process: after a restart no chat runs on what an earlier process set up.
ServedAfterLifecycle ==
    \A a \in served : status[a] = "ready" /\ (a \in Singleton \/ checked[a])

\* A row that its own transaction keeps is one whose create event was handled in it
\* without an error ("create event must handled sync"), whatever happens later.  A row
\* another's transaction keeps had its create event, whatever became of it.
KeptRowWasHandled ==
    \A a \in Actor : row[a] = "committed" =>
        /\ a \in Hosted => onCreateRuns[a] = 1
        /\ tx[a] = a => pc[a] = "done"

Lives(a) == Tokens(a) > 0 \/ status[a] = "ready"

\* A creation that failed leaves no lifecycle behind, although `actor.init` is emitted
\* before the transaction commits.  A row that was rolled back does so in three cases
\* only: its own commit failed; its transaction was over time or broken by a member while
\* its fiber went on, which will find out; or the transaction was another's, which failed
\* after this creation was answered.
FailedCreationIsSilent ==
    \A a \in Actor :
        /\ pc[a] = "failed" => ~Lives(a)
        /\ row[a] = "gone" /\ Lives(a) =>
             pc[a] \in {"handling", "committing", "aborted"} \/ tx[a] # a

\* Two attempts to create the same member (the actor tool creates on demand, two chats,
\* or two prompts of one transaction, may both find nothing) never both live, unless the
\* row of one was rolled back and its lifecycle goes on (FailedCreationIsSilent).
OneLifePerMember ==
    \A a, b \in Actor :
        Sibling(a, b) /\ "gone" \notin {row[a], row[b]} => ~(Lives(a) /\ Lives(b))

\* The lifecycle as its users see it: AbstractLifecycle says what it promises.
LifeOf(a) == IF status[a] = "ready" THEN "ready"
             ELSE IF Tokens(a) > 0 THEN "starting"
             ELSE IF onCreateRuns[a] > 0 THEN "over" ELSE "absent"

Life == [a \in Actor |-> LifeOf(a)]

Promise == INSTANCE AbstractLifecycle WITH life <- Life

\* The event-driven lifecycle implements the abstract one: started once, ready or
\* stopped for good, chats served only while ready, whatever the prompts,
\* transactions, deletions and restarts do.
ImplementsPromise == Promise!Spec

\* A lifecycle comes to an end, or to a prompt of its host, which may keep it.  An actor
\* whose host has no such prompt becomes ready once it is committed, unless the process
\* stops: no event is dropped on the way.
LifecycleSettles ==
    /\ \A a \in Actor : Tokens(a) > 0 ~> Tokens(a) = 0 \/ InPrompt(a)
    /\ \A a \in Hosted \ (HasOnCreate \cup HasOnInit \cup HasOnCreated) :
         row[a] = "committed" ~> status[a] = "ready" \/ restarts > 0

\* Every insert gets its answer, whoever holds its key and however long, and every creation
\* its own, unless the onCreate prompt that it awaits does not end.
CreationAnswered ==
    \A a \in Actor :
        pc[a] = "inserting" ~>
            pc[a] \in {"done", "failed", "aborted"} \/ (pc[a] = "handling" /\ InPrompt(a))
=============================================================================

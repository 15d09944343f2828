# Verification of the ChatRoles repository server

TLA+ models of the server in `src/src` (NestJS, Prisma on Postgres, an in-process
event emitter), checked with TLC, and proofs about its core checked with TLAPS.
Line references are to files under `src/src` unless they start with `prisma/`.

## 1. The system

A *role* says what an assistant does, a *host* says how (prompts, entries, members),
an *actor* is an instance of a published role's host, owned by a user and placed in a
tree. A client chats with an actor over HTTP; the prompts of its host go through tool
plugins (LLMs, scripts, other actors, memory, REST calls) and may answer at once or
later. Everything runs on one event loop; what interleaves are requests, detached
event listeners and promise chains, at their awaits.

| Component | State it keeps | Operations | Interacts by |
|---|---|---|---|
| Actor lifecycle (`actors/actors.service.ts`, `actors/listeners`) | `actors` rows; `me.status` in memory | create, create member, remove; create / init / created listeners | `emitAsync` inside the transaction; detached events; prompts |
| Task contexts (`actors/prompts`, `actors/chats`, `actor.tool.ts`) | current scope and parked scope of a request (nestjs-cls) | initContext, getContext, chatEntry | PreChatEvent, listeners, on-demand creation, all on one request store |
| Response rules (`prompts.service.ts`) | index and response of a run | handleResponseRules and what it calls | promise chains (QuickResponse) |
| Command mode (`user-command.tool.ts`) | list of sessions of the process | start, run, end | `resolve` left in a request's options |
| Platform quotas (`quotas`, `abstract-resource-tool.ts`) | `quotas` rows | read and renew, refuse, write back | separate statements around a call of a bot |
| Local resources (`sses`, `local.resource.driver.ts`) | listeners of a user's event, waiting calls | subscribe, emit, respond, time out | SSE, a second HTTP request |
| Roles and hosts (`roles`, `hosts`) | `roles`, `hosts` rows; the vector database (VDB) | create, update, publish, remove | RolePublishingEvent in the transaction; HTTP to the VDB |
| Memory (`memory-nodes`) | tree of nodes by version, embeddings | upsert, remove, query | transactions |
| Authentication (`infras/auth`) | token in an actor's row, one minute cache of the row | guard, validate, renew, log in | OAuthAccessToken and AuthUpdateToken events |
| Users (`users`) | `users` rows | register, update at login, PATCH | one transaction with the root actor |
| App-DIY roles (`prisma/kb-keeper.seed.ts`, `prisma/appdiy`) | locals of a script between its prompts; a tree of nodes per keeper | break stories, write test cases, design components, choose a framework | prompts to other members' keepers, to models and to the user |
| Scoped storage (`infras/repos`) | scopes and variables in memory | create, get, set, destroy | used by contexts and status |
| Transactions (`prisma-tx-scope.ts`) | client of the running transaction | run | every service |
| Other tools, shell, seed data | see `PROJECT.json` | | |

What is hard here, and what each component must get right:

* *Lifecycle*: `actor.init` is emitted before the row is committed and handled on its
  own; `onCreated` may send the actor back to init; early members start unawaited; the
  status dies with the process and the row does not. One lifecycle per actor, ready
  only after the hooks, nothing left of a failed creation but what joined transactions make
  unavoidable, one member per name.
* *Contexts*: one mutable slot per request shared by everything the request starts.
  A prompt must run in the scope its chat asked for.
* *Rules*: the loop and the promise chains continue from an index in two ways.
* *Command mode*: a waiting HTTP call depends on a function left in another request, which
  only the chat that owns that request calls.
* *Quotas*: read, call, write back without a lock, across the renewal of a period.
* *SSE*: the listener is attached after `subscribe` returned; answers race timeouts.
* *Publishing*: checks and writes of different transactions, a post that leaves before its
  transaction commits; time.
* *Authentication*: a row cached for a minute decides whether an old token is renewed,
  and the renewed one reaches the row by an event nobody waits for. Who holds the token
  in the row must be let in, and what is no longer in the row not for longer than a minute.
* *Users*: two first logins of one account. One user, one root actor.
* *Scripts*: seven or more prompts in a row, each with its own transaction, a model or a
  user answering in between, and no undo. What was read is used much later, and a step that
  fails leaves what was saved before.

## 2. Plan

1. Core: `ActorLifecycle` (refining `AbstractLifecycle`), its proofs. **Done.**
2. What a ready actor does with a chat: `TaskContext`, `RuleEngine`, `UserCommand`. **Done.**
3. What chats share with the outside: `ResourceQuota`, `LocalResource`, `Publishing`,
   `MemoryTree`. **Done.**
4. Who may chat at all: `Accounts`. **Done.**
5. What the seeded roles do with a knowledge base: `KnowledgeBase`, used by `Requirements`
   (business analyst and BDD writer on one tree) and `Design` (UI designer and UI architect).
   **Done.**
6. Proofs of every invariant and action property the runs check: `ActorLifecycle`,
   `Design`, `ResourceQuota`, `Publishing`, `Accounts`, `Requirements`, `MemoryTree`, and
   `TaskContext` with `RuleEngine`, `UserCommand` and `LocalResource`. **Done.**
7. That `MemoryTree`'s saves do what `KnowledgeBase` takes as one step, and the safety parts
   of the liveness properties (section 5). **Done.**

## 3. Modules

Rules common to all: a step of a module is what the code does between two awaits that
reach the outside (database, tool, network, user); reading memory is not an
await other code can get between to any effect. `\* Faulty variant` definitions stand
before the one they vary; no specification uses them: they are the mistakes the
properties are measured against.

**ActorLifecycle** (`MCActorLifecycle`). An element of `Actor` is one attempt to create
an actor with a (parent, nick); `row` is the database's view, `pc` the place of
`_createActor`, `status` the in-memory status; five counters hold the events queued
and handlers running. Actions follow the code: `InsertRow` (insert and the head of the
create listener), `CreateHandled` (postHandle), `OnCreatePending` and `CreateChain...`
(a late answer), `Commit`/`CommitFails`, `InitEvent`, `InitHandled`, `CreatedEvent`,
`CreatedPasses`, `CreatedAnswers`, the errors, `Chat`, `Remove`, `Restart`. The unique
index blocks an insert while a transaction with the same key is open and refuses it
afterwards, soft-deleted rows included. There is no foreign key on `parentId`
(`prisma/schema.prisma:185` is commented out), hence no guard on the parent's row.
`tx` is the transaction a row is inserted in, named by the actor whose creation opened it.
A prompt of a parent that is still being created may call a member that does not exist yet
(`CreateRequest` with `InPrompt`): as long as the parent's transaction runs its function
(`Joined`), `PrismaTransactionScope.run` joins it, the member's row commits or rolls back
with the parent's (`Commit`, `RolledBack`), and the parent's prompt waits for the member's
answer (`AwaitsMember`), while the member's lifecycle events are nobody's. A statement that
is refused breaks the transaction for all of them (`InsertConflict`, `TransactionClosed`), and
so does its time limit while a prompt is still awaited (`TimesOut`).
The outcome of a prompt is a choice among the actions.

**AbstractLifecycle**: absent, starting, ready or over, and the actors served.
`ActorLifecycle!Promise` is the refinement: `Life` reads the abstract state off the
status, the outstanding events and the number of create events.

**TaskContext** (`MCTaskContext`). `scope` and `parked` are the two slots. A fiber is a
stack of frames; `ctx` is the scope a prompt captured, `want` the one it was meant to
have. All request scopes of a request share their variables, so a scope is its kind.
`Pend` is a QuickResponse leaving a stack of awaiting prompts behind as a chain of its
own, at which moment the `finally` of when clauses runs. `CreateMember` and `Deliver`
are the lifecycle listeners on the request's store.

**RuleEngine** (`MCRuleEngine`). One run of a list of rules. `at` is the prompt being
processed; `via` says whether a promise chain handles the rule, in which case the index
is not incremented (`handleResponseRules` l.112, 120 and 146 against l.136).

**UserCommand** (`MCUserCommand`). `list`, the chain behind each session and the end
call its `resolve` belongs to. `ChainEnds` is a chain that ends in the chat that owns it,
whose `_response` calls `resolve` (`chats.service.ts:141-168`); `ChainEndsUnheard` is one
that ends elsewhere, any chain at any time: it may be that of a lifecycle prompt, of a script
without a callback (`script.tool.ts:57-66`), of an item of an iterator (`iterator.tool.ts:54`),
of a when clause, which runs on a copy of the request (`prompts.service.ts:196-202`,
`:235-241`), or one whose answer brought options of its own (`:132-133`).

**ResourceQuota** (`MCResourceQuota`). One row of one user; a request goes through
read, reset, drive, write, which are the awaits of `$getQuota`, `_invoke` and
`$updateQuota`. `validTo` is `invalidAt` counted in periods. The bot is the
environment: it uses no more than it is given and reports what is left.

**LocalResource**. Connections of one user and calls to their clients. The heartbeat
(`sses.service.ts:70-82`) changes no state: emitting to a name with no listener and
removing none.

**Publishing** (`MCPublishing`). A role is inserted and posted (`CreateRole`), then its
transaction commits or does not (`CommitRole`, `CreateRoleFails`). Update requests go through
emit and write, and may fail at either: `role.update` is refused or the transaction times out
(`UpdateFails`), and what was posted before stays out. Hosts are inserted after they were
validated; posts to the VDB arrive in any order or not at all. `failed` is history: the roles
a publication of which failed after its post.
Time passes only while no request is under way: the window is 36 hours, a transaction
lasts at most six minutes (`prisma-tx-scope.ts:40`).

**MemoryTree** (`MCMemoryTree`). A slot is a (version, key) of one actor and domain, which
the unique index makes one row for ever (rows are soft-deleted). `row` is committed;
`draft` and `lock` are what an open transaction has written. `UpsertNodes` begins a save,
`Upsert` writes its nodes in list order, `Delete`, `DeleteRow` and `Deleted` are one
`deleteMany` per level (`deletes`: one numbered statement for each parent, in the order
the parents first come in; `Current` is the one whose turn it is): it finds its rows, waits
for those others have written, and looks at them again. `Embed` is the HTTP call coming back, `Fail` everything that rolls a save
back (two saves of one level in opposite orders deadlock, and Postgres fails one of them).
`RemoveNodes` looks for the nodes below and deletes the listed ones; `Crash` is what
becomes of the nodes below. Content is named by the save that wrote it, which is also what
its embedding is compared with.

**Accounts** (`MCAccounts`). `user` and `actor` are committed rows. A login is a sequence
of database calls (`login[l].at`): `FindByUsername`, then `UpdateByUsername`, or the
transaction `CheckExists`, `CreateRoot`, `CreateUser`, `CommitRegistration`, whose rows no
other login sees; the unique index on users makes the second insert wait and then fail. A
request is at `reading` and `filling` while `fineUser` waits for the database and fills the
cache; `Decide` is `canActivate` from there on. A token is whose it is and the millisecond
it was made in; the signature is what makes `Request` take tokens from `issued` only.
`SaveToken` is the `AuthUpdateTokenListener`, at any time after. Only root actors log in and
only they are in the model.

**KnowledgeBase**: a keeper's nodes by key, with its entries as functions of the store:
`Has`, `Below`, `Leaves` read, `Imported` and `Removed` write. `Imported` is `upsertNodes`
without its interleavings, which are MemoryTree's: the row of a key keeps its `deleted`,
and what else is below the parents is deleted. MemoryTree instantiates it (`KB`), and
`SaveIsImported` relates each commit of a save there to one `Imported` here. For removals
there is no such property: what a removal was asked for is not in MemoryTree's state. No version is ever published, since
`publishVersion` throws and the keeper's `publish` has no handle, so there is one draft.

**Requirements** (`MCRequirements`). A session is a run of `generatePRD` or `generateBDD`;
`pc` names the prompt it sends next, and `target`, `current`, `siblings`, `list`, `old`,
`leaves` are the script's variables. `StepFails` is any prompt that answers an error, or
later where the script cannot wait (`script.tool.ts:57-66`); `Crash` is a removal that finds
nodes below (section 6); `Spin` a loop that never lets go of the event loop. `seen` and
`upset` are history: what a tester read, and the reasons an orphan may have.

**Design** (`MCDesign`). `nodes[d]` is the designer's `resultNodesMap`; `AddComponent` adds
what a model answered below a component it already knows, in whatever story the walk is.
The stories are not in the model: any walk may come of them. The architect counts, reads and
saves in three places, with `basis` the pages it took: of every chain the page next to its end
(`NearestPages`: the script reverses the chain and stops at the first component whose level is
system, module or page), and of those ten (`PagesRead`, `MaxPages`). The level is the model's
to answer, so `PageIds` are ids and not keys. Which ten are first depends on the order of
the keys; any ten are taken. `overlap` and `relisted` are history.

## 4. Runs

| Run | States | What it shows |
|---|---|---|
| `ActorLifecycle_team` | 108 k | a team and two attempts at its one member (early, and on demand from a chat or from a prompt of the team, in the team's transaction), one restart: `OneLifecycle`, `ReadyAfterHooks`, `FailedCreationIsSilent`, `OneLifePerMember`, the refinement, and that creations are answered and lifecycles end or are kept by a prompt |
| `TaskContext_requests` | 1.4 M | two fibers of depth up to `MaxDepth`: lexical contexts, contextless chats |
| `RuleEngine_rules` | 147 k | all lists of up to two rules: order, completeness, termination |
| `UserCommand_sessions` | 11 k | three sessions, three end calls: every end call is answered by its session, unless the chain of that very session ends unheard |
| `ResourceQuota_calls` | 15 k | three calls, two renewals: what overlapping calls can do to a quota, and what they cannot |
| `LocalResource_calls` | 826 k | three connections, four subscriptions, two calls |
| `MemoryTree_calls` | 435 k | three saves and a removal: embeddings follow contents (`EmbeddingMatchesContent`); a save leaves what KnowledgeBase's import says, whatever runs beside it (`SaveIsImported`) |
| `Publishing_requests` | 844 k | two requests at a time about a role and two hosts, each of which may fail |
| `Accounts_logins` | 442 k | two logins and two requests, two at a time: one root actor per account (`OneAccount`), a minute of staleness and no more (`StaleForOneTTL`), the token in the row is good (`SavedTokenIsAdmitted`) |
| `Requirements_sessions` | 542 k | a conversation and a test run on one tree: orphans have a reason (`OrphansHaveReason`), test cases delete no story their writer knew (`CasesSpareStories`) |
| `Requirements_root` | violation | a root saved a second time stays deleted |
| `Design_runs` | 297 k | two designers and an architect: designs are trees (`DesignIsWhole`), and a framework is chosen for pages its design still has (`FrameworkOfItsPages`) |

Deadlock checking is off everywhere: each system rests when nobody asks anything, and
the bounds end its behaviours.

Properties that hold only under a condition carry it as a history variable, so that one
run covers both sides: `seen` (TaskContext: an entry overrode, an answer came late, a
member was created), `late` (RuleEngine: a clause answered later), `overlapped`
(ResourceQuota, Publishing), `failed` (Publishing), `alongside` (MemoryTree), `upset` (Requirements), `overlap` and
`relisted` (Design). What holds without the condition is stated without it
(`NeverOvercharged`, `HostAfterRole`, `OneAccount`, `CasesSpareStories`,
`EmbeddingMatchesContent`).

**Bounds.** `MaxRestarts` 1: a second restart starts from a state like the first. Two
attempts at one member are what the unique index tells apart; the parent is a third
actor. `MaxDepth` and `MaxEvents` of TaskContext allow a chat in a when clause
in a chat, and a created event after an init event. `MaxRules` 2 has the rule before, the
rule itself and the end of the list on both sides. `Costs` up to the allowance and
`MaxClock` 2 give two renewals, the second of a renewed row. `MaxSubscribes` 4 lets each
connection come and one come again. Publishing uses `MaxInFlight` 2 (a check and a write
of two requests), `Window` 1 and `MaxClock` 1 (before the boundary and at it) and two
texts. MemoryTree has three saves and a removal, all of which may be open at once, and six
requests chosen to meet: the same nodes in two orders, a level of two versions, two levels
at once, one id in two slots. Accounts has two logins of one account and `MaxBusy` 2: what
is at stake is between two renewals, a renewal and a fill of the cache, or two
registrations; `CacheTTL` and `RefreshIn` are equal, which the assumption allows at most, and
`MaxTime` 4 lets a token be made, saved, cached, grow old and be renewed twice. Time passes
only between calls of the database: a minute is long beside them. Requirements has one
conversation and one test run with two stories: conversations that overlap are excepted
by `OrphansHaveReason`, and one conversation after another is the same session again.
`MaxSaves` 2 and `MaxIds` 2 give every key a second id. Design has two components: one is
always a page, the other the second time it is answered, so that a page hangs below a page,
beside one or above what is none; `MaxPages` 1, so that there can be more pages than are
taken, which with ten takes eleven. One architect shares nothing with another but
the framework, of which the last stays. Symmetry is used only in runs without liveness
(requests, hosts, saves, logins, tokens, stories, designers).

**Fairness.** `ActorLifecycle`: weak fairness of the fiber of `_createActor` as a whole
(`FiberStep`: the database answers inserts and commits one way or another, and ends a
transaction after six minutes, `prisma-tx-scope.ts:40`) and of the event loop (`ListenerStep`:
events are delivered, handlers without a prompt end). Prompts are under no fairness: one in
command mode may wait for a user for ever, the HTTP calls behind tools have no time limit, and
`onCreated` may ask for another round in every round (`actor-init.listener.ts:31` has no
bound). `LifecycleSettles` therefore says that a lifecycle ends or is in a prompt of its host,
which may keep it there, and that a committed actor without such prompts becomes ready, so that
no event is lost in between; `CreationAnswered` says that an insert is answered whoever
holds its key, and a creation unless its own awaited prompt keeps it.
`RuleEngine`: every prompt answers. `UserCommand`: a resumed chain ends, in its chat or
unheard, or starts the next session; nothing obliges a user to end a session. No fairness for
users, errors, losses, commits that fail or restarts, except as one of the ways in which a
creation's fiber goes on.

## 5. Proofs

`ActorLifecycleProofs` proves, for every set of actors, tree, choice of hosts and
prompts and every number of restarts, from the assumptions named in `ActorLifecycle`
(the user is no actor, nobody is its own parent, singletons have no prompts, early
members have hosted parents and distinct names):

* `TypeCorrect`, `OneLifecycleHolds`, `ReadyAfterHooksHolds`, `ServedAfterLifecycleHolds`,
  `KeptRowWasHandledHolds`, `ReadyIsFinalHolds`, `FailedCreationIsSilentHolds`,
  `OneLifePerMemberHolds`, and `ImplementsPromiseHolds` (refinement).

The properties are not inductive: that an event is outstanding says nothing by itself
about where the creating fiber is. `IInv` adds, per actor, `Place` (what `pc` implies for
the row, the create handler and the number of create events), `Progress` (which of the
five counters can be one, with which status and history) and `EarlyMember` (a member that
was started early has a parent past its create handler, so a handler cannot start it
twice). `InTx` is about transactions: an open row is one of a transaction that is open, under
the fiber that opened it, and as long as that fiber handles, the members of an actor in it are
rows of the same transaction. `SInv` adds that a failed creation is dead and that two siblings
are never both in the index. A row that its own transaction answered is kept (`Place`), which
leaves `FailedCreationIsSilent` its three exceptions: the actor's own commit failed; its fiber
has still to find out that the transaction is gone; or the transaction was another's. Preservation is proved per group of actions (`CreateStep`,
`ListenStep`, `OtherStep`, `EarlyStep`, and for `InTx` `FrameStep`, `StartStep`, `OpenStep`), the refinement by showing that a step of one
actor leaves the life of the others alone (`OthersLive`) and takes its own along an
abstract step (`OwnLife`). `ServedAfterLifecycle` and `ReadyIsFinal` have theorems and no
run of their own: the refinement the run checks contains them (`Serve` asks for a ready
actor, and only `Crash` takes readiness away); `KeptRowWasHandled` has a theorem only.

Liveness cannot be proved with these provers, but what it rests on can. For
`LifecycleSettles`: `NothingDroppedHolds`, a committed actor of whose prompts none can fail
is ready or has exactly one event or handler under way (its chain cannot reject because
its create handler is over before its transaction ends: `NoChain`, with `EarlyMember`), and
`RoundShortensHolds`, unless `onCreated` asks for another round, whatever touches the events
of an actor brings its lifecycle nearer to its end, five steps away at most. For
`CreationAnswered`: `InsertIsAnswerableHolds`, an insert that cannot go on, is not refused and
has not lost its transaction waits for another transaction that is under way, and nobody else
shares the one it is to open, so no circle of inserts can form. What these leave to TLC is only
that fairness makes the steps happen.

`DesignProofs` proves, for every set of designers, architects and keys and every bound on
ids, from `DesignAssumption` (the design root is a key, nobody is designer and architect)
and `NoRowAssumption`:

* `TypeCorrect`, `DesignIsWholeHolds`, `FrameworkOfItsPagesHolds`, for any set of pages and
  any limit on how many are shown.

What is saved depends on what a run collected in memory and on what others have saved since
it looked, so its `IInv` has three parts. `Draft`: nothing is saved without a version, and
every walk has made sure of it. `Walk`: as long as no component was answered twice, each
parent of a collected node is the id of another. `Calm`, while designers do not overlap: at most
one works, and one that walks found an empty store (`FirstImport`, the reset being refused); no
row is deleted, so no live row means no row; an architect past its count has a design before it
(`Counted`), which nobody can import again while it works, so the pages it took are still pages
it could take (`HasRead`), and so are those of the framework (`Chosen`).

`ResourceQuotaProofs`, from `QuotaAssumption` (costs and periods are numbers, a positive
allowance), for every set of calls: `TypeCorrect`, `NeverOverchargedHolds`, `AccountedHolds`.
A call writes back what the bot left of the tokens it was given, and those may be
long out of date. They were the row's once, and the total has only grown since: what a call
has seen is never below the allowance minus the total (`SeenIsFair`), which makes
`NeverOvercharged` inductive. While calls do not overlap, `Books` says exactly what the row
holds at each of a call's awaits.

`PublishingProofs`, from `PublishingAssumption` (every host has a role; positive bounds), for
every set of roles, hosts and requests: `TypeCorrect`, `Invariance`, `HostAfterRoleHolds`,
`EmbeddedWasPublishedHolds`, `SerialPublishingHolds`. A request between its check and its
write knows less than it checked. `PInv` keeps what stays true of it whoever writes meanwhile:
the row it is about exists, and a host that is to be published has a role that was published
at some time; and of every post that is out, or has arrived, it keeps whose it is: its role
was published, a creation or an update that publishes it is under way, or one has failed
(`PostedIsPublished`). `SInv` is for requests that did not overlap: there is at most one, and what
it checked still holds.

`AccountsProofs`, from `AccountsAssumption` (a cached row lives no longer than a token before
its renewal: a minute, `jwt.strategy.ts:60`, against hours) and `NoneIsNothing`: `TypeCorrect`, `OneAccountHolds`, and the action properties
`StaleForOneTTLHolds` and `SavedTokenIsAdmittedHolds`. One account needs the ids of
registrations in flight to be nobody else's, and of those that insert one user only one at
its commit (`IdsAreTheirOwn`, `CommitsAreUnique`). For the guard, `AsReadSince` relates what it
remembers of a row to the row: it is the same, or the row was updated, and its token
replaced, no earlier than the tick it was read in; `CacheAsRead` and `FoundAsRead` say so of
the cache and of reads still in flight.

`RequirementsProofs`, from `RequirementsAssumption` (stories, cases and the root have keys of
their own, nobody is analyst and tester), `NoneAssumption`, `NoRowAssumption` and
`TopAssumption`: `TypeCorrect`, the action property `CasesSpareStoriesHolds`, and
`OrphansHaveReasonHolds`. A tester writes long after it read. What saves the stories is that a
key's ids only grow (`SeenIsOld`): a live story with an id the tester has seen is unchanged,
and was not below a leaf then (`SeenIsNotBelowLeaves`). Orphans have a reason because, as long
as nothing upset the tree, one session works on it, the tree is whole and what that session has read is
still so (`Calm`).

`MemoryTreeProofs`, from `CallAssumption` (a call is a save or a removal), `RequestAssumption`
(the shape of requests) and `NoRowAssumption`: `TypeCorrect`, `EmbeddingMatchesContentHolds`,
and the action properties `SaveClearsLevelsHolds`, `DeletedIsFinalHolds`,
`SaveIsImportedHolds` and `SerialSaveIsImportedHolds`. What a transaction has upserted stays locked by
it (`UpsertedIsLocked`), so a live draft is the work of one save, and once its vectors are in
it has the embedding of its content (`DraftIsOfItsSave`). The levels are cleared
statement by statement: a parent still has its statement, or whatever is live below it is the
save's own or of a call alongside (`LevelsToClear`); while a statement runs, the rest is among
the rows it has found (`RunningStatement`); and a commit can only show to an open save what a
call alongside it wrote (`OpenTogether`). That every parent gets a statement
(`ParentsHaveStatements`) rests on the library's well-ordering of the numbers.

`SaveIsImported` is what ties the two levels together: slot by slot, a committed save leaves
what `KB!Imported` gives for its nodes and their parents, but for nodes of its levels that
were written by saves open while it was; `SerialSaveIsImportedHolds` says that without such
saves it is the import exactly, which is what Requirements and Design assume of a keeper. Its
invariant `DInv` adds to the one above (`LInv`) what a draft may say of each slot
(`Drafted`): of nodes that are not its own a save only writes that they are deleted
(`OthersAreStruck`) and only on its levels (`OnItsLevels`), a deleted row stays deleted
whoever writes it (`OwnStayDeleted`, from which `DeletedIsFinalHolds` follows), of a node
listed twice the last one counts (`LatestIsWritten`), and a save that deletes is in one of its
statements (`RunsAStatement`).

`PromptProofs` has the four modules a prompt goes through. It extends `TaskContext` and
proves, from `FiberAssumption` and `KindAssumption`, `TypeCorrect`, `ContextIsLexicalHolds` and
`ContextlessForgetsHolds`, for any number of fibers and any depth: as long as nothing
answers late, overrides or creates, only the main fiber runs and the one slot behaves as a
stack (`OnlyMain`, `Lexical`); and a request to be forgotten has nothing to restore the longrun
scope from (`Forgets`). The others are named instances, whose theorems are stated with their
prefix: `RuleTypeCorrect` and `RulesInOrderHolds` (from `Rules!RuleAssumption` and
`Rules!EndAssumption`, for every list of rules: what was begun is a prefix of the list, the
next rule at most one past it, and the branch taken that of the rule handled last: `RInv`);
`CommandTypeCorrect` and `EndAnsweredByItsSessionHolds` (from `Commands!NoneAssumption`:
whom a session resolves waits, and for that session: `ResolvesItsCall`); `ClientTypeCorrect`
and `NewestListensHolds` (each turn is given once: `EachTurnOnce`). An instance brings no
assumption with it, hence the hypotheses; they are the ASSUMEs of the modules, which their
runs evaluate.

Two theorems there are about the liveness of rules and command mode. `RunShortens`: as long as
no clause answers later, every step of a run without loops lowers `StepsLeft`, which is at
most 6 * Len(rules) + 5, so that `RunEnds` needs of fairness only that a step is taken.
`WaitingIsHeldHolds`: a session is listed once, and as long as an end call waits, the session
it took holds that call as its resolver, and its chain runs or has ended unheard; no later end
call can take its place, so `EndIsAnswered` needs only that the resumed chain ends, and the
call is left waiting only if that chain ends unheard.

TLC finds each of these inductive invariants true of all states of its module's run, so none
is proved from hypotheses that no state satisfies.

Only model-checked: all liveness (`LifecycleSettles`, `CreationAnswered`, `RunEnds`,
`EndIsAnswered`), which is out of the prover's reach. Every invariant and every action property
of a passing run has a theorem. Singletons and actors without a host are in the proofs;
the run has none.

## 6. Where code and documentation disagree

Shown by a run that ends in a violation (`Requirements_root`): `prisma/appdiy/ba-role.seed
.ts:245` "save new root prd". The root is removed and imported again under the same key;
importing updates the deleted row and leaves it deleted (`Imported`), so the second root a
knowledge base gets, and the stories saved below it, are found by no query.

Stated in the modules as properties that do not hold; no run checks them:

* `prompts.service.ts:198` "when clause always contextless" (`WhenIsContextless` of
  TaskContext): `chatEntry` does not await `chatEntry1` in its `try`, so its `finally`
  (`chats.service.ts:118-122`) makes the caller's longrun scope current while the prompt of an
  overriding entry is being processed. That prompt captured the request scope, so
  `doRuleWhenMatches` (`:197`) sees a contextless task, switches nothing, and processes the
  clause in the longrun scope.
* `user-command.tool.ts:19` "into an **actor's** ctx" (`EndsOwnSession` of UserCommand): the
  process has one list (`:37`), and an end call ends whichever session was put last (`:74`).
* `hosts/listeners/role-unpublished.listener.ts:19` "Cannot unpublish the role with published
  hosts" (`PublishedHostHasPublishedRole` of Publishing): the listener reads the hosts in the
  role's transaction, `hosts.service.ts:38-44` reads the role before the host's; with both
  reads before both writes a published host is left with an unpublished role.
* `user-command.tool.ts:85` "get/return final result of the promise chain here"
  (`EndReturnsResult` of UserCommand): only `_response` of the chat that owns a chain calls
  `resolve` (`chats.service.ts:141-168`). A chain that ends elsewhere, as a lifecycle prompt's,
  or in a script without a callback, an iterator's item or a when clause, leaves the end call
  waiting for ever.
* `role-published.listener.ts:10` "generate/remove vdb embedding for publishing role"
  (`EmbeddedIsPublished` of Publishing): nothing removes an embedding (`:21`), and the post
  leaves before `prisma.role.update` (`roles.service.ts:60-73`), which the database may refuse
  (a `help` longer than its column, `prisma/schema.prisma:60`, is validated nowhere) or the
  transaction outlast. `EmbeddedWasPublished` says what is left of it.
* `prisma/schema.prisma:86` "no new actor for the deleted role" (`NoActorOfDeletedRole` of
  Publishing): `createMember` copies role and host from the team's member list and
  `_createActor` looks at neither.
* `prisma/appdiy/ui-designer-role.seed.ts:80` "existing draft will all be cleared", `:46` "reset
  and generate" (`DraftIsCleared` of Design): the reset is a statement Postgres refuses
  (`memory.service.ts:350`), so a design is made once and never again (`Reset`).

Met while modelling and excepted by name in the properties, so that the rest could be
stated:

* `actors.service.ts:135` "create event must handled sync": so that the row is kept only if the
  event was handled. `actor.init` is emitted in it and handled on its own, so an actor whose
  commit fails, or a member created by its parent's `onCreate` (`actor.tool.ts:64-83`), whose
  insert joins the parent's transaction (`prisma-tx-scope.ts:25-26`) and rolls back with it,
  goes through its lifecycle without a row (`FailedCreationIsSilent`). An error of such a
  member's own `onCreate` is answered by the tool, and its row is kept (`KeptRowWasHandled`,
  which says it of an actor's own transaction).
* `actor-init.listener.ts:31` "TODO check eventCtx.initCnt": nothing bounds the rounds, so a host
  whose `onCreated` always answers something keeps its actor in its lifecycle
  (`LifecycleSettles`).
* `hosts/vo/host-member.ts:52` "actor created only on first call": a soft-deleted member
  keeps its key (`infras/repos/repos.module.ts:17-31`, `prisma/schema.prisma:202`) and is
  never created again (`KeyFree`, `InsertConflict`).
* `roles/vo/chat-entry.ts:28` the entry's control of contextual chat ends as soon as the
  chat has begun (`chats.service.ts:117-121`): later prompts of it run in the caller's
  scope (`ContextIsLexical` asks for no override).
* `chats.controller.ts:72` "Actor forgets what just chatted": a contextless request that
  creates a member on demand goes on in the longrun scope (`ContextlessForgets`).
* `hosts/vo/chat-prompt.ts:59` "result containing word `ErrorHandle` will match
  statusCode!=0 request": `prompts.service.ts:213-218` gives up when the evaluated clause
  has a status, and `:224` asks for that very status; no such clause ever matches
  (`SemanticMatch`).
* `memory.service.ts:197` and `:213` "delete all sub-nodes and nodes": nothing below the
  listed nodes is deleted. `:226` passes objects where ids are expected and pushes promises
  to a list `Promise.all` has already read; if there are nodes below, the rejection is
  unhandled and the process ends (`RemoveNodes`, `Crash`).
* `memory.tool.ts:11` "versioned tree-node memory": `memory.service.ts:159-165` clears a level
  whatever the version and domain of its rows, so saving the roots of one version deletes
  the roots of every other (`Doomed`). Two saves of one level that overlap do not see each
  other's new nodes, and both remain (`alongside`). A node saved under a key that was
  removed stays deleted (`Upserted`), and one saved again without its id gets a new one,
  which its sub-nodes do not know (`Upsert`).
* `matchNodes` looks for roots by `parent_id is null` (`memory.service.ts:293`), which no root
  has (`:126`); `resetVersion` is no statement Postgres accepts (`:350`).
* `hosts/vo/chat-prompt.ts:104` "following rules will be went through": after a clause
  that answers later its rule is begun once more, because a chain resumes at the index
  it left (`RulesInOrder`, `RunEnds`).
* `user-command.tool.ts:23` and `:36` say FIFO; `:70` and `:74` take the newest.
* the repository's `README.md:64` promises a daily amount of tokens, and `quotas.service.ts:31` "reset quota if
  necessary": calls that overlap write over each other's usage, and a second renewal
  gives back what the first has used (`Accounted`).
* `user-created.listener.ts:21` "add resource quota to newly registered user": `:38` takes
  `json[1]` of an object, the insert is refused and nobody hears of it (`UserCreated`).
* `sses.service.ts:31` "allow only one listener": two subscriptions that overlap leave
  two; `:44` "false means client not online": a user whose stream is being opened is
  offline, one whose stream broke unnoticed is online.
* `roles.controller.ts:60` 36 hours count from the last update (`roles.service.ts:54`).
  An update without `published` is taken for unpublishing and refused when the role has
  a published host (`roles.service.ts:59`).
* the text that is sent to the VDB is the one before the update that publishes it
  (`roles.service.ts:60-66`).
* the repository's `README.md:136` says tokens are refreshed automatically: of two requests that
  renew one token each client is given a token of its own and the row keeps the one saved
  last (`Renew`, `SaveToken`); the other is refused once it is old. A token whose save a
  restart loses is refused just so.
* a login resets the user's own `resConfigs` (`oauth-access-token.listener.ts:49`,
  `UpdateByUsername`), and fails for ever once the root actor was removed
  (`AnswerLogin`, `:70` reads a column of null).
* `prisma/appdiy/ba-role.seed.ts:262` clears what is below a node before it saves: if there is
  anything below, the process ends (see `memory.service.ts:226` above), so no story is ever
  broken twice (`EndsProcess`, `Crash`).
* `prisma/appdiy/bdd-role.seed.ts:9` "different stories may have the same case": a case is saved
  once for each of its stories under one key, and hangs below the last (`SaveCases`). Test
  cases are saved under keys that start over, so a second run of a shorter list leaves old
  ones; `:178-188` asks until all features are named, and for ever once an answer was an
  error (`Spin`).
* `toolbox/plugins/builtin/iterator.tool.ts:54`: an item that answers later ends the iteration,
  and the results collected so far are returned as if they were all.
* `infras/repos/namespaced-storage.service.ts:53`: scope ids start again after a restart while
  `ctxId` stays in the rows, so two actor trees may share a scope. `scoped-storage.service.ts:302-307`
  lets only the first to open a space of variables register it: if two open one at once it may
  stay unregistered and outlive its scope.

## 7. Not modelled

Components with status `not_modelled` in `PROJECT.json`, with the reason. Within the
modelled ones: the content of prompts and answers, template interpolation, JSON schemas
and the wording of errors; versions of a memory as rows of their own, of which nodes only carry
the id and scripts only ask whether there is one; the keeper's `ask`, which drills down with a
model and writes nothing; PATCH of an actor's descriptive columns; the transaction scope
itself, of which the modules take commit, roll back, isolation and, in ActorLifecycle, which
transaction a call joins. An early member's insert comes after `createToken` was awaited
(`actors.service.ts:115-117`); by then the function of its parent's own transaction has
returned and `prisma-tx-scope.ts:35-37` has reset the key, so it opens one of its own, unless
that of its parent is another's (`EarlyTx`). A path `@m@g` is taken as the member `m` asking
for `g`. Larger trees, three attempts at one member and a member below a member, were checked
apart from the runs and without the temporal properties. The process's end on an unhandled
rejection is `Restart` in
ActorLifecycle, `ChainThrows` in UserCommand and `Crash` in MemoryTree and Requirements. Not modelled
either: actors other than root ones in Accounts (they have no tokens of their own to log in with); the roles
ddd, bff and designer, which nothing seeds.

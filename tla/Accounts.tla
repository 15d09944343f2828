------------------------------ MODULE Accounts ------------------------------
(***************************************************************************)
(* Who is who: users, their root actors and the tokens that stand for them *)
(* (src/src/infras/auth, src/src/users and the token and root-actor parts  *)
(* of actors/actors.service.ts).                                           *)
(*                                                                         *)
(* A login looks its user up, updates it or registers it with a root actor *)
(* in one transaction, and answers with the token in the actor's row.  The *)
(* guard of every other request reads the actor through a cache, admits a  *)
(* young token for its signature alone, and renews an old one that equals  *)
(* the saved token; the new token is saved later, by an event nobody waits *)
(* for (FIXME at auth.service.ts:84).                                      *)
(*                                                                         *)
(* A tick is long beside a call of the database: none spans a tick.        *)
(***************************************************************************)
EXTENDS Integers, FiniteSets

CONSTANTS
    Users,      \* accounts of the OAuth provider
    Actors,     \* ids of root actors: one per registration that may commit
    Logins,     \* OAuth callbacks in flight
    Requests,   \* guarded requests in flight
    None,
    Millis,     \* instants of a tick, as far as tokens differ by them
    CacheTTL,   \* the 60 seconds an actor is cached, in ticks
    RefreshIn,  \* JWT_REFRESH_EXPIRES_IN, in ticks
    MaxTime,    \* bound on the ticks
    MaxBusy     \* how many logins and requests are in flight at a time, their saves included

ASSUME AccountsAssumption ==
    /\ CacheTTL \in Nat
    /\ RefreshIn \in Nat
    /\ MaxTime \in Nat
    /\ MaxBusy \in Nat \ {0}
    /\ CacheTTL <= RefreshIn  \* a minute against hours or, in .env.dev, years

VARIABLES
    now,
    user,      \* committed user rows: the id, which is the root actor's, and resConfigs
    actor,     \* committed root actors: the saved token, deleted, and the last update
    login,     \* a login: its step, its user, the user it has found or inserts
    pc,        \* a guarded request: idle, reading, filling, admitted, refused
    token,     \* the token it carries
    found,     \* the saved token it read, on its way into the cache; None of a removed actor
    cache,     \* '_USER_' + id -> the actor's token as read, and until when
    save,      \* the AuthUpdateTokenEvent of a request, not handled yet
    issued     \* tokens that were handed out

vars == <<now, user, actor, login, pc, token, found, cache, save, issued>>
guard == <<pc, token, found, cache, save>>

-----------------------------------------------------------------------------
(* What a token says: whose it is and when it was made, to the millisecond. *)

Stamp == [at : 0..MaxTime, ms : Millis]
Token == [id : Actors, ts : Stamp]

Fresh(ts) == ts \in Stamp /\ ts.at = now
Expired(t) == now - t.ts.at > RefreshIn

ActorRow == [saved : Stamp, deleted : BOOLEAN, updated : 0..MaxTime]
UserRow == [id : Actors, configs : {"platform", "own"}]
Cached == [saved : Stamp, until : 0..MaxTime + CacheTTL]
\* _formalResConfigs: the configs given, and those of the platform's own models.
FormalResConfigs(given) == IF given = "none" THEN "platform" ELSE "own"

\* A null is no row, no token, no id.
ASSUME NoneIsNothing ==
    /\ None \notin Users /\ None \notin Actors
    /\ None \notin Stamp /\ None \notin Token
    /\ None \notin UserRow /\ None \notin ActorRow /\ None \notin Cached

Idle == [at |-> "idle", user |-> None, id |-> None, ts |-> None]

TypeOK ==
    /\ now \in 0..MaxTime
    /\ user \in [Users -> UserRow \union {None}]
    /\ actor \in [Actors -> ActorRow \union {None}]
    /\ login \in [Logins -> [at : {"idle", "find", "update", "exists", "root", "insert",
                                   "commit", "answer"},
                             user : Users \union {None}, id : Actors \union {None},
                             ts : Stamp \union {None}]]
    /\ pc \in [Requests -> {"idle", "reading", "filling", "admitted", "refused"}]
    /\ token \in [Requests -> Token \union {None}]
    /\ found \in [Requests -> Stamp \union {None}]
    /\ cache \in [Actors -> Cached \union {None}]
    /\ save \in [Requests -> Token \union {None}]
    /\ issued \subseteq Token

Init ==
    /\ now = 0
    /\ user = [u \in Users |-> None]
    /\ actor = [a \in Actors |-> None]
    /\ login = [l \in Logins |-> Idle]
    /\ pc = [r \in Requests |-> "idle"]
    /\ token = [r \in Requests |-> None]
    /\ found = [r \in Requests |-> None]
    /\ cache = [a \in Actors |-> None]
    /\ save = [r \in Requests |-> None]
    /\ issued = {}

BusyLogins == {l \in Logins : login[l] # Idle}
BusyRequests == {r \in Requests : pc[r] # "idle" \/ save[r] # None}
Busy == Cardinality(BusyLogins) + Cardinality(BusyRequests)

-----------------------------------------------------------------------------
(* Logins. *)

StepLogin(l, from, to) ==
    /\ login[l].at = from
    /\ login' = [login EXCEPT ![l].at = to]

\* The provider vouched for u; what fails before (state, code, provider) changes nothing.
OAuthCallback(l, u) ==
    /\ login[l] = Idle /\ Busy < MaxBusy
    /\ login' = [login EXCEPT ![l] = [Idle EXCEPT !.at = "find", !.user = u]]
    /\ UNCHANGED <<now, user, actor, guard, issued>>

FindByUsername(l) ==
    /\ StepLogin(l, "find", IF user[login[l].user] = None THEN "exists" ELSE "update")
    /\ UNCHANGED <<now, user, actor, guard, issued>>

\* A login resets the user's own resource configs: `resConfigs: []` plus the platform's.
UpdateByUsername(l) ==
    LET u == login[l].user IN
    /\ login[l].at = "update"
    /\ user' = [user EXCEPT ![u].configs = FormalResConfigs("none")]
    /\ login' = [login EXCEPT ![l].at = "answer", ![l].id = user[u].id]
    /\ UNCHANGED <<now, actor, guard, issued>>

\* registerUserActor: looked up again inside the transaction; 409 when it is there.
CheckExists(l) ==
    /\ login[l].at = "exists"
    /\ login' = [login EXCEPT ![l] = IF user[@.user] = None THEN [@ EXCEPT !.at = "root"]
                                    ELSE Idle]
    /\ UNCHANGED <<now, user, actor, guard, issued>>

\* Ids of root actors whose rows a transaction holds or has committed.
TakenIds == {a \in Actors : actor[a] # None} \union {login[l].id : l \in Logins}

\* Faulty variant: the row is inserted without its token.
CreateRootTokenless(l, a, ts) ==
    /\ login[l].at = "root"
    /\ a \in Actors \ TakenIds
    /\ Fresh(ts)
    /\ login' = [login EXCEPT ![l].at = "insert", ![l].id = a]
    /\ UNCHANGED <<now, user, actor, guard, issued>>

\* $create(_, isRoot): the row, with its token, is the transaction's own until the commit.
CreateRoot(l, a, ts) ==
    /\ login[l].at = "root"
    /\ a \in Actors \ TakenIds
    /\ Fresh(ts)
    /\ login' = [login EXCEPT ![l].at = "insert", ![l].id = a, ![l].ts = ts]
    /\ UNCHANGED <<now, user, actor, guard, issued>>

\* @@unique([realm, usernameLower]): an insert waits for the other's transaction.
HeldByOther(l) ==
    \E k \in Logins \ {l} : login[k].at = "commit" /\ login[k].user = login[l].user

Insert(l) ==
    login' = [login EXCEPT ![l] = IF user[@.user] = None THEN [@ EXCEPT !.at = "commit"]
                                  ELSE Idle]

\* Faulty variant: the conflict leaves the root actor behind.
CreateUserKeepsActor(l) ==
    /\ login[l].at = "insert" /\ ~HeldByOther(l)
    /\ Insert(l)
    /\ actor' = IF user[login[l].user] = None THEN actor
                ELSE [actor EXCEPT ![login[l].id] =
                        [saved |-> login[l].ts, deleted |-> FALSE, updated |-> now]]
    /\ UNCHANGED <<now, user, guard, issued>>

\* On a conflict the transaction is rolled back, the root actor with it.
CreateUser(l) ==
    /\ login[l].at = "insert" /\ ~HeldByOther(l)
    /\ Insert(l)
    /\ UNCHANGED <<now, user, actor, guard, issued>>

\* The two rows appear together, or neither does.
CommitRegistration(l) ==
    LET me == login[l] IN
    /\ StepLogin(l, "commit", "answer")
    /\ user' = [user EXCEPT ![me.user] = [id |-> me.id, configs |-> FormalResConfigs("none")]]
    /\ actor' = [actor EXCEPT ![me.id] =
                    [saved |-> me.ts, deleted |-> FALSE, updated |-> now]]
    /\ UNCHANGED <<now, guard, issued>>

\* A create listener or the connection fails: the transaction is rolled back.
RegistrationFails(l) ==
    /\ login[l].at \in {"root", "insert", "commit"}
    /\ login' = [login EXCEPT ![l] = Idle]
    /\ UNCHANGED <<now, user, actor, guard, issued>>

\* The answer carries the token of the actor's row; a removed root actor is null: 500.
AnswerLogin(l) ==
    LET a == login[l].id IN
    /\ login[l].at = "answer"
    /\ issued' = IF actor[a].deleted THEN issued
                 ELSE issued \union {[id |-> a, ts |-> actor[a].saved]}
    /\ login' = [login EXCEPT ![l] = Idle]
    /\ UNCHANGED <<now, user, actor, guard>>

-----------------------------------------------------------------------------
(* The guard. *)

\* Faulty variant: cached for good.
CachedForever(a) == cache[a] # None

HasCached(a) == cache[a] # None /\ now < cache[a].until

\* Faulty variant: an old token is renewed without a look at the saved one.
NoComparison(t, saved) == TRUE

\* validateToken
IsSaved(t, saved) == saved = t.ts

Refuse(r) ==
    /\ pc' = [pc EXCEPT ![r] = "refused"]
    /\ UNCHANGED <<save, issued>>

\* createToken: into the response header now, into the row by an event.
Renew(r, t) ==
    \E ts \in Stamp :
        /\ Fresh(ts)
        /\ save' = [save EXCEPT ![r] = [id |-> t.id, ts |-> ts]]
        /\ issued' = issued \union {[id |-> t.id, ts |-> ts]}

\* canActivate on the actor found, by its saved token: of null it throws, a refusal.
Decide(r, t, saved) ==
    \/ saved = None /\ Refuse(r)
    \/ saved # None /\ Expired(t) /\ ~IsSaved(t, saved) /\ Refuse(r)
    \/ /\ saved # None /\ (Expired(t) => IsSaved(t, saved))
       /\ pc' = [pc EXCEPT ![r] = "admitted"]
       /\ IF Expired(t) THEN Renew(r, t) ELSE UNCHANGED <<save, issued>>

\* A request with a signed token; fineUser judges it by the cached actor if there is one.
Request(r, t) ==
    /\ r \notin BusyRequests /\ Busy < MaxBusy
    /\ t \in issued
    /\ token' = [token EXCEPT ![r] = t]
    /\ IF HasCached(t.id)
       THEN Decide(r, t, cache[t.id].saved)
       ELSE pc' = [pc EXCEPT ![r] = "reading"] /\ UNCHANGED <<save, issued>>
    /\ UNCHANGED <<now, user, actor, login, found, cache>>

\* The database answers; the rest of fineUser runs when the answer is back.
ReadActor(r) ==
    LET row == actor[token[r].id] IN
    /\ pc[r] = "reading"
    /\ found' = [found EXCEPT ![r] = IF row.deleted THEN None ELSE row.saved]
    /\ pc' = [pc EXCEPT ![r] = "filling"]
    /\ UNCHANGED <<now, user, actor, login, token, cache, save, issued>>

\* A cached null reads as no entry.
FillCache(r) ==
    /\ pc[r] = "filling"
    /\ cache' = [cache EXCEPT ![token[r].id] =
                    IF found[r] = None THEN None
                    ELSE [saved |-> found[r], until |-> now + CacheTTL]]
    /\ Decide(r, token[r], found[r])
    /\ found' = [found EXCEPT ![r] = None]
    /\ UNCHANGED <<now, user, actor, login, token>>

\* AuthUpdateTokenListener: in any order among requests, and of a removed actor too.
SaveToken(r) ==
    /\ save[r] # None
    /\ actor' = [actor EXCEPT ![save[r].id].saved = save[r].ts, ![save[r].id].updated = now]
    /\ save' = [save EXCEPT ![r] = None]
    /\ UNCHANGED <<now, user, login, pc, token, found, cache, issued>>

Done(r) ==
    /\ pc' = [pc EXCEPT ![r] = "idle"]
    /\ token' = [token EXCEPT ![r] = None]
    /\ UNCHANGED <<now, login, found, cache, save, issued>>

\* Any other handler of an admitted request, or the answer to a refused one.
Answer(r) ==
    /\ pc[r] \in {"admitted", "refused"}
    /\ Done(r)
    /\ UNCHANGED <<user, actor>>

\* PATCH /users: $updateCurrentUser of the user with the actor's id.
UpdateCurrentUser(r) ==
    /\ pc[r] = "admitted"
    /\ \E u \in Users :
         /\ user[u] # None /\ user[u].id = token[r].id
         /\ user' = [user EXCEPT ![u].configs = FormalResConfigs("own")]
    /\ Done(r)
    /\ UNCHANGED actor

\* DELETE of the root actor itself, which its owner created: soft, and it has no way back.
RemoveRoot(r) ==
    LET a == token[r].id IN
    /\ pc[r] = "admitted"
    /\ actor' = IF actor[a].deleted THEN actor
                ELSE [actor EXCEPT ![a].deleted = TRUE, ![a].updated = now]
    /\ Done(r)
    /\ UNCHANGED user

-----------------------------------------------------------------------------
(* Time and failure. *)

Tick ==
    /\ now < MaxTime
    /\ Busy = 0
    /\ now' = now + 1
    /\ UNCHANGED <<user, actor, login, guard, issued>>

\* The cache, what is in flight and the tokens not saved yet are the process's own.
Restart ==
    /\ login' = [l \in Logins |-> Idle]
    /\ pc' = [r \in Requests |-> "idle"]
    /\ token' = [r \in Requests |-> None]
    /\ found' = [r \in Requests |-> None]
    /\ cache' = [a \in Actors |-> None]
    /\ save' = [r \in Requests |-> None]
    /\ UNCHANGED <<now, user, actor, issued>>

LoginStep(l) ==
    \/ \E u \in Users : OAuthCallback(l, u)
    \/ FindByUsername(l)
    \/ UpdateByUsername(l)
    \/ CheckExists(l)
    \/ \E a \in Actors, ts \in Stamp : CreateRoot(l, a, ts)
    \/ CreateUser(l)
    \/ CommitRegistration(l)
    \/ RegistrationFails(l)
    \/ AnswerLogin(l)

RequestStep(r) ==
    \/ \E t \in issued : Request(r, t)
    \/ ReadActor(r)
    \/ FillCache(r)
    \/ SaveToken(r)
    \/ Answer(r)
    \/ UpdateCurrentUser(r)
    \/ RemoveRoot(r)

Next ==
    \/ \E l \in Logins : LoginStep(l)
    \/ \E r \in Requests : RequestStep(r)
    \/ Tick
    \/ Restart

Spec == Init /\ [][Next]_vars

-----------------------------------------------------------------------------
(* Properties. *)

\* users.service.ts:84-100: two first logins of one account race, and the one that loses
\* takes its root actor back.  Every root actor is one user's, no user shares its actor.
OneAccount ==
    \A a \in Actors : actor[a] # None =>
        Cardinality({u \in Users : user[u] # None /\ user[u].id = a}) = 1

\* jwt.strategy.ts:57: the guard may go by a row that is no longer there, of an actor
\* removed since or a token replaced since, but never longer than the cache keeps it.
Outdated(t) == now - actor[t.id].updated > CacheTTL

StaleForOneTTL ==
    [][\A r \in Requests : LET t == token'[r] IN
         pc[r] # "admitted" /\ pc'[r] = "admitted" /\ Outdated(t) =>
            /\ ~actor[t.id].deleted
            /\ Expired(t) => actor[t.id].saved = t.ts]_vars

\* auth.service.ts:71-92, jwt.guard.ts:30-40: who carries the token in the row, as a login
\* hands it out, is let in whatever the cache remembers: a token becomes old only after the
\* rows that did not have it yet have left the cache.
SavedTokenIsAdmitted ==
    [][\A r \in Requests : LET t == token'[r] IN
         pc[r] # "refused" /\ pc'[r] = "refused" =>
            actor[t.id].deleted \/ actor[t.id].saved # t.ts]_vars
=============================================================================

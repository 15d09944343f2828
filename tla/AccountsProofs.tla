--------------------------- MODULE AccountsProofs ---------------------------
(***************************************************************************)
(* Proofs about Accounts for every set of users, ids, logins and requests, *)
(* any number of them in flight and any lifetime of tokens and of cached   *)
(* actors, as long as a cached actor is gone before a token is old.        *)
(***************************************************************************)
EXTENDS Accounts, FiniteSetTheorems, TLAPS

Steps == {"idle", "find", "update", "exists", "root", "insert", "commit", "answer"}
LoginRow == [at : Steps, user : Users \union {None}, id : Actors \union {None},
             ts : Stamp \union {None}]

HasRow(a) == a \in Actors /\ actor[a] # None

-----------------------------------------------------------------------------
(***************************************************************************)
(* Types.  A login has the user, the id and the token its step needs, and  *)
(* whatever names a root actor after the commit names one that has a row.  *)
(***************************************************************************)
LoginHasWhatItNeeds ==
    \A l \in Logins : LET me == login[l] IN
        /\ me.at # "idle" => me.user \in Users
        /\ me.at = "update" => user[me.user] # None
        /\ me.at \in {"insert", "commit"} => me.id \in Actors /\ me.ts \in Stamp
        /\ me.at = "answer" => HasRow(me.id)

TokensHaveRows ==
    /\ \A t \in issued : HasRow(t.id)
    /\ \A r \in Requests : pc[r] # "idle" => token[r] # None /\ HasRow(token[r].id)
    /\ \A r \in Requests : save[r] # None => HasRow(save[r].id)

UsersHaveRows == \A u \in Users : user[u] # None => HasRow(user[u].id)

TInv == TypeOK /\ LoginHasWhatItNeeds /\ TokensHaveRows /\ UsersHaveRows

-----------------------------------------------------------------------------
(***************************************************************************)
(* One account, one root actor.  The id a registration inserts is nobody   *)
(* else's, committed or in flight; and the unique index has only one of    *)
(* those that insert the same user get to its commit, while the user has   *)
(* no row.                                                                 *)
(***************************************************************************)
Inserting == {l \in Logins : login[l].at \in {"insert", "commit"}}

IdsAreTheirOwn ==
    /\ \A l \in Inserting : actor[login[l].id] = None
    /\ \A k, l \in Inserting : login[k].id = login[l].id => k = l

CommitsAreUnique ==
    /\ \A l \in Logins : login[l].at = "commit" => user[login[l].user] = None
    /\ \A k, l \in Logins :
          login[k].at = "commit" /\ login[l].at = "commit" /\ login[k].user = login[l].user => k = l

OneUserEach ==
    /\ \A a \in Actors : actor[a] # None => \E u \in Users : user[u] # None /\ user[u].id = a
    /\ \A u, v \in Users :
          user[u] # None /\ user[v] # None /\ user[u].id = user[v].id => u = v

AInv == TInv /\ IdsAreTheirOwn /\ CommitsAreUnique /\ OneUserEach

-----------------------------------------------------------------------------
(***************************************************************************)
(* What the guard remembers of a row, read at a tick `since': it is the    *)
(* row as it is, or the row has been updated, and its token replaced, no   *)
(* earlier than that tick.                                                 *)
(***************************************************************************)
AsReadSince(a, saved, since) ==
    /\ actor[a].updated >= since \/ (saved = actor[a].saved /\ ~actor[a].deleted)
    /\ actor[a].saved.at >= since \/ saved = actor[a].saved

CacheAsRead ==
    \A a \in Actors : cache[a] # None =>
        /\ HasRow(a)
        /\ cache[a].until - CacheTTL <= now
        /\ AsReadSince(a, cache[a].saved, cache[a].until - CacheTTL)

FoundAsRead ==
    \A r \in Requests : pc[r] = "filling" =>
        IF found[r] = None THEN actor[token[r].id].deleted
                           ELSE AsReadSince(token[r].id, found[r], now)

SavesAreNew == \A r \in Requests : save[r] # None => save[r].ts.at = now

Few == IsFiniteSet(BusyLogins) /\ IsFiniteSet(BusyRequests)

GInv == AInv /\ Few /\ CacheAsRead /\ FoundAsRead /\ SavesAreNew

-----------------------------------------------------------------------------
(* What a step does to the login, user or root actor it changes. *)

LEMMA ConfigsUpdated ==
  ASSUME NEW row \in UserRow, NEW configs \in {"platform", "own"}
  PROVE  LET new == [row EXCEPT !.configs = configs] IN new \in UserRow /\ new.id = row.id
BY DEF UserRow

LEMMA TokenSaved ==
  ASSUME NEW row \in ActorRow, NEW ts \in Stamp, NEW t \in 0..MaxTime
  PROVE  LET new == [row EXCEPT !.saved = ts, !.updated = t] IN
         new \in ActorRow /\ new.saved = ts /\ new.updated = t /\ new.deleted = row.deleted
BY DEF ActorRow

LEMMA RootRemoved ==
  ASSUME NEW row \in ActorRow, NEW t \in 0..MaxTime
  PROVE  LET new == [row EXCEPT !.deleted = TRUE, !.updated = t] IN
         new \in ActorRow /\ new.saved = row.saved /\ new.updated = t /\ new.deleted
BY DEF ActorRow

Becomes(l, at, u, id, ts) ==
    /\ login' \in [Logins -> LoginRow]
    /\ login'[l].at = at /\ login'[l].user = u /\ login'[l].id = id /\ login'[l].ts = ts
    /\ \A k \in Logins \ {l} : login'[k] = login[k]

LEMMA LoginTypes == TypeOK => login \in [Logins -> LoginRow]
BY DEF TypeOK, LoginRow, Steps

LEMMA Reset ==
  ASSUME TypeOK, NEW l \in Logins, login' = [login EXCEPT ![l] = Idle]
  PROVE  Becomes(l, "idle", None, None, None)
<1>1. Idle \in LoginRow
  BY DEF Idle, LoginRow, Steps
<1> QED
  BY <1>1, LoginTypes DEF Becomes, Idle

LEMMA Moved ==
  ASSUME TypeOK, NEW l \in Logins, NEW to \in Steps, login' = [login EXCEPT ![l].at = to]
  PROVE  Becomes(l, to, login[l].user, login[l].id, login[l].ts)
<1>1. login[l] \in LoginRow /\ login' \in [Logins -> LoginRow]
  BY LoginTypes DEF LoginRow
<1>2. login'[l] = [login[l] EXCEPT !.at = to]
  BY LoginTypes
<1>3. LET new == [login[l] EXCEPT !.at = to] IN
      new.at = to /\ new.user = login[l].user /\ new.id = login[l].id /\ new.ts = login[l].ts
  BY <1>1 DEF LoginRow
<1>4. \A k \in Logins \ {l} : login'[k] = login[k]
  BY LoginTypes
<1> QED
  BY <1>1, <1>2, <1>3, <1>4 DEF Becomes

LEMMA Called ==
  ASSUME TypeOK, NEW l \in Logins, NEW u \in Users, OAuthCallback(l, u)
  PROVE  Becomes(l, "find", u, None, None)
<1> DEFINE new == [Idle EXCEPT !.at = "find", !.user = u]
<1>1. Idle \in LoginRow /\ Idle.id = None /\ Idle.ts = None
  BY DEF Idle, LoginRow, Steps
<1>2. /\ new \in LoginRow
      /\ new.at = "find" /\ new.user = u /\ new.id = None /\ new.ts = None
  BY <1>1 DEF LoginRow, Steps
<1>3. login' = [login EXCEPT ![l] = new]
  BY DEF OAuthCallback
<1> HIDE DEF new
<1> QED
  BY <1>1, <1>2, <1>3, LoginTypes DEF Becomes

LEMMA RootCreated ==
  ASSUME TypeOK, NEW l \in Logins, NEW a \in Actors, NEW ts \in Stamp, CreateRoot(l, a, ts)
  PROVE  Becomes(l, "insert", login[l].user, a, ts)
<1>1. login[l] \in LoginRow
  BY LoginTypes
<1>2. LET new == [login[l] EXCEPT !.at = "insert", !.id = a, !.ts = ts] IN
      /\ new \in LoginRow /\ new.at = "insert" /\ new.user = login[l].user
      /\ new.id = a /\ new.ts = ts
  BY <1>1 DEF LoginRow, Steps
<1>3. login' = [login EXCEPT ![l] = [login[l] EXCEPT !.at = "insert", !.id = a, !.ts = ts]]
  BY LoginTypes DEF CreateRoot
<1> QED
  BY <1>2, <1>3, LoginTypes DEF Becomes

LEMMA Updated ==
  ASSUME TypeOK, NEW l \in Logins, UpdateByUsername(l),
         NEW u, u = login[l].user, user[u].id \in Actors
  PROVE  Becomes(l, "answer", u, user[u].id, login[l].ts)
<1> DEFINE id == user[u].id
<1>1. login[l] \in LoginRow
  BY LoginTypes
<1>2. LET new == [login[l] EXCEPT !.at = "answer", !.id = id] IN
      /\ new \in LoginRow /\ new.at = "answer" /\ new.user = login[l].user
      /\ new.id = id /\ new.ts = login[l].ts
  BY <1>1 DEF LoginRow, Steps
<1>3. login' = [login EXCEPT ![l] = [login[l] EXCEPT !.at = "answer", !.id = id]]
  BY LoginTypes DEF UpdateByUsername
<1> QED
  BY <1>2, <1>3, LoginTypes DEF Becomes

LEMMA CheckedExists ==
  ASSUME TypeOK, NEW l \in Logins, CheckExists(l)
  PROVE  IF user[login[l].user] = None
         THEN Becomes(l, "root", login[l].user, login[l].id, login[l].ts)
         ELSE Becomes(l, "idle", None, None, None)
<1>1. CASE user[login[l].user] = None
  <2>1. login' = [login EXCEPT ![l].at = "root"]
    BY <1>1, LoginTypes DEF CheckExists
  <2> QED
    BY <1>1, <2>1, Moved DEF Steps
<1>2. CASE user[login[l].user] # None
  <2>1. login' = [login EXCEPT ![l] = Idle]
    BY <1>2, LoginTypes DEF CheckExists
  <2> QED
    BY <1>2, <2>1, Reset
<1> QED
  BY <1>1, <1>2

LEMMA Inserted ==
  ASSUME TypeOK, NEW l \in Logins, CreateUser(l)
  PROVE  IF user[login[l].user] = None
         THEN Becomes(l, "commit", login[l].user, login[l].id, login[l].ts)
         ELSE Becomes(l, "idle", None, None, None)
<1>1. CASE user[login[l].user] = None
  <2>1. login' = [login EXCEPT ![l].at = "commit"]
    BY <1>1, LoginTypes DEF CreateUser, Insert
  <2> QED
    BY <1>1, <2>1, Moved DEF Steps
<1>2. CASE user[login[l].user] # None
  <2>1. login' = [login EXCEPT ![l] = Idle]
    BY <1>2, LoginTypes DEF CreateUser, Insert
  <2> QED
    BY <1>2, <2>1, Reset
<1> QED
  BY <1>1, <1>2

-----------------------------------------------------------------------------
(* Every state has its types. *)

LEMMA InitTInv == Init => TInv
<1> SUFFICES ASSUME Init PROVE TInv
  OBVIOUS
<1>1. TypeOK
  BY AccountsAssumption DEF Init, TypeOK, Idle
<1>2. LoginHasWhatItNeeds /\ TokensHaveRows /\ UsersHaveRows
  BY DEF Init, LoginHasWhatItNeeds, TokensHaveRows, UsersHaveRows, Idle
<1> QED
  BY <1>1, <1>2 DEF TInv

RowsStay ==
    /\ \A a \in Actors : actor[a] # None => actor'[a] # None
    /\ \A u \in Users : user[u] # None => user'[u] # None

\* A step of a login leaves the other logins, and the guard, with what they need.
LEMMA OthersHaveWhatTheyNeed ==
  ASSUME TInv, RowsStay, NEW l \in Logins, NEW at, NEW u, NEW id, NEW ts,
         Becomes(l, at, u, id, ts),
         at # "idle" => u \in Users,
         at = "update" => user'[u] # None,
         at \in {"insert", "commit"} => id \in Actors /\ ts \in Stamp,
         at = "answer" => id \in Actors /\ actor'[id] # None
  PROVE  LoginHasWhatItNeeds'
<1>1. ASSUME NEW k \in Logins \ {l}
      PROVE  LET me == login'[k] IN
             /\ me.at # "idle" => me.user \in Users
             /\ me.at = "update" => user'[me.user] # None
             /\ me.at \in {"insert", "commit"} => me.id \in Actors /\ me.ts \in Stamp
             /\ me.at = "answer" => me.id \in Actors /\ actor'[me.id] # None
  BY DEF Becomes, TInv, LoginHasWhatItNeeds, HasRow, RowsStay
<1> QED
  BY <1>1 DEF Becomes, LoginHasWhatItNeeds, HasRow

LEMMA GuardHasWhatItNeeds ==
  ASSUME TInv, RowsStay, guard' = guard, \A t \in issued' : t \in issued \/ HasRow(t.id)'
  PROVE  TokensHaveRows'
BY DEF TInv, TokensHaveRows, HasRow, RowsStay, guard

LEMMA LoginStepTInv ==
  ASSUME TInv, NEW l \in Logins, LoginStep(l)
  PROVE  TInv' /\ RowsStay
<1> DEFINE me == login[l]
<1>0. /\ TypeOK /\ LoginHasWhatItNeeds
      /\ now \in 0..MaxTime /\ me \in LoginRow
      /\ user \in [Users -> UserRow \union {None}] /\ actor \in [Actors -> ActorRow \union {None}]
  BY LoginTypes DEF TInv, TypeOK
<1>1. ASSUME login' \in [Logins -> LoginRow], UNCHANGED <<now, guard>>,
             user' \in [Users -> UserRow \union {None}],
             actor' \in [Actors -> ActorRow \union {None}], issued' \subseteq Token
      PROVE  TypeOK'
  BY <1>0, <1>1 DEF TypeOK, guard, LoginRow, Steps
<1>2. ASSUME UNCHANGED <<now, user, actor, guard, issued>>
      PROVE  RowsStay /\ TokensHaveRows' /\ UsersHaveRows'
             /\ (login' \in [Logins -> LoginRow] => TypeOK')
  BY <1>0, <1>1, <1>2 DEF RowsStay, TInv, TokensHaveRows, UsersHaveRows, HasRow, guard, TypeOK
<1>3. ASSUME NEW u \in Users, OAuthCallback(l, u) PROVE TInv' /\ RowsStay
  <2>1. Becomes(l, "find", u, None, None) /\ UNCHANGED <<now, user, actor, guard, issued>>
    BY <1>0, <1>3, Called DEF OAuthCallback
  <2>2. LoginHasWhatItNeeds'
    BY <1>2, <2>1, OthersHaveWhatTheyNeed
  <2> QED
    BY <1>2, <2>1, <2>2 DEF TInv, Becomes
<1>4. CASE FindByUsername(l)
  <2>1. UNCHANGED <<now, user, actor, guard, issued>> /\ me.at = "find" /\ me.user \in Users
    BY <1>0, <1>4 DEF FindByUsername, StepLogin, LoginHasWhatItNeeds
  <2>2. \/ user[me.user] = None /\ Becomes(l, "exists", me.user, me.id, me.ts)
        \/ user[me.user] # None /\ Becomes(l, "update", me.user, me.id, me.ts)
    BY <1>0, <1>4, Moved DEF FindByUsername, StepLogin, Steps
  <2>3. LoginHasWhatItNeeds'
    BY <1>2, <2>1, <2>2, OthersHaveWhatTheyNeed
  <2> QED
    BY <1>2, <2>1, <2>2, <2>3 DEF TInv, Becomes
<1>5. CASE UpdateByUsername(l)
  <2> DEFINE u == me.user
  <2>1. /\ UNCHANGED <<now, actor, guard, issued>> /\ u \in Users
        /\ user[u] \in UserRow /\ HasRow(user[u].id)
        /\ user' = [user EXCEPT ![u].configs = "platform"]
    BY <1>0, <1>5 DEF UpdateByUsername, LoginHasWhatItNeeds, FormalResConfigs, TInv, UsersHaveRows
  <2>2. user'[u] \in UserRow /\ user'[u].id = user[u].id
    BY <1>0, <2>1, ConfigsUpdated
  <2>3. \A v \in Users \ {u} : user'[v] = user[v]
    BY <1>0, <2>1
  <2>4. user' \in [Users -> UserRow \union {None}]
    BY <1>0, <2>1, <2>2, <2>3
  <2>5. RowsStay /\ UsersHaveRows'
    BY <2>1, <2>2, <2>3, NoneIsNothing DEF RowsStay, UsersHaveRows, HasRow, TInv
  <2>6. Becomes(l, "answer", u, user[u].id, me.ts)
    BY <1>0, <1>5, <2>1, Updated DEF HasRow
  <2>7. LoginHasWhatItNeeds' /\ TokensHaveRows'
    BY <2>1, <2>5, <2>6, OthersHaveWhatTheyNeed, GuardHasWhatItNeeds DEF HasRow
  <2>8. TypeOK'
    BY <1>0, <1>1, <2>1, <2>4, <2>6 DEF Becomes, TypeOK
  <2> QED
    BY <2>5, <2>7, <2>8 DEF TInv
<1>6. CASE CheckExists(l)
  <2>1. UNCHANGED <<now, user, actor, guard, issued>> /\ me.user \in Users
    BY <1>0, <1>6 DEF CheckExists, LoginHasWhatItNeeds
  <2>2. \/ Becomes(l, "root", me.user, me.id, me.ts)
        \/ Becomes(l, "idle", None, None, None)
    BY <1>0, <1>6, CheckedExists
  <2>3. LoginHasWhatItNeeds'
    BY <1>2, <2>1, <2>2, OthersHaveWhatTheyNeed
  <2> QED
    BY <1>2, <2>1, <2>2, <2>3 DEF TInv, Becomes
<1>7. ASSUME NEW a \in Actors, NEW ts \in Stamp, CreateRoot(l, a, ts) PROVE TInv' /\ RowsStay
  <2>1. UNCHANGED <<now, user, actor, guard, issued>> /\ me.user \in Users
    BY <1>0, <1>7 DEF CreateRoot, LoginHasWhatItNeeds
  <2>2. Becomes(l, "insert", me.user, a, ts)
    BY <1>0, <1>7, RootCreated
  <2>3. LoginHasWhatItNeeds'
    BY <1>2, <2>1, <2>2, OthersHaveWhatTheyNeed
  <2> QED
    BY <1>2, <2>1, <2>2, <2>3 DEF TInv, Becomes
<1>8. CASE CreateUser(l)
  <2>1. /\ UNCHANGED <<now, user, actor, guard, issued>>
        /\ me.user \in Users /\ me.id \in Actors /\ me.ts \in Stamp
    BY <1>0, <1>8 DEF CreateUser, LoginHasWhatItNeeds
  <2>2. \/ Becomes(l, "commit", me.user, me.id, me.ts)
        \/ Becomes(l, "idle", None, None, None)
    BY <1>0, <1>8, Inserted
  <2>3. LoginHasWhatItNeeds'
    BY <1>2, <2>1, <2>2, OthersHaveWhatTheyNeed
  <2> QED
    BY <1>2, <2>1, <2>2, <2>3 DEF TInv, Becomes
<1>9. CASE CommitRegistration(l)
  <2> DEFINE u == me.user
             a == me.id
             row == [saved |-> me.ts, deleted |-> FALSE, updated |-> now]
  <2>1. UNCHANGED <<now, guard, issued>> /\ u \in Users /\ a \in Actors /\ me.ts \in Stamp
    BY <1>0, <1>9 DEF CommitRegistration, StepLogin, LoginHasWhatItNeeds
  <2>2. row \in ActorRow /\ [id |-> a, configs |-> "platform"] \in UserRow
    BY <1>0, <2>1 DEF ActorRow, UserRow
  <2>3. /\ user' = [user EXCEPT ![u] = [id |-> a, configs |-> "platform"]]
        /\ actor' = [actor EXCEPT ![a] = row]
    BY <1>9 DEF CommitRegistration, FormalResConfigs
  <2>4. actor' \in [Actors -> ActorRow \union {None}] /\ user' \in [Users -> UserRow \union {None}]
    BY <1>0, <2>1, <2>2, <2>3
  <2>5. RowsStay /\ actor'[a] # None
    BY <1>0, <2>1, <2>2, <2>3, NoneIsNothing DEF RowsStay
  <2>6. UsersHaveRows'
    BY <1>0, <2>1, <2>3, <2>5 DEF UsersHaveRows, HasRow, RowsStay, TInv
  <2>7. Becomes(l, "answer", u, a, me.ts)
    BY <1>0, <1>9, Moved DEF CommitRegistration, StepLogin, Steps
  <2>8. LoginHasWhatItNeeds' /\ TokensHaveRows'
    BY <2>1, <2>5, <2>7, OthersHaveWhatTheyNeed, GuardHasWhatItNeeds
  <2>9. TypeOK'
    BY <1>0, <1>1, <2>1, <2>4, <2>7 DEF Becomes, TypeOK
  <2> QED
    BY <2>5, <2>6, <2>8, <2>9 DEF TInv
<1>10. CASE RegistrationFails(l)
  <2>1. Becomes(l, "idle", None, None, None) /\ UNCHANGED <<now, user, actor, guard, issued>>
    BY <1>0, <1>10, Reset DEF RegistrationFails
  <2>2. LoginHasWhatItNeeds'
    BY <1>2, <2>1, OthersHaveWhatTheyNeed
  <2> QED
    BY <1>2, <2>1, <2>2 DEF TInv, Becomes
<1>11. CASE AnswerLogin(l)
  <2>1. UNCHANGED <<now, user, actor, guard>> /\ HasRow(me.id)
    BY <1>0, <1>11 DEF AnswerLogin, LoginHasWhatItNeeds
  <2>2. PICK t \in Token : t.id = me.id /\ issued' \subseteq issued \union {t}
    <3>1. [id |-> me.id, ts |-> actor[me.id].saved] \in Token
      BY <1>0, <2>1 DEF HasRow, Token, ActorRow
    <3> QED
      BY <1>11, <3>1 DEF AnswerLogin
  <2>3. RowsStay /\ HasRow(t.id)'
    BY <2>1, <2>2 DEF RowsStay, HasRow
  <2>4. Becomes(l, "idle", None, None, None)
    BY <1>0, <1>11, Reset DEF AnswerLogin
  <2>5. LoginHasWhatItNeeds'
    BY <2>3, <2>4, OthersHaveWhatTheyNeed
  <2>6. TokensHaveRows'
    BY <2>1, <2>2, <2>3, GuardHasWhatItNeeds
  <2>7. TypeOK'
    BY <1>0, <1>1, <2>1, <2>2, <2>4 DEF Becomes, TypeOK
  <2> QED
    BY <2>1, <2>3, <2>5, <2>6, <2>7 DEF TInv, UsersHaveRows, HasRow
<1> QED
  BY <1>3, <1>4, <1>5, <1>6, <1>7, <1>8, <1>9, <1>10, <1>11 DEF LoginStep

\* What the guard decides on a token, by what it knows to be the saved one.
LEMMA Decided ==
  ASSUME TypeOK, NEW r \in Requests, NEW t \in Token, NEW saved \in Stamp \union {None},
         Decide(r, t, saved)
  PROVE  /\ pc' \in [Requests -> {"idle", "reading", "filling", "admitted", "refused"}]
         /\ save' \in [Requests -> Token \union {None}] /\ issued' \subseteq Token
         /\ \A q \in Requests \ {r} : pc'[q] = pc[q] /\ save'[q] = save[q]
         /\ pc'[r] \in {"admitted", "refused"}
         /\ save'[r] # save[r] => save'[r].id = t.id /\ save'[r].ts.at = now
         /\ \A s \in issued' : s \in issued \/ s.id = t.id
         /\ pc'[r] = "admitted" => saved # None /\ (Expired(t) => saved = t.ts)
         /\ pc'[r] = "refused" => saved = None \/ (Expired(t) /\ saved # t.ts)
<1>0. /\ pc \in [Requests -> {"idle", "reading", "filling", "admitted", "refused"}]
      /\ save \in [Requests -> Token \union {None}] /\ issued \subseteq Token
  BY DEF TypeOK
<1>1. CASE Refuse(r) /\ (saved = None \/ (Expired(t) /\ ~IsSaved(t, saved)))
  BY <1>0, <1>1 DEF Refuse, IsSaved
<1>2. CASE /\ saved # None /\ (Expired(t) => IsSaved(t, saved))
           /\ pc' = [pc EXCEPT ![r] = "admitted"]
           /\ UNCHANGED <<save, issued>>
  BY <1>0, <1>2 DEF IsSaved
<1>3. CASE /\ saved # None /\ (Expired(t) => IsSaved(t, saved))
           /\ pc' = [pc EXCEPT ![r] = "admitted"]
           /\ Renew(r, t)
  <2>1. PICK ts \in Stamp :
           /\ ts.at = now
           /\ save' = [save EXCEPT ![r] = [id |-> t.id, ts |-> ts]]
           /\ issued' = issued \union {[id |-> t.id, ts |-> ts]}
    BY <1>3 DEF Renew, Fresh
  <2>2. [id |-> t.id, ts |-> ts] \in Token
    BY DEF Token
  <2>3. save' \in [Requests -> Token \union {None}] /\ issued' \subseteq Token
    BY <1>0, <2>1, <2>2
  <2>4. save'[r].id = t.id /\ save'[r].ts.at = now
    BY <1>0, <2>1
  <2> QED
    BY <1>0, <1>3, <2>1, <2>3, <2>4 DEF IsSaved
<1> QED
  BY <1>1, <1>2, <1>3 DEF Decide

\* The row of a root actor that has one, after the token or the mark is written.
LEMMA RootWritten ==
  ASSUME TypeOK, NEW a \in Actors, actor[a] # None, NEW row \in ActorRow,
         actor' = [actor EXCEPT ![a] = row]
  PROVE  /\ actor' \in [Actors -> ActorRow \union {None}]
         /\ \A b \in Actors : actor[b] # None => actor'[b] # None
BY NoneIsNothing DEF TypeOK

LEMMA RequestStepTInv ==
  ASSUME TInv, NEW r \in Requests, RequestStep(r)
  PROVE  TInv' /\ RowsStay
<1>0. TypeOK /\ LoginHasWhatItNeeds /\ TokensHaveRows /\ UsersHaveRows
  BY DEF TInv
<1>1. ASSUME UNCHANGED <<now, login>>, RowsStay,
             \A u \in Users : user'[u] # None => user[u] # None /\ user'[u].id = user[u].id
      PROVE  LoginHasWhatItNeeds' /\ UsersHaveRows'
  BY <1>0, <1>1 DEF LoginHasWhatItNeeds, UsersHaveRows, HasRow, RowsStay
<1>2. ASSUME UNCHANGED <<now, user, actor, login>>
      PROVE  RowsStay /\ LoginHasWhatItNeeds' /\ UsersHaveRows'
  BY <1>1, <1>2 DEF RowsStay
<1>3. ASSUME NEW t \in issued, Request(r, t) PROVE TInv' /\ RowsStay
  <2>1. /\ UNCHANGED <<now, user, actor, login, found, cache>> /\ t \in Token /\ HasRow(t.id)
        /\ token' = [token EXCEPT ![r] = t]
    BY <1>0, <1>3 DEF Request, TypeOK, TokensHaveRows
  <2>2. CASE HasCached(t.id)
    <3>1. cache[t.id].saved \in Stamp /\ Decide(r, t, cache[t.id].saved)
      BY <1>0, <1>3, <2>1, <2>2 DEF Request, HasCached, HasRow, TypeOK, Cached
    <3>2. TypeOK'
      BY <1>0, <2>1, <3>1, Decided DEF TypeOK
    <3>3. TokensHaveRows'
      BY <1>0, <2>1, <3>1, Decided, NoneIsNothing DEF TokensHaveRows, HasRow, TypeOK
    <3> QED
      BY <1>2, <2>1, <3>2, <3>3 DEF TInv
  <2>3. CASE ~HasCached(t.id)
    <3>1. pc' = [pc EXCEPT ![r] = "reading"] /\ UNCHANGED <<save, issued>>
      BY <1>3, <2>3 DEF Request
    <3>2. TypeOK'
      BY <1>0, <2>1, <3>1 DEF TypeOK
    <3>3. TokensHaveRows'
      BY <1>0, <2>1, <3>1, NoneIsNothing DEF TokensHaveRows, HasRow, TypeOK
    <3> QED
      BY <1>2, <2>1, <3>2, <3>3 DEF TInv
  <2> QED
    BY <2>2, <2>3
<1>4. CASE ReadActor(r)
  <2>1. /\ UNCHANGED <<now, user, actor, login, token, cache, save, issued>>
        /\ pc[r] = "reading" /\ pc' = [pc EXCEPT ![r] = "filling"]
        /\ found' = [found EXCEPT ![r] = IF actor[token[r].id].deleted THEN None
                                         ELSE actor[token[r].id].saved]
    BY <1>4 DEF ReadActor
  <2>2. HasRow(token[r].id)
    BY <1>0, <2>1 DEF TokensHaveRows
  <2>3. actor[token[r].id].saved \in Stamp
    BY <1>0, <2>2 DEF HasRow, TypeOK, ActorRow
  <2>4. TypeOK'
    BY <1>0, <2>1, <2>3 DEF TypeOK
  <2>5. TokensHaveRows'
    BY <1>0, <2>1 DEF TokensHaveRows, HasRow, TypeOK
  <2> QED
    BY <1>2, <2>1, <2>4, <2>5 DEF TInv
<1>5. CASE FillCache(r)
  <2>1. /\ UNCHANGED <<now, user, actor, login, token>> /\ pc[r] = "filling"
        /\ Decide(r, token[r], found[r])
        /\ found' = [found EXCEPT ![r] = None]
        /\ cache' = [cache EXCEPT ![token[r].id] =
                       IF found[r] = None THEN None
                       ELSE [saved |-> found[r], until |-> now + CacheTTL]]
    BY <1>5 DEF FillCache
  <2>2. HasRow(token[r].id) /\ token[r] \in Token
    BY <1>0, <2>1 DEF TokensHaveRows, TypeOK
  <2>3. found[r] # None => [saved |-> found[r], until |-> now + CacheTTL] \in Cached
    BY <1>0, AccountsAssumption DEF TypeOK, Cached
  <2>4. cache' \in [Actors -> Cached \union {None}] /\ found' \in [Requests -> Stamp \union {None}]
    BY <1>0, <2>1, <2>3 DEF TypeOK
  <2>5. found[r] \in Stamp \union {None}
    BY <1>0 DEF TypeOK
  <2>6. TypeOK'
    BY <1>0, <2>1, <2>2, <2>4, <2>5, Decided DEF TypeOK
  <2>7. TokensHaveRows'
    BY <1>0, <2>1, <2>2, <2>5, Decided DEF TokensHaveRows, HasRow, TypeOK
  <2> QED
    BY <1>2, <2>1, <2>6, <2>7 DEF TInv
<1>6. CASE SaveToken(r)
  <2> DEFINE a == save[r].id
  <2>1. /\ UNCHANGED <<now, user, login, pc, token, found, cache, issued>> /\ save[r] # None
        /\ actor' = [actor EXCEPT ![a].saved = save[r].ts, ![a].updated = now]
        /\ save' = [save EXCEPT ![r] = None]
    BY <1>6 DEF SaveToken
  <2>2. HasRow(a) /\ save[r].ts \in Stamp /\ now \in 0..MaxTime
    BY <1>0, <2>1 DEF TokensHaveRows, TypeOK, Token
  <2>3. actor[a] \in ActorRow
    BY <1>0, <2>2 DEF TypeOK, HasRow
  <2>4. actor' = [actor EXCEPT ![a] = [actor[a] EXCEPT !.saved = save[r].ts, !.updated = now]]
    BY <1>0, <2>1, <2>2 DEF HasRow, TypeOK
  <2>5. actor' \in [Actors -> ActorRow \union {None}] /\ RowsStay
    <3>1. PICK row \in ActorRow : actor' = [actor EXCEPT ![a] = row]
      BY <2>2, <2>3, <2>4, TokenSaved
    <3> QED
      BY <1>0, <2>1, <2>2, <3>1, RootWritten DEF HasRow, RowsStay
  <2>6. TypeOK'
    BY <1>0, <2>1, <2>5 DEF TypeOK
  <2>7. TokensHaveRows'
    BY <1>0, <2>1, <2>5 DEF TokensHaveRows, HasRow, RowsStay, TypeOK
  <2> QED
    BY <1>1, <2>1, <2>5, <2>6, <2>7 DEF TInv
<1>7. ASSUME Done(r), RowsStay, actor' \in [Actors -> ActorRow \union {None}],
             user' \in [Users -> UserRow \union {None}],
             \A u \in Users : user'[u] # None => user[u] # None /\ user'[u].id = user[u].id
      PROVE  TInv' /\ RowsStay
  <2>1. TypeOK'
    BY <1>0, <1>7 DEF Done, TypeOK
  <2>2. TokensHaveRows'
    BY <1>0, <1>7 DEF Done, TokensHaveRows, HasRow, RowsStay, TypeOK
  <2> QED
    BY <1>1, <1>7, <2>1, <2>2 DEF TInv, Done
<1>8. CASE Answer(r)
  BY <1>0, <1>7, <1>8 DEF Answer, RowsStay, TypeOK
<1>9. CASE UpdateCurrentUser(r)
  <2>1. PICK u \in Users : user[u] # None /\ user' = [user EXCEPT ![u].configs = "own"]
    BY <1>9 DEF UpdateCurrentUser, FormalResConfigs
  <2>2. user \in [Users -> UserRow \union {None}]
    BY <1>0 DEF TypeOK
  <2>3. user'[u] \in UserRow /\ user'[u].id = user[u].id
    BY <2>1, <2>2, ConfigsUpdated
  <2>4. \A v \in Users \ {u} : user'[v] = user[v]
    BY <2>1, <2>2
  <2>5. user' \in [Users -> UserRow \union {None}]
    BY <2>1, <2>2, <2>3, <2>4
  <2>6. /\ RowsStay
        /\ \A v \in Users : user'[v] # None => user[v] # None /\ user'[v].id = user[v].id
    BY <1>9, <2>1, <2>3, <2>4, NoneIsNothing DEF RowsStay, UpdateCurrentUser
  <2> QED
    BY <1>0, <1>7, <1>9, <2>5, <2>6 DEF UpdateCurrentUser, TypeOK
<1>10. CASE RemoveRoot(r)
  <2> DEFINE a == token[r].id
  <2>1. Done(r) /\ user' = user /\ HasRow(a) /\ now \in 0..MaxTime
    BY <1>0, <1>10 DEF RemoveRoot, TokensHaveRows, TypeOK
  <2>2. actor[a] \in ActorRow
    BY <1>0, <2>1 DEF TypeOK, HasRow
  <2>3. CASE actor' = actor
    BY <1>0, <1>7, <2>1, <2>3 DEF RowsStay, TypeOK
  <2>4. CASE actor' = [actor EXCEPT ![a] = [actor[a] EXCEPT !.deleted = TRUE, !.updated = now]]
    <3>1. actor' \in [Actors -> ActorRow \union {None}] /\ RowsStay
      BY <1>0, <2>1, <2>2, <2>4, RootRemoved, RootWritten DEF HasRow, RowsStay
    <3> QED
      BY <1>0, <1>7, <2>1, <3>1 DEF TypeOK
  <2>5. \/ actor' = actor
        \/ actor' = [actor EXCEPT ![a] = [actor[a] EXCEPT !.deleted = TRUE, !.updated = now]]
    BY <1>0, <1>10, <2>1 DEF RemoveRoot, HasRow, TypeOK
  <2> QED
    BY <2>3, <2>4, <2>5
<1> QED
  BY <1>3, <1>4, <1>5, <1>6, <1>8, <1>9, <1>10 DEF RequestStep

LEMMA StepTInv == TInv /\ [Next]_vars => TInv' /\ RowsStay
<1> SUFFICES ASSUME TInv, [Next]_vars PROVE TInv' /\ RowsStay
  OBVIOUS
<1>1. CASE Tick
  <2>1. TypeOK'
    BY <1>1, AccountsAssumption DEF Tick, TInv, TypeOK, guard
  <2> QED
    BY <1>1, <2>1 DEF Tick, TInv, guard, RowsStay, LoginHasWhatItNeeds, TokensHaveRows,
                      UsersHaveRows, HasRow
<1>2. CASE Restart
  <2>1. TypeOK'
    BY <1>2 DEF Restart, TInv, TypeOK, Idle
  <2>2. LoginHasWhatItNeeds' /\ TokensHaveRows'
    BY <1>2 DEF Restart, TInv, LoginHasWhatItNeeds, TokensHaveRows, HasRow, Idle
  <2> QED
    BY <1>2, <2>1, <2>2 DEF Restart, TInv, RowsStay, UsersHaveRows, HasRow
<1>3. CASE UNCHANGED vars
  BY <1>3 DEF vars, TInv, TypeOK, RowsStay, LoginHasWhatItNeeds, TokensHaveRows, UsersHaveRows, HasRow
<1> QED
  BY <1>1, <1>2, <1>3, LoginStepTInv, RequestStepTInv DEF Next

(* Accounts: every state has its types; whatever names a root actor once a login is past  *)
(* its commit, a token handed out or waiting to be saved, names one that has a row.       *)
THEOREM TypeCorrect == Spec => []TypeOK
<1>1. TInv => TypeOK
  BY DEF TInv
<1> QED
  BY <1>1, InitTInv, StepTInv, PTL DEF Spec

-----------------------------------------------------------------------------
(* One account, one root actor. *)

Registrations == IdsAreTheirOwn /\ CommitsAreUnique /\ OneUserEach

LEMMA InitAInv == Init => AInv
<1> SUFFICES ASSUME Init PROVE AInv
  OBVIOUS
<1>1. Registrations
  BY DEF Init, Registrations, IdsAreTheirOwn, CommitsAreUnique, OneUserEach, Inserting, Idle
<1> QED
  BY <1>1, InitTInv DEF AInv, Registrations

\* No root actor and no user comes or goes.
SameRows ==
    /\ \A a \in Actors : actor'[a] = None <=> actor[a] = None
    /\ \A u \in Users : user'[u] = None <=> user[u] = None
    /\ \A u \in Users : user[u] # None => user'[u].id = user[u].id

\* A login that is not, or no longer, past the creation of its root actor disturbs nobody.
LEMMA NothingInserted ==
  ASSUME AInv, SameRows, NEW l \in Logins, NEW at, NEW u, NEW id, NEW ts,
         Becomes(l, at, u, id, ts), at \notin {"insert", "commit"}
  PROVE  Registrations'
<1>0. IdsAreTheirOwn /\ CommitsAreUnique /\ OneUserEach /\ TypeOK /\ LoginHasWhatItNeeds
  BY DEF AInv, TInv
<1>1. Inserting' \subseteq Inserting \ {l} /\ \A k \in Inserting' : login'[k] = login[k]
  BY DEF Becomes, Inserting
<1>2. \A k \in Inserting : login[k].id \in Actors /\ login[k].user \in Users
  BY <1>0 DEF LoginHasWhatItNeeds, Inserting
<1>3. IdsAreTheirOwn'
  BY <1>0, <1>1, <1>2 DEF IdsAreTheirOwn, SameRows
<1>4. \A k \in Logins : login'[k].at = "commit" => k \in Inserting'
  BY DEF Inserting
<1>5. CommitsAreUnique'
  BY <1>0, <1>1, <1>2, <1>4 DEF CommitsAreUnique, SameRows, Inserting
<1>6. OneUserEach'
  BY <1>0 DEF OneUserEach, SameRows
<1> QED
  BY <1>3, <1>5, <1>6 DEF Registrations

LEMMA LoginStepAInv ==
  ASSUME AInv, NEW l \in Logins, LoginStep(l)
  PROVE  Registrations'
<1> DEFINE me == login[l]
<1>0. IdsAreTheirOwn /\ CommitsAreUnique /\ OneUserEach /\ TInv /\ TypeOK /\ LoginHasWhatItNeeds
  BY DEF AInv, TInv
<1>1. ASSUME UNCHANGED <<user, actor>> PROVE SameRows
  BY <1>1 DEF SameRows
<1>2. ASSUME NEW u \in Users, OAuthCallback(l, u) PROVE Registrations'
  <2>1. Becomes(l, "find", u, None, None) /\ SameRows
    BY <1>0, <1>1, <1>2, Called DEF OAuthCallback
  <2> QED
    BY <2>1, NothingInserted
<1>3. CASE FindByUsername(l)
  <2>1. \/ Becomes(l, "exists", me.user, me.id, me.ts)
        \/ Becomes(l, "update", me.user, me.id, me.ts)
    BY <1>0, <1>3, Moved DEF FindByUsername, StepLogin, Steps
  <2> QED
    BY <1>1, <1>3, <2>1, NothingInserted DEF FindByUsername
<1>4. CASE UpdateByUsername(l)
  <2> DEFINE u == me.user
  <2>1. /\ actor' = actor /\ u \in Users
        /\ user[u] \in UserRow /\ HasRow(user[u].id)
        /\ user' = [user EXCEPT ![u].configs = "platform"]
    BY <1>0, <1>4 DEF UpdateByUsername, LoginHasWhatItNeeds, FormalResConfigs, TInv,
                      UsersHaveRows, TypeOK
  <2>2. user'[u] \in UserRow /\ user'[u].id = user[u].id
    BY <1>0, <2>1, ConfigsUpdated DEF TypeOK
  <2>3. \A v \in Users \ {u} : user'[v] = user[v]
    BY <1>0, <2>1 DEF TypeOK
  <2>4. SameRows
    BY <2>1, <2>2, <2>3, NoneIsNothing DEF SameRows
  <2>5. Becomes(l, "answer", u, user[u].id, me.ts)
    BY <1>0, <1>4, <2>1, Updated DEF HasRow
  <2> QED
    BY <2>4, <2>5, NothingInserted
<1>5. CASE CheckExists(l)
  <2>1. \/ Becomes(l, "root", me.user, me.id, me.ts)
        \/ Becomes(l, "idle", None, None, None)
    BY <1>0, <1>5, CheckedExists
  <2> QED
    BY <1>1, <1>5, <2>1, NothingInserted DEF CheckExists
<1>6. ASSUME NEW a \in Actors, NEW ts \in Stamp, CreateRoot(l, a, ts) PROVE Registrations'
  <2>1. /\ UNCHANGED <<user, actor>> /\ actor[a] = None
        /\ \A k \in Logins : login[k].id # a
    BY <1>6 DEF CreateRoot, TakenIds
  <2>2. Becomes(l, "insert", me.user, a, ts)
    BY <1>0, <1>6, RootCreated
  <2>3. /\ \A k \in Inserting' : k = l \/ (k \in Inserting /\ login'[k] = login[k])
        /\ login'[l].id = a /\ login'[l].at = "insert"
    BY <2>2 DEF Becomes, Inserting
  <2>4. Inserting \subseteq Logins
    BY DEF Inserting
  <2>5. IdsAreTheirOwn'
    BY <1>0, <2>1, <2>3, <2>4 DEF IdsAreTheirOwn
  <2>6. CommitsAreUnique'
    BY <1>0, <2>1, <2>2 DEF CommitsAreUnique, Becomes
  <2>7. OneUserEach'
    BY <1>0, <2>1 DEF OneUserEach
  <2> QED
    BY <2>5, <2>6, <2>7 DEF Registrations
<1>7. CASE CreateUser(l)
  <2>1. UNCHANGED <<user, actor>> /\ me.at = "insert" /\ ~HeldByOther(l)
    BY <1>7 DEF CreateUser
  <2>2. CASE user[me.user] # None
    BY <1>0, <1>1, <1>7, <2>1, <2>2, Inserted, NothingInserted
  <2>3. CASE user[me.user] = None
    <3>1. Becomes(l, "commit", me.user, me.id, me.ts)
      BY <1>0, <1>7, <2>3, Inserted
    <3>2. Inserting' = Inserting /\ \A k \in Inserting : login'[k].id = login[k].id
      BY <2>1, <3>1 DEF Becomes, Inserting
    <3>3. IdsAreTheirOwn'
      BY <1>0, <2>1, <3>2 DEF IdsAreTheirOwn
    <3>4. \A k \in Logins \ {l} : login[k].at = "commit" => login[k].user # me.user
      BY <2>1 DEF HeldByOther
    <3>5. CommitsAreUnique'
      BY <1>0, <2>1, <2>3, <3>1, <3>4 DEF CommitsAreUnique, Becomes
    <3> QED
      BY <1>0, <2>1, <3>3, <3>5 DEF OneUserEach, Registrations
  <2> QED
    BY <2>2, <2>3
<1>8. CASE CommitRegistration(l)
  <2> DEFINE u == me.user
             a == me.id
  <2>1. /\ me.at = "commit" /\ u \in Users /\ a \in Actors /\ me.ts \in Stamp
        /\ l \in Inserting /\ actor[a] = None /\ user[u] = None
    BY <1>0, <1>8 DEF CommitRegistration, StepLogin, LoginHasWhatItNeeds, Inserting,
                      IdsAreTheirOwn, CommitsAreUnique
  <2>2. [id |-> a, configs |-> "platform"] \in UserRow
        /\ [saved |-> me.ts, deleted |-> FALSE, updated |-> now] \in ActorRow
    BY <1>0, <2>1 DEF UserRow, ActorRow, TypeOK
  <2>3. user'[u] # None /\ user'[u].id = a /\ actor'[a] # None
    BY <1>0, <1>8, <2>1, <2>2, NoneIsNothing DEF CommitRegistration, FormalResConfigs, TypeOK
  <2>4. /\ \A v \in Users \ {u} : user'[v] = user[v]
        /\ \A b \in Actors \ {a} : actor'[b] = actor[b]
    BY <1>0, <1>8 DEF CommitRegistration, TypeOK
  <2>5. Becomes(l, "answer", u, a, me.ts)
    BY <1>0, <1>8, Moved DEF CommitRegistration, StepLogin, Steps
  <2>6. Inserting' = Inserting \ {l} /\ \A k \in Inserting' : login'[k] = login[k]
    BY <2>1, <2>5 DEF Becomes, Inserting
  <2>7. IdsAreTheirOwn'
    <3>1. \A k \in Inserting' : login[k].id \in Actors \ {a}
      BY <1>0, <2>1, <2>6 DEF IdsAreTheirOwn, LoginHasWhatItNeeds, Inserting
    <3> QED
      BY <1>0, <2>4, <2>6, <3>1 DEF IdsAreTheirOwn
  <2>8. CommitsAreUnique'
    <3>1. \A k \in Logins : login'[k].at = "commit" =>
             k # l /\ login'[k] = login[k] /\ login[k].user \in Users \ {u}
      BY <1>0, <2>1, <2>5 DEF CommitsAreUnique, Becomes, LoginHasWhatItNeeds
    <3> QED
      BY <1>0, <2>4, <3>1 DEF CommitsAreUnique
  <2>9. OneUserEach'
    <3>1. \A v \in Users : user[v] # None => v # u /\ user[v].id # a
      BY <1>0, <2>1 DEF TInv, UsersHaveRows, HasRow
    <3> QED
      BY <1>0, <2>1, <2>3, <2>4, <3>1 DEF OneUserEach
  <2> QED
    BY <2>7, <2>8, <2>9 DEF Registrations
<1>9. CASE RegistrationFails(l)
  <2>1. Becomes(l, "idle", None, None, None) /\ SameRows
    BY <1>0, <1>1, <1>9, Reset DEF RegistrationFails
  <2> QED
    BY <2>1, NothingInserted
<1>10. CASE AnswerLogin(l)
  <2>1. Becomes(l, "idle", None, None, None) /\ SameRows
    BY <1>0, <1>1, <1>10, Reset DEF AnswerLogin
  <2> QED
    BY <2>1, NothingInserted
<1> QED
  BY <1>2, <1>3, <1>4, <1>5, <1>6, <1>7, <1>8, <1>9, <1>10 DEF LoginStep

LEMMA RequestStepRows ==
  ASSUME TInv, NEW r \in Requests, RequestStep(r)
  PROVE  SameRows /\ login' = login
<1>0. TypeOK /\ TokensHaveRows /\ RowsStay
  BY RequestStepTInv DEF TInv
<1>1. login' = login
  BY DEF RequestStep, Request, ReadActor, FillCache, SaveToken, Answer, UpdateCurrentUser,
         RemoveRoot, Done
<1>2. /\ user' = user \/ UpdateCurrentUser(r)
      /\ actor' = actor \/ SaveToken(r) \/ RemoveRoot(r)
  BY DEF RequestStep, Request, ReadActor, FillCache, SaveToken, Answer, UpdateCurrentUser,
         RemoveRoot, Done
<1>3. \A u \in Users : /\ user'[u] = None <=> user[u] = None
                       /\ user[u] # None => user'[u].id = user[u].id
  <2>1. ASSUME UpdateCurrentUser(r), NEW u \in Users
        PROVE  /\ user'[u] = None <=> user[u] = None
               /\ user[u] # None => user'[u].id = user[u].id
    <3>1. PICK v \in Users : user[v] # None /\ user' = [user EXCEPT ![v].configs = "own"]
      BY <2>1 DEF UpdateCurrentUser, FormalResConfigs
    <3>2. user'[v] \in UserRow /\ user'[v].id = user[v].id
      BY <1>0, <3>1, ConfigsUpdated DEF TypeOK
    <3>3. u # v => user'[u] = user[u]
      BY <1>0, <3>1 DEF TypeOK
    <3> QED
      BY <3>1, <3>2, <3>3, NoneIsNothing
  <2> QED
    BY <1>2, <2>1
<1>4. \A a \in Actors : actor'[a] = None <=> actor[a] = None
  <2>1. ASSUME NEW a \in Actors, actor[a] = None, SaveToken(r) PROVE actor'[a] = None
    <3>1. save[r].id # a
      BY <1>0, <2>1 DEF SaveToken, TokensHaveRows, HasRow
    <3> QED
      BY <1>0, <2>1, <3>1 DEF SaveToken, TypeOK
  <2>2. ASSUME NEW a \in Actors, actor[a] = None, RemoveRoot(r) PROVE actor'[a] = None
    <3>1. token[r].id # a
      BY <1>0, <2>2 DEF RemoveRoot, TokensHaveRows, HasRow
    <3> QED
      BY <1>0, <2>2, <3>1 DEF RemoveRoot, TypeOK
  <2> QED
    BY <1>0, <1>2, <2>1, <2>2 DEF RowsStay
<1> QED
  BY <1>1, <1>3, <1>4 DEF SameRows

LEMMA StepAInv == AInv /\ [Next]_vars => AInv'
<1> SUFFICES ASSUME AInv, [Next]_vars PROVE AInv'
  OBVIOUS
<1>0. TInv /\ TInv'
  BY StepTInv DEF AInv
<1>1. ASSUME SameRows, login' = login PROVE Registrations'
  <2>1. \A k \in Inserting : login[k].id \in Actors /\ login[k].user \in Users
    BY <1>0 DEF TInv, LoginHasWhatItNeeds, Inserting
  <2>2. IdsAreTheirOwn'
    BY <1>1, <2>1 DEF AInv, IdsAreTheirOwn, SameRows, Inserting
  <2>3. CommitsAreUnique'
    BY <1>1, <2>1 DEF AInv, CommitsAreUnique, SameRows, Inserting
  <2>4. OneUserEach'
    BY <1>1 DEF AInv, OneUserEach, SameRows
  <2> QED
    BY <2>2, <2>3, <2>4 DEF Registrations
<1>2. CASE Tick \/ UNCHANGED vars
  <2>1. UNCHANGED <<user, actor, login>>
    BY <1>2 DEF Tick, vars
  <2>2. SameRows
    BY <2>1 DEF SameRows
  <2>3. Registrations'
    BY <1>1, <2>1, <2>2
  <2> QED
    BY <1>0, <2>3 DEF AInv, Registrations
<1>3. CASE Restart
  <2>1. Inserting' = {} /\ SameRows /\ \A l \in Logins : login'[l].at = "idle"
    BY <1>3 DEF Restart, Inserting, SameRows, Idle
  <2>2. IdsAreTheirOwn' /\ CommitsAreUnique'
    BY <2>1 DEF IdsAreTheirOwn, CommitsAreUnique
  <2> QED
    BY <1>0, <2>1, <2>2 DEF AInv, OneUserEach, SameRows
<1>4. ASSUME NEW r \in Requests, RequestStep(r) PROVE Registrations'
  BY <1>0, <1>1, <1>4, RequestStepRows
<1> QED
  BY <1>0, <1>2, <1>3, <1>1, <1>4, LoginStepAInv DEF Next, AInv, Registrations

(* users.service.ts:84-100: however many first logins of an account race, every root actor *)
(* is exactly one user's.                                                                  *)
THEOREM OneAccountHolds == Spec => []OneAccount
<1>1. AInv => OneAccount
  <2> SUFFICES ASSUME AInv, NEW a \in Actors, actor[a] # None
               PROVE  Cardinality({u \in Users : user[u] # None /\ user[u].id = a}) = 1
    BY DEF OneAccount
  <2>1. PICK u \in Users : user[u] # None /\ user[u].id = a
    BY DEF AInv, OneUserEach
  <2>2. {v \in Users : user[v] # None /\ user[v].id = a} = {u}
    BY <2>1 DEF AInv, OneUserEach
  <2> QED
    BY <2>2, FS_Singleton
<1> QED
  BY <1>1, InitAInv, StepAInv, PTL DEF Spec

-----------------------------------------------------------------------------
(* Only finitely many logins and requests are ever in flight: when Busy is 0, none is. *)

LEMMA InitGInv == Init => GInv
<1> SUFFICES ASSUME Init PROVE GInv
  OBVIOUS
<1>1. BusyLogins = {} /\ BusyRequests = {}
  BY DEF Init, BusyLogins, BusyRequests
<1>2. CacheAsRead /\ FoundAsRead /\ SavesAreNew
  BY DEF Init, CacheAsRead, FoundAsRead, SavesAreNew
<1> QED
  BY <1>1, <1>2, FS_EmptySet, InitAInv DEF GInv, Few

LEMMA OneMore ==
  ASSUME NEW S, IsFiniteSet(S), NEW x, NEW T, T \subseteq S \union {x}
  PROVE  IsFiniteSet(T)
<1>1. IsFiniteSet(S \union {x})
  BY FS_AddElement
<1> QED
  BY <1>1, FS_Subset

LEMMA NobodyIsBusy ==
  ASSUME Few, Busy = 0
  PROVE  BusyLogins = {} /\ BusyRequests = {}
<1>1. Cardinality(BusyLogins) \in Nat /\ Cardinality(BusyRequests) \in Nat
  BY FS_CardinalityType DEF Few
<1>2. Cardinality(BusyLogins) = 0 /\ Cardinality(BusyRequests) = 0
  BY <1>1 DEF Busy
<1> QED
  BY <1>2, FS_EmptySet DEF Few

\* What a request leaves of the others: their steps, tokens, reads and saves.
LEMMA OtherRequests ==
  ASSUME TInv, NEW r \in Requests, RequestStep(r), NEW q \in Requests \ {r}
  PROVE  pc'[q] = pc[q] /\ token'[q] = token[q] /\ found'[q] = found[q] /\ save'[q] = save[q]
<1>0. TypeOK /\ TokensHaveRows
  BY DEF TInv
<1>1. ASSUME NEW t \in issued, Request(r, t)
      PROVE  pc'[q] = pc[q] /\ token'[q] = token[q] /\ found'[q] = found[q] /\ save'[q] = save[q]
  <2>1. token'[q] = token[q] /\ found' = found
    BY <1>0, <1>1 DEF Request, TypeOK
  <2>2. CASE HasCached(t.id)
    <3>1. /\ cache[t.id].saved \in Stamp /\ t \in Token
          /\ Decide(r, t, cache[t.id].saved)
      BY <1>0, <1>1, <2>2 DEF Request, HasCached, TypeOK, Cached, TokensHaveRows, HasRow
    <3> QED
      BY <1>0, <2>1, <3>1, Decided
  <2>3. CASE ~HasCached(t.id)
    BY <1>0, <1>1, <2>1, <2>3 DEF Request, TypeOK
  <2> QED
    BY <2>2, <2>3
<1>2. CASE FillCache(r)
  <2>1. /\ token[r] \in Token /\ found[r] \in Stamp \union {None}
        /\ Decide(r, token[r], found[r])
    BY <1>0, <1>2 DEF FillCache, TypeOK, TokensHaveRows
  <2> QED
    BY <1>0, <1>2, <2>1, Decided DEF FillCache, TypeOK
<1>3. CASE ReadActor(r) \/ SaveToken(r)
  BY <1>0, <1>3 DEF ReadActor, SaveToken, TypeOK
<1>4. CASE Answer(r) \/ UpdateCurrentUser(r) \/ RemoveRoot(r)
  BY <1>0, <1>4 DEF Answer, UpdateCurrentUser, RemoveRoot, Done, TypeOK
<1> QED
  BY <1>1, <1>2, <1>3, <1>4 DEF RequestStep

LEMMA OtherLogins ==
  ASSUME TInv, NEW l \in Logins, LoginStep(l)
  PROVE  UNCHANGED <<now, guard>> /\ \A k \in Logins \ {l} : login'[k] = login[k]
BY DEF LoginStep, OAuthCallback, FindByUsername, UpdateByUsername, CheckExists, CreateRoot,
       CreateUser, Insert, CommitRegistration, RegistrationFails, AnswerLogin, StepLogin, TInv, TypeOK

LEMMA StepFew == TInv /\ Few /\ [Next]_vars => Few'
<1> SUFFICES ASSUME TInv, Few, [Next]_vars PROVE Few'
  OBVIOUS
<1>1. ASSUME NEW l \in Logins, LoginStep(l) PROVE Few'
  <2>1. BusyLogins' \subseteq BusyLogins \union {l} /\ BusyRequests' = BusyRequests
    BY <1>1, OtherLogins DEF BusyLogins, BusyRequests, guard
  <2> QED
    BY <2>1, OneMore DEF Few
<1>2. ASSUME NEW r \in Requests, RequestStep(r) PROVE Few'
  <2>1. BusyRequests' \subseteq BusyRequests \union {r}
    BY <1>2, OtherRequests DEF BusyRequests
  <2>2. BusyLogins' = BusyLogins
    BY <1>2, RequestStepRows DEF BusyLogins
  <2> QED
    BY <2>1, <2>2, OneMore DEF Few
<1>3. CASE Tick \/ UNCHANGED vars
  <2>1. BusyLogins' = BusyLogins /\ BusyRequests' = BusyRequests
    BY <1>3 DEF Tick, vars, guard, BusyLogins, BusyRequests
  <2> QED
    BY <2>1 DEF Few
<1>4. CASE Restart
  <2>1. BusyLogins' = {} /\ BusyRequests' = {}
    BY <1>4 DEF Restart, BusyLogins, BusyRequests
  <2> QED
    BY <2>1, FS_EmptySet DEF Few
<1> QED
  BY <1>1, <1>2, <1>3, <1>4 DEF Next

-----------------------------------------------------------------------------
(***************************************************************************)
(* What the guard remembers.  A row only changes with its date, its token  *)
(* only for one made in the same tick, and a removed actor stays removed;  *)
(* no tick passes while a request is under way or a token is to be saved.  *)
(***************************************************************************)
RowsMove ==
    \A a \in Actors : actor[a] # None =>
        \/ actor'[a] = actor[a]
        \/ /\ actor'[a].updated = now
           /\ actor'[a].saved = actor[a].saved \/ actor'[a].saved.at = now
           /\ actor[a].deleted => actor'[a].deleted

LEMMA StepRowsMove == AInv /\ SavesAreNew /\ [Next]_vars => RowsMove
<1> SUFFICES ASSUME AInv, SavesAreNew, [Next]_vars PROVE RowsMove
  OBVIOUS
<1>0. TInv /\ TypeOK /\ TokensHaveRows
  BY DEF AInv, TInv
<1>1. CASE actor' = actor
  BY <1>1 DEF RowsMove
<1>2. ASSUME NEW l \in Logins, CommitRegistration(l) PROVE RowsMove
  <2>1. actor[login[l].id] = None
    BY <1>2 DEF CommitRegistration, StepLogin, AInv, IdsAreTheirOwn, Inserting
  <2> QED
    BY <1>0, <1>2, <2>1 DEF CommitRegistration, RowsMove, TypeOK
<1>3. ASSUME NEW r \in Requests, SaveToken(r) PROVE RowsMove
  <2> DEFINE a == save[r].id
             row == [actor[a] EXCEPT !.saved = save[r].ts, !.updated = now]
  <2>1. HasRow(a) /\ save[r].ts \in Stamp /\ save[r].ts.at = now /\ now \in 0..MaxTime
    BY <1>0, <1>3 DEF SaveToken, TokensHaveRows, SavesAreNew, TypeOK, Token
  <2>2. actor[a] \in ActorRow
    BY <1>0, <2>1 DEF HasRow, TypeOK
  <2>3. row.updated = now /\ row.saved = save[r].ts /\ row.deleted = actor[a].deleted
    BY <2>1, <2>2 DEF ActorRow
  <2>4. actor' = [actor EXCEPT ![a] = row]
    BY <1>0, <1>3, <2>1 DEF SaveToken, HasRow, TypeOK
  <2> HIDE DEF row
  <2> QED
    BY <1>0, <2>1, <2>3, <2>4 DEF RowsMove, HasRow, TypeOK
<1>4. ASSUME NEW r \in Requests, RemoveRoot(r), actor' # actor PROVE RowsMove
  <2> DEFINE a == token[r].id
             row == [actor[a] EXCEPT !.deleted = TRUE, !.updated = now]
  <2>1. HasRow(a) /\ now \in 0..MaxTime
    BY <1>0, <1>4 DEF RemoveRoot, TokensHaveRows, TypeOK
  <2>2. actor[a] \in ActorRow
    BY <1>0, <2>1 DEF HasRow, TypeOK
  <2>3. row.updated = now /\ row.saved = actor[a].saved /\ row.deleted
    BY <2>1, <2>2, RootRemoved
  <2>4. actor' = [actor EXCEPT ![a] = row]
    BY <1>0, <1>4, <2>1 DEF RemoveRoot, HasRow, TypeOK
  <2> HIDE DEF row
  <2> QED
    BY <1>0, <2>1, <2>3, <2>4 DEF RowsMove, HasRow, TypeOK
<1>5. \/ actor' = actor
      \/ \E l \in Logins : CommitRegistration(l)
      \/ \E r \in Requests : SaveToken(r) \/ RemoveRoot(r)
  BY DEF Next, LoginStep, RequestStep, OAuthCallback, FindByUsername, UpdateByUsername, CheckExists,
         CreateRoot, CreateUser, RegistrationFails, AnswerLogin, Request, ReadActor, FillCache,
         Answer, UpdateCurrentUser, Done, Tick, Restart, vars
<1> QED
  BY <1>1, <1>2, <1>3, <1>4, <1>5

LEMMA RowTypes ==
  ASSUME TypeOK, NEW a, HasRow(a)
  PROVE  /\ actor[a] \in ActorRow /\ actor[a].updated \in Int
         /\ actor[a].saved \in Stamp /\ actor[a].saved.at \in Int
<1>1. actor[a] \in ActorRow
  BY DEF HasRow, TypeOK
<1> QED
  BY <1>1 DEF ActorRow, Stamp

\* What was read of a row since a tick stays so.
LEMMA AsReadKept ==
  ASSUME TypeOK, TypeOK', RowsMove, RowsStay, NEW a, HasRow(a), NEW saved,
         NEW since \in Int, since <= now, AsReadSince(a, saved, since)
  PROVE  AsReadSince(a, saved, since)'
<1>1. now \in Int /\ HasRow(a)'
  BY DEF TypeOK, HasRow, RowsStay
<1>2. CASE actor'[a] = actor[a]
  BY <1>2 DEF AsReadSince
<1>3. CASE /\ actor'[a].updated = now
           /\ actor'[a].saved = actor[a].saved \/ actor'[a].saved.at = now
  BY <1>1, <1>3 DEF AsReadSince
<1> QED
  BY <1>2, <1>3 DEF RowsMove, HasRow

\* A step begins no read but ReadActor's, and leaves what others have read.
LEMMA Reads ==
  ASSUME TInv, [Next]_vars, NEW q \in Requests, pc'[q] = "filling"
  PROVE  \/ ReadActor(q)
         \/ pc[q] = "filling" /\ found'[q] = found[q] /\ token'[q] = token[q]
<1>0. TypeOK
  BY DEF TInv
<1>1. ASSUME NEW r \in Requests, RequestStep(r), r # q
      PROVE  pc[q] = "filling" /\ found'[q] = found[q] /\ token'[q] = token[q]
  BY <1>1, OtherRequests
<1>2. ASSUME NEW t \in issued, Request(q, t) PROVE FALSE
  <2>1. CASE HasCached(t.id)
    <3>1. /\ cache[t.id].saved \in Stamp /\ t \in Token
          /\ Decide(q, t, cache[t.id].saved)
      BY <1>0, <1>2, <2>1 DEF Request, HasCached, TypeOK, Cached, TInv, TokensHaveRows, HasRow
    <3> QED
      BY <1>0, <3>1, Decided
  <2>2. CASE ~HasCached(t.id)
    BY <1>0, <1>2, <2>2 DEF Request, TypeOK
  <2> QED
    BY <2>1, <2>2
<1>3. ASSUME FillCache(q) PROVE FALSE
  <2>1. /\ token[q] \in Token /\ found[q] \in Stamp \union {None}
        /\ Decide(q, token[q], found[q])
    BY <1>0, <1>3 DEF FillCache, TypeOK, TInv, TokensHaveRows
  <2> QED
    BY <1>0, <2>1, Decided
<1>4. CASE SaveToken(q)
  BY <1>4 DEF SaveToken
<1>5. ASSUME Answer(q) \/ UpdateCurrentUser(q) \/ RemoveRoot(q) PROVE FALSE
  BY <1>0, <1>5 DEF Answer, UpdateCurrentUser, RemoveRoot, Done, TypeOK
<1>6. CASE Tick \/ UNCHANGED vars
  BY <1>6 DEF Tick, vars, guard
<1>7. ASSUME Restart PROVE FALSE
  BY <1>7 DEF Restart
<1>8. ASSUME NEW l \in Logins, LoginStep(l)
      PROVE  pc[q] = "filling" /\ found'[q] = found[q] /\ token'[q] = token[q]
  BY <1>8, OtherLogins DEF guard
<1> QED
  BY <1>1, <1>2, <1>3, <1>4, <1>5, <1>6, <1>7, <1>8 DEF Next, RequestStep

\* Time stands still while anything is under way.
LEMMA TimePasses ==
  ASSUME TInv, Few, [Next]_vars
  PROVE  \/ now' = now
         \/ /\ Tick /\ now' = now + 1 /\ UNCHANGED guard
            /\ \A r \in Requests : pc[r] = "idle" /\ save[r] = None
<1>1. CASE Tick
  <2>1. BusyRequests = {}
    BY <1>1, NobodyIsBusy DEF Tick
  <2> QED
    BY <1>1, <2>1 DEF Tick, BusyRequests
<1>2. ASSUME NEW r \in Requests, RequestStep(r) PROVE now' = now
  BY <1>2 DEF RequestStep, Request, ReadActor, FillCache, SaveToken, Answer, UpdateCurrentUser,
              RemoveRoot, Done
<1> QED
  BY <1>1, <1>2, OtherLogins DEF Next, Restart, vars

LEMMA StepCacheAsRead == GInv /\ [Next]_vars => CacheAsRead'
<1> SUFFICES ASSUME GInv, [Next]_vars, NEW a \in Actors, cache'[a] # None,
                    NEW saved, saved = cache'[a].saved,
                    NEW since, since = cache'[a].until - CacheTTL
             PROVE  HasRow(a)' /\ since <= now' /\ AsReadSince(a, saved, since)'
  BY DEF CacheAsRead, AsReadSince
<1>0. /\ TInv /\ TypeOK /\ TypeOK' /\ RowsStay /\ RowsMove /\ TokensHaveRows /\ FoundAsRead
      /\ CacheTTL \in Nat /\ now \in Nat
  BY StepTInv, StepRowsMove, AccountsAssumption DEF GInv, AInv, TInv, TypeOK
<1>1. now' \in Int /\ now <= now'
  BY <1>0, TimePasses DEF GInv
<1>2. CASE cache'[a] = cache[a]
  <2>1. cache[a].until \in Nat
    BY <1>0, <1>2, AccountsAssumption DEF TypeOK, Cached
  <2>2. HasRow(a) /\ since <= now /\ since \in Int /\ AsReadSince(a, saved, since)
    BY <1>0, <1>2, <2>1 DEF GInv, CacheAsRead
  <2>3. AsReadSince(a, saved, since)'
    BY <1>0, <2>2, AsReadKept
  <2> QED
    BY <1>0, <1>1, <2>2, <2>3 DEF HasRow, RowsStay
<1>3. ASSUME NEW r \in Requests, FillCache(r), a = token[r].id
      PROVE  HasRow(a)' /\ since <= now' /\ AsReadSince(a, saved, since)'
  <2>1. /\ UNCHANGED <<now, actor>> /\ pc[r] = "filling"
        /\ found[r] # None /\ cache'[a] = [saved |-> found[r], until |-> now + CacheTTL]
    BY <1>0, <1>3 DEF FillCache, TypeOK
  <2>2. HasRow(a) /\ AsReadSince(a, found[r], now)
    BY <1>0, <1>3, <2>1 DEF TokensHaveRows, FoundAsRead
  <2>3. saved = found[r] /\ since = now
    BY <1>0, <2>1
  <2> QED
    BY <1>0, <2>1, <2>2, <2>3 DEF AsReadSince, HasRow
<1>4. cache'[a] = cache[a] \/ \E r \in Requests : FillCache(r) /\ a = token[r].id
  <2>1. ASSUME NEW l \in Logins, LoginStep(l) PROVE cache'[a] = cache[a]
    BY <1>0, <2>1, OtherLogins DEF guard
  <2>2. ASSUME NEW r \in Requests, FillCache(r), a # token[r].id PROVE cache'[a] = cache[a]
    BY <1>0, <2>2 DEF FillCache, TypeOK
  <2>3. ASSUME NEW r \in Requests, RequestStep(r), ~FillCache(r) PROVE cache'[a] = cache[a]
    BY <2>3 DEF RequestStep, Request, ReadActor, SaveToken, Answer, UpdateCurrentUser,
       RemoveRoot, Done
  <2>4. ASSUME Tick \/ Restart PROVE cache'[a] = cache[a]
    BY <2>4 DEF Tick, Restart, guard
  <2>5. ASSUME UNCHANGED vars PROVE cache'[a] = cache[a]
    BY <2>5 DEF vars, guard
  <2> QED
    BY <2>1, <2>2, <2>3, <2>4, <2>5 DEF Next
<1> QED
  BY <1>2, <1>3, <1>4

LEMMA StepFoundAsRead == GInv /\ [Next]_vars => FoundAsRead'
<1> SUFFICES ASSUME GInv, [Next]_vars, NEW r \in Requests, pc'[r] = "filling",
                    NEW a, a = token'[r].id, NEW saved, saved = found'[r], NEW at, at = now'
             PROVE  IF saved = None THEN actor'[a].deleted ELSE AsReadSince(a, saved, at)'
  BY DEF FoundAsRead, AsReadSince
<1>0. /\ TInv /\ TypeOK /\ TypeOK' /\ RowsStay /\ RowsMove /\ TokensHaveRows /\ FoundAsRead
      /\ now \in Int
  BY StepTInv, StepRowsMove DEF GInv, AInv, TInv, TypeOK
<1>1. CASE ReadActor(r)
  <2>1. token[r].id = a /\ now' = now /\ actor' = actor /\ HasRow(a)
    BY <1>0, <1>1 DEF ReadActor, TokensHaveRows
  <2>2. saved = IF actor[a].deleted THEN None ELSE actor[a].saved
    BY <1>0, <1>1, <2>1 DEF ReadActor, TypeOK
  <2>3. actor[a].saved # None /\ actor[a].deleted \in BOOLEAN
    BY <1>0, <2>1, RowTypes, NoneIsNothing DEF ActorRow
  <2> QED
    BY <2>1, <2>2, <2>3 DEF AsReadSince
<1>2. CASE pc[r] = "filling" /\ found'[r] = found[r] /\ token'[r] = token[r]
  <2>1. now' = now
    BY <1>0, <1>2, TimePasses DEF GInv
  <2>2. HasRow(a) /\ (IF saved = None THEN actor[a].deleted ELSE AsReadSince(a, saved, at))
    BY <1>0, <1>2, <2>1 DEF TokensHaveRows, FoundAsRead
  <2>3. CASE saved = None
    BY <1>0, <2>2, <2>3 DEF RowsMove, HasRow
  <2>4. CASE saved # None
    BY <1>0, <2>1, <2>2, <2>4, AsReadKept
  <2> QED
    BY <2>3, <2>4
<1> QED
  BY <1>0, <1>1, <1>2, Reads

LEMMA StepSavesAreNew == GInv /\ [Next]_vars => SavesAreNew'
<1> SUFFICES ASSUME GInv, [Next]_vars, NEW r \in Requests, save'[r] # None
             PROVE  save'[r].ts.at = now'
  BY DEF SavesAreNew
<1>0. TInv /\ TypeOK /\ SavesAreNew
  BY DEF GInv, AInv, TInv
<1>1. CASE save'[r] = save[r]
  <2>1. now' = now
    BY <1>0, <1>1, TimePasses DEF GInv
  <2> QED
    BY <1>0, <1>1, <2>1 DEF SavesAreNew
<1>2. CASE save'[r] # save[r]
  <2>1. RequestStep(r)
    BY <1>0, <1>2, OtherRequests, OtherLogins DEF Next, Tick, Restart, vars, guard
  <2>2. ASSUME NEW t \in Token, NEW saved \in Stamp \union {None}, Decide(r, t, saved), now' = now
        PROVE  save'[r].ts.at = now'
    BY <1>0, <1>2, <2>2, Decided
  <2>3. ASSUME NEW t \in issued, Request(r, t) PROVE save'[r].ts.at = now'
    <3>1. t \in Token /\ HasCached(t.id) /\ now' = now /\ Decide(r, t, cache[t.id].saved)
      BY <1>0, <1>2, <2>3 DEF Request, TypeOK
    <3>2. cache[t.id].saved \in Stamp
      BY <1>0, <2>3, <3>1 DEF TInv, TokensHaveRows, HasRow, HasCached, TypeOK, Cached
    <3> QED
      BY <2>2, <3>1, <3>2
  <2>4. CASE FillCache(r)
    <3>1. token[r] \in Token /\ found[r] \in Stamp \union {None}
      BY <1>0, <2>4 DEF FillCache, TInv, TokensHaveRows, TypeOK
    <3> QED
      BY <2>2, <2>4, <3>1 DEF FillCache
  <2>5. ASSUME SaveToken(r) PROVE FALSE
    BY <1>0, <2>5 DEF SaveToken, TypeOK
  <2> QED
    BY <1>2, <2>1, <2>3, <2>4, <2>5 DEF RequestStep, ReadActor, Answer, UpdateCurrentUser,
                                        RemoveRoot, Done
<1> QED
  BY <1>1, <1>2

LEMMA StepGInv == GInv /\ [Next]_vars => GInv'
BY StepAInv, StepFew, StepCacheAsRead, StepFoundAsRead, StepSavesAreNew DEF GInv, AInv

-----------------------------------------------------------------------------
(* What the guard decides, judged by the row as it is. *)

\* A request is admitted or refused on a cached token or on one just read.
LEMMA WhoDecides ==
  ASSUME TInv, [Next]_vars, NEW r \in Requests, NEW verdict \in {"admitted", "refused"},
         pc[r] # verdict, pc'[r] = verdict
  PROVE  /\ token'[r] \in Token /\ HasRow(token'[r].id)
         /\ \E saved \in Stamp \union {None} :
               /\ Decide(r, token'[r], saved)
               /\ \/ HasCached(token'[r].id) /\ saved = cache[token'[r].id].saved
                  \/ pc[r] = "filling" /\ saved = found[r] /\ token'[r] = token[r]
<1>0. TypeOK /\ TokensHaveRows
  BY DEF TInv
<1>1. RequestStep(r)
  BY OtherRequests, OtherLogins DEF Next, Tick, Restart, vars, guard
<1>2. ASSUME NEW t \in issued, Request(r, t) 
      PROVE  /\ t \in Token /\ HasRow(t.id) /\ token'[r] = t
             /\ HasCached(t.id) /\ cache[t.id].saved \in Stamp /\ Decide(r, t, cache[t.id].saved)
  <2>1. t \in Token /\ HasRow(t.id) /\ token'[r] = t
    BY <1>0, <1>2 DEF Request, TypeOK, TokensHaveRows
  <2>2. HasCached(t.id) /\ Decide(r, t, cache[t.id].saved)
    BY <1>0, <1>2 DEF Request, TypeOK
  <2> QED
    BY <1>0, <2>1, <2>2 DEF HasRow, HasCached, TypeOK, Cached
<1>3. ASSUME FillCache(r)
      PROVE  /\ token[r] \in Token /\ HasRow(token[r].id) /\ token' = token
             /\ found[r] \in Stamp \union {None} /\ pc[r] = "filling"
             /\ Decide(r, token[r], found[r])
  BY <1>0, <1>3 DEF FillCache, TokensHaveRows, TypeOK
<1>4. ASSUME ReadActor(r) \/ SaveToken(r) \/ Answer(r) \/ UpdateCurrentUser(r) \/ RemoveRoot(r)
      PROVE  FALSE
  BY <1>0, <1>4 DEF ReadActor, SaveToken, Answer, UpdateCurrentUser, RemoveRoot, Done, TypeOK
<1> QED
  BY <1>1, <1>2, <1>3, <1>4 DEF RequestStep

\* What is decided on is the row as it is, or the row was updated within CacheTTL, and its
\* token, if it was replaced since, is no older than that.
LEMMA DecidedOnRow ==
  ASSUME GInv, NEW r \in Requests, NEW t \in Token, HasRow(t.id), NEW saved,
         \/ HasCached(t.id) /\ saved = cache[t.id].saved
         \/ pc[r] = "filling" /\ saved = found[r] /\ t = token[r]
  PROVE  \/ saved = None /\ actor[t.id].deleted
         \/ AsReadSince(t.id, saved, now - CacheTTL)
<1>0. /\ TInv /\ TypeOK /\ CacheTTL \in Nat /\ now \in Int
      /\ actor[t.id].updated \in Int /\ actor[t.id].saved.at \in Int
  BY RowTypes, AccountsAssumption DEF GInv, AInv, TInv, TypeOK
<1>1. CASE HasCached(t.id) /\ saved = cache[t.id].saved
  <2>1. now < cache[t.id].until /\ cache[t.id].until \in Int
    BY <1>0, <1>1 DEF HasCached, TypeOK, Cached, HasRow
  <2>2. AsReadSince(t.id, saved, cache[t.id].until - CacheTTL)
    BY <1>1 DEF GInv, CacheAsRead, HasCached, HasRow
  <2>3. now - CacheTTL <= cache[t.id].until - CacheTTL
    BY <1>0, <2>1
  <2> QED
    BY <1>0, <2>1, <2>2, <2>3 DEF AsReadSince
<1>2. CASE pc[r] = "filling" /\ saved = found[r] /\ t = token[r]
  <2>1. IF saved = None THEN actor[t.id].deleted ELSE AsReadSince(t.id, saved, now)
    BY <1>2 DEF GInv, FoundAsRead
  <2>2. now - CacheTTL <= now
    BY <1>0
  <2> QED
    BY <1>0, <2>1, <2>2 DEF AsReadSince
<1> QED
  BY <1>1, <1>2

(* jwt.strategy.ts:57: of an actor that was removed, or whose token was replaced, longer ago *)
(* than the cache lasts, no old token is admitted.                                           *)
THEOREM StaleForOneTTLHolds == Spec => StaleForOneTTL
<1>1. GInv /\ [Next]_vars =>
        [\A r \in Requests : LET t == token'[r] IN
           pc[r] # "admitted" /\ pc'[r] = "admitted" /\ Outdated(t) =>
              /\ ~actor[t.id].deleted
              /\ Expired(t) => actor[t.id].saved = t.ts]_vars
  <2> SUFFICES ASSUME GInv, [Next]_vars, NEW r \in Requests, NEW t, t = token'[r],
                      pc[r] # "admitted", pc'[r] = "admitted", Outdated(t)
               PROVE  ~actor[t.id].deleted /\ (Expired(t) => actor[t.id].saved = t.ts)
    OBVIOUS
  <2>0. TInv /\ TypeOK /\ CacheTTL \in Nat /\ now \in Int
    BY AccountsAssumption DEF GInv, AInv, TInv, TypeOK
  <2>1. /\ t \in Token /\ HasRow(t.id)
        /\ \E saved \in Stamp \union {None} :
              /\ Decide(r, t, saved)
              /\ \/ HasCached(t.id) /\ saved = cache[t.id].saved
                 \/ pc[r] = "filling" /\ saved = found[r] /\ t = token[r]
    BY <2>0, WhoDecides
  <2>2. PICK saved \in Stamp \union {None} :
              /\ Decide(r, t, saved)
              /\ \/ HasCached(t.id) /\ saved = cache[t.id].saved
                 \/ pc[r] = "filling" /\ saved = found[r] /\ t = token[r]
    BY <2>1
  <2>3. saved # None /\ (Expired(t) => saved = t.ts)
    BY <2>0, <2>1, <2>2, Decided
  <2>4. AsReadSince(t.id, saved, now - CacheTTL)
    BY <2>1, <2>2, <2>3, DecidedOnRow
  <2>5. ~(actor[t.id].updated >= now - CacheTTL)
    BY <2>0, <2>1, RowTypes DEF Outdated
  <2> QED
    BY <2>3, <2>4, <2>5 DEF AsReadSince
<1> QED
  BY <1>1, InitGInv, StepGInv, PTL DEF Spec, StaleForOneTTL

(* auth.service.ts:71-92, jwt.guard.ts:30-40: the saved token of an actor that is not removed *)
(* is admitted, whatever the cache remembers.  This is where CacheTTL <= RefreshIn matters.   *)
THEOREM SavedTokenIsAdmittedHolds == Spec => SavedTokenIsAdmitted
<1>1. GInv /\ [Next]_vars =>
        [\A r \in Requests : LET t == token'[r] IN
           pc[r] # "refused" /\ pc'[r] = "refused" =>
              actor[t.id].deleted \/ actor[t.id].saved # t.ts]_vars
  <2> SUFFICES ASSUME GInv, [Next]_vars, NEW r \in Requests, NEW t, t = token'[r],
                      pc[r] # "refused", pc'[r] = "refused",
                      ~actor[t.id].deleted, actor[t.id].saved = t.ts
               PROVE  FALSE
    OBVIOUS
  <2>0. TInv /\ TypeOK /\ CacheTTL \in Nat /\ RefreshIn \in Nat /\ CacheTTL <= RefreshIn
        /\ now \in Int
    BY AccountsAssumption DEF GInv, AInv, TInv, TypeOK
  <2>1. /\ t \in Token /\ HasRow(t.id)
        /\ \E saved \in Stamp \union {None} :
              /\ Decide(r, t, saved)
              /\ \/ HasCached(t.id) /\ saved = cache[t.id].saved
                 \/ pc[r] = "filling" /\ saved = found[r] /\ t = token[r]
    BY <2>0, WhoDecides
  <2>2. PICK saved \in Stamp \union {None} :
              /\ Decide(r, t, saved)
              /\ \/ HasCached(t.id) /\ saved = cache[t.id].saved
                 \/ pc[r] = "filling" /\ saved = found[r] /\ t = token[r]
    BY <2>1
  <2>3. AsReadSince(t.id, saved, now - CacheTTL)
    BY <2>1, <2>2, DecidedOnRow
  <2>4. saved = None \/ (Expired(t) /\ saved # t.ts)
    BY <2>0, <2>1, <2>2, Decided
  <2>5. saved # None
    <3>1. CASE HasCached(t.id) /\ saved = cache[t.id].saved
      BY <2>0, <2>1, <3>1, NoneIsNothing DEF HasCached, HasRow, TypeOK, Cached
    <3>2. CASE pc[r] = "filling" /\ saved = found[r] /\ t = token[r]
      BY <3>2 DEF GInv, FoundAsRead
    <3> QED
      BY <2>2, <3>1, <3>2
  <2>6. ~(actor[t.id].saved.at >= now - CacheTTL)
    <3>1. t.ts.at \in Int /\ now - t.ts.at > RefreshIn
      BY <2>1, <2>4, <2>5 DEF Expired, Token, Stamp
    <3> QED
      BY <2>0, <3>1
  <2> QED
    BY <2>3, <2>4, <2>5, <2>6 DEF AsReadSince
<1> QED
  BY <1>1, InitGInv, StepGInv, PTL DEF Spec, SavedTokenIsAdmitted
=============================================================================

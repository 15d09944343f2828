------------------------ MODULE ActorLifecycleProofs ------------------------
(***************************************************************************)
(* Proofs about ActorLifecycle for every set of actors, every tree, every  *)
(* choice of prompts and any number of restarts.                           *)
(***************************************************************************)
EXTENDS ActorLifecycle, TLAPS

(***************************************************************************)
(* The inductive invariant.  Place says what the fiber running             *)
(* _createActor has established at each of its places; Progress is the     *)
(* token argument: the five counters of an actor never sum to more than    *)
(* one, because each handler consumes the event or chain it runs for       *)
(* before it emits the next one, and only InsertRow creates a token out of *)
(* nothing, which it does once per id.  EarlyMember keeps a parent from    *)
(* starting its early members twice.  InTx is about transactions: an open  *)
(* row is one of a transaction that is open, under the fiber that opened   *)
(* it, and as long as that fiber handles, the members an actor in it gets  *)
(* are rows of the same transaction.                                       *)
(***************************************************************************)
Place(a) ==
    /\ pc[a] \in {"idle", "inserting"} => row[a] = "absent"
    /\ row[a] = "absent" => /\ pc[a] \in {"idle", "inserting", "failed"}
                            /\ Tokens(a) = 0 /\ status[a] = "none" /\ onCreateRuns[a] = 0
    /\ pc[a] = "handling" => createRunning[a] = 1
    /\ pc[a] \in {"committing", "aborted"} => tx[a] = a
    /\ tx[a] = a => /\ pc[a] \in {"handling", "committing"} => row[a] \in {"open", "gone"}
                    /\ pc[a] = "done" => row[a] \in {"committed", "deleted"}
                    /\ pc[a] = "failed" => row[a] \in {"absent", "gone"}
                    /\ pc[a] = "aborted" => row[a] = "gone"
    /\ row[a] \in {"open", "committed", "deleted"} /\ a \in Hosted => onCreateRuns[a] = 1

Progress(a) ==
    /\ Tokens(a) <= 1
    /\ onCreateRuns[a] <= 1
    /\ Tokens(a) > 0 => /\ a \in Hosted \ Singleton
                        /\ onCreateRuns[a] = 1
                        /\ status[a] \in {"creating", "initing"}
    /\ createdQueued[a] + createdRunning[a] > 0 => inited[a]
    /\ status[a] = "ready" => /\ onCreateRuns[a] = 1
                              /\ a \in Singleton \/ (inited[a] /\ checked[a])
    /\ a \in served => status[a] = "ready"

EarlyMember(m) ==
    m \in Early /\ pc[m] # "idle" =>
        /\ pc[ParentOf[m]] \notin {"idle", "inserting", "handling"}
        /\ createRunning[ParentOf[m]] = 0

InTx(b) ==
    /\ pc[b] = "idle" => tx[b] = b
    /\ tx[b] # b => /\ tx[tx[b]] = tx[b]
                    /\ pc[tx[b]] \notin {"idle", "inserting"}
                    /\ ParentOf[b] \in Actor /\ tx[ParentOf[b]] = tx[b]
    /\ row[b] = "open" => row[tx[b]] = "open" /\ pc[tx[b]] \in {"handling", "committing"}
    /\ pc[b] # "idle" /\ ParentOf[b] \in Actor =>
         /\ row[ParentOf[b]] # "absent"
         /\ Joined(ParentOf[b]) => tx[b] = tx[ParentOf[b]]

IInv == TypeOK /\ \A a \in Actor : Place(a) /\ Progress(a) /\ EarlyMember(a) /\ InTx(a)

LEMMA SumOfFive ==
  ASSUME NEW v \in Nat, NEW w \in Nat, NEW x \in Nat, NEW y \in Nat, NEW z \in Nat,
         v + w + x + y + z = 0
  PROVE  v = 0 /\ w = 0 /\ x = 0 /\ y = 0 /\ z = 0
OBVIOUS

LEMMA CounterTypes ==
  ASSUME TypeOK, NEW a \in Actor
  PROVE  /\ createRunning[a] \in Nat /\ initQueued[a] \in Nat /\ initRunning[a] \in Nat
         /\ createdQueued[a] \in Nat /\ createdRunning[a] \in Nat
BY DEF TypeOK

\* No token: every counter is zero.
LEMMA NoToken ==
  ASSUME TypeOK, NEW a \in Actor, Tokens(a) = 0
  PROVE  /\ createRunning[a] = 0 /\ initQueued[a] = 0 /\ initRunning[a] = 0
         /\ createdQueued[a] = 0 /\ createdRunning[a] = 0
BY SumOfFive, CounterTypes DEF Tokens

LEMMA InitIInv == Init => IInv
BY UserAssumption, TreeAssumption
   DEF Init, IInv, TypeOK, Rows, Places, Status, Place, Progress, EarlyMember, InTx, Joined, Tokens

LEMMA StepTypeOK == IInv /\ [Next]_vars => TypeOK'
<1> SUFFICES ASSUME IInv, [Next]_vars PROVE TypeOK'
  OBVIOUS
<1> USE DEF TypeOK, Rows, Places, Status, Incr, Decr, StartEarlyMembers, EarlyTx, Joined,
            Returned, RolledBack, dbVars, eventVars, histVars
<1>0. TypeOK /\ \A a \in Actor : pc[a] = "handling" => createRunning[a] = 1
  BY DEF IInv, Place
<1>1. ASSUME NEW a \in Actor, CreateRequest(a) \/ Chat(a) \/ Remove(a) PROVE TypeOK'
  BY <1>0, <1>1 DEF CreateRequest, Chat, Remove
<1>2. ASSUME NEW a \in Actor, InsertRow(a) PROVE TypeOK'
  BY <1>0, <1>2 DEF InsertRow
<1>3. ASSUME NEW a \in Actor,
             ContextLost(a) \/ InsertConflict(a) \/ TransactionClosed(a) \/ OnCreatePending(a)
               \/ Commit(a) \/ CommitFails(a) \/ TimesOut(a)
      PROVE  TypeOK'
  BY <1>0, <1>3 DEF ContextLost, InsertConflict, TransactionClosed, OnCreatePending,
                    Commit, CommitFails, TimesOut
<1>4. ASSUME NEW a \in Actor, CreateHandled(a) PROVE TypeOK'
  BY <1>0, <1>4 DEF CreateHandled
<1>5. ASSUME NEW a \in Actor, OnCreateThrows(a) PROVE TypeOK'
  BY <1>0, <1>5 DEF OnCreateThrows
<1>6. ASSUME NEW a \in Actor, CreateChainResolves(a) PROVE TypeOK'
  BY <1>0, <1>6 DEF CreateChainResolves, ChainPending
<1>7. ASSUME NEW a \in Actor, CreateChainRejects(a) PROVE TypeOK'
  BY <1>0, <1>7 DEF CreateChainRejects, ChainPending
<1>8. ASSUME NEW a \in Actor, Listen(a) PROVE TypeOK'
  <2>1. CASE InitEvent(a)
    BY <1>0, <2>1 DEF InitEvent
  <2>2. CASE InitHandled(a)
    BY <1>0, <2>2 DEF InitHandled
  <2>3. CASE InitThrows(a)
    BY <1>0, <2>3 DEF InitThrows
  <2>4. CASE CreatedEvent(a)
    BY <1>0, <2>4 DEF CreatedEvent
  <2>5. CASE CreatedPasses(a)
    BY <1>0, <2>5 DEF CreatedPasses
  <2>6. CASE CreatedAnswers(a)
    BY <1>0, <2>6 DEF CreatedAnswers
  <2>7. CASE CreatedThrows(a)
    BY <1>0, <2>7 DEF CreatedThrows
  <2> QED
    BY <1>8, <2>1, <2>2, <2>3, <2>4, <2>5, <2>6, <2>7, Zenon DEF Listen
<1>9. CASE Restart
  BY <1>0, <1>9 DEF Restart, Zero
<1>10. CASE UNCHANGED vars
  BY <1>0, <1>10 DEF vars
<1> QED
  BY <1>1, <1>2, <1>3, <1>4, <1>5, <1>6, <1>7, <1>8, <1>9, <1>10
     DEF Next, Create

(***************************************************************************)
(* A step of one actor a, seen from an arbitrary actor b.                  *)
(***************************************************************************)
LEMMA CreateStep ==
  ASSUME IInv, NEW a \in Actor, CreateRequest(a) \/ Create(a), NEW b \in Actor
  PROVE  Place(b)' /\ Progress(b)'
<1> USE DEF IInv, TypeOK, Rows, Places, Status, Incr, Decr, Tokens, Returned,
            dbVars, eventVars, histVars
<1>1. CASE CreateRequest(a)
  <2>1. tx'[b] = tx[b] \/ (b = a /\ pc'[b] = "inserting")
    BY <1>1 DEF CreateRequest
  <2> QED
    BY <1>1, <2>1 DEF CreateRequest, Place, Progress
<1>2. CASE InsertRow(a)
  <2>1. CASE a \in Hosted \ Singleton
    <3>1. CASE b = a
      <4>1. Tokens(a) = 0 /\ status[a] = "none" /\ onCreateRuns[a] = 0 /\ a \notin served
        BY <1>2 DEF InsertRow, Place, Progress
      <4>2. /\ row'[a] = "open" /\ pc'[a] = "handling" /\ status'[a] = "creating"
            /\ createRunning'[a] = createRunning[a] + 1 /\ onCreateRuns'[a] = onCreateRuns[a] + 1
            /\ UNCHANGED <<tx, initQueued, initRunning, createdQueued, createdRunning, served>>
        BY <1>2, <2>1 DEF InsertRow
      <4>3. /\ createRunning[a] = 0 /\ initQueued[a] = 0 /\ initRunning[a] = 0
            /\ createdQueued[a] = 0 /\ createdRunning[a] = 0
        BY <4>1, NoToken
      <4> QED
        BY <4>1, <4>2, <4>3, <2>1, <3>1 DEF Place, Progress
    <3>2. CASE b # a
      BY <1>2, <2>1, <3>2 DEF InsertRow, Place, Progress
    <3> QED
      BY <3>1, <3>2
  <2>2. CASE a \in Singleton
    BY <1>2, <2>2, HostAssumption DEF InsertRow, Place, Progress
  <2>3. CASE a \notin Hosted
    BY <1>2, <2>3, HostAssumption DEF InsertRow, Place, Progress
  <2> QED
    BY <2>1, <2>2, <2>3
<1>3. CASE ContextLost(a) \/ InsertConflict(a) \/ TransactionClosed(a)
  BY <1>3 DEF ContextLost, InsertConflict, TransactionClosed, RolledBack, Place, Progress
<1>8. CASE OnCreatePending(a)
  BY <1>8 DEF OnCreatePending, Place, Progress
<1>9. CASE Commit(a)
  BY <1>9 DEF Commit, Place, Progress
<1>10. CASE CommitFails(a) \/ TimesOut(a)
  BY <1>10 DEF CommitFails, TimesOut, RolledBack, Place, Progress
<1>4. CASE CreateHandled(a)
  <2>1. CASE b = a
    <3>1. /\ pc'[a] = Returned(a) /\ row'[a] = row[a] /\ status'[a] = status[a] /\ tx'[a] = tx[a]
          /\ createRunning'[a] = createRunning[a] - 1 /\ initQueued'[a] = initQueued[a] + 1
          /\ UNCHANGED <<initRunning, createdQueued, createdRunning, histVars, served>>
      BY <1>4, EarlyAssumption, TreeAssumption
         DEF CreateHandled, StartEarlyMembers, EarlyTx, EarlyMembers
    <3> QED
      BY <1>4, <2>1, <3>1 DEF CreateHandled, Place, Progress
  <2>2. CASE b # a /\ b \notin EarlyMembers(a)
    BY <1>4, <2>2 DEF CreateHandled, StartEarlyMembers, EarlyTx, Place, Progress
  <2>3. CASE b # a /\ b \in EarlyMembers(a)
    <3>1. pc[b] = "idle"
      BY <1>4, <2>3 DEF CreateHandled, EarlyMembers, EarlyMember
    <3>2. /\ pc'[b] = "inserting" /\ row'[b] = row[b] /\ status'[b] = status[b]
          /\ createRunning'[b] = createRunning[b] /\ initQueued'[b] = initQueued[b]
          /\ UNCHANGED <<initRunning, createdQueued, createdRunning, histVars, served>>
      BY <1>4, <2>3 DEF CreateHandled, StartEarlyMembers
    <3> QED
      BY <3>1, <3>2 DEF Place, Progress
  <2> QED
    BY <2>1, <2>2, <2>3
<1>5. CASE OnCreateThrows(a)
  BY <1>5 DEF OnCreateThrows, RolledBack, Place, Progress
<1>6. CASE CreateChainResolves(a)
  <2>1. CASE b = a
    <3>1. pc'[a] = pc[a] /\ tx'[a] = tx[a]
      BY <1>6, EarlyAssumption, TreeAssumption
         DEF CreateChainResolves, StartEarlyMembers, EarlyTx, EarlyMembers
    <3> QED
      BY <1>6, <2>1, <3>1 DEF CreateChainResolves, ChainPending, Place, Progress
  <2>2. CASE b # a
    <3>1. \/ pc'[b] = pc[b] /\ tx'[b] = tx[b]
          \/ pc[b] = "idle" /\ pc'[b] = "inserting"
      BY <1>6, EarlyAssumption
         DEF CreateChainResolves, ChainPending, StartEarlyMembers, EarlyTx, EarlyMembers, EarlyMember
    <3> QED
      BY <1>6, <2>2, <3>1 DEF CreateChainResolves, Place, Progress
  <2> QED
    BY <2>1, <2>2
<1>7. CASE CreateChainRejects(a)
  <2>1. CASE b = a
    BY <1>7, <2>1 DEF CreateChainRejects, ChainPending, Place, Progress
  <2>2. CASE b # a
    BY <1>7, <2>2 DEF CreateChainRejects, ChainPending, Place, Progress
  <2> QED
    BY <2>1, <2>2
<1> QED
  BY <1>1, <1>2, <1>3, <1>4, <1>5, <1>6, <1>7, <1>8, <1>9, <1>10, Zenon DEF Create

LEMMA ListenStep ==
  ASSUME IInv, NEW a \in Actor, Listen(a), NEW b \in Actor
  PROVE  Place(b)' /\ Progress(b)'
<1> USE HostAssumption
    DEF IInv, TypeOK, Rows, Places, Status, Incr, Decr, Tokens, dbVars, eventVars, histVars
<1>1. CASE InitEvent(a)
  BY <1>1 DEF InitEvent, Place, Progress
<1>2. CASE InitHandled(a)
  BY <1>2 DEF InitHandled, Place, Progress
<1>3. CASE InitThrows(a)
  BY <1>3 DEF InitThrows, Place, Progress
<1>4. CASE CreatedEvent(a)
  BY <1>4 DEF CreatedEvent, Place, Progress
<1>5. CASE CreatedPasses(a)
  BY <1>5 DEF CreatedPasses, Place, Progress
<1>6. CASE CreatedAnswers(a)
  BY <1>6 DEF CreatedAnswers, Place, Progress
<1>7. CASE CreatedThrows(a)
  BY <1>7 DEF CreatedThrows, Place, Progress
<1> QED
  BY <1>1, <1>2, <1>3, <1>4, <1>5, <1>6, <1>7, Zenon DEF Listen

LEMMA OtherStep ==
  ASSUME IInv, \/ \E a \in Actor : Chat(a) \/ Remove(a)
               \/ Restart
               \/ UNCHANGED vars,
         NEW b \in Actor
  PROVE  Place(b)' /\ Progress(b)'
<1> USE DEF IInv, TypeOK, Rows, Places, Status, Tokens, dbVars, eventVars, histVars
<1>1. ASSUME NEW a \in Actor, Chat(a) PROVE Place(b)' /\ Progress(b)'
  BY <1>1 DEF Chat, Place, Progress
<1>2. ASSUME NEW a \in Actor, Remove(a) PROVE Place(b)' /\ Progress(b)'
  BY <1>2 DEF Remove, Place, Progress
<1>3. CASE Restart
  BY <1>3 DEF Restart, Zero, Place, Progress
<1>4. CASE UNCHANGED vars
  BY <1>4 DEF vars, Place, Progress
<1> QED
  BY <1>1, <1>2, <1>3, <1>4, Zenon

\* Early members are started by the one step that ends their parent's create handler.
LEMMA EarlyStep ==
  ASSUME IInv, [Next]_vars, NEW m \in Actor
  PROVE  EarlyMember(m)'
<1> SUFFICES ASSUME m \in Early, pc'[m] # "idle"
             PROVE  /\ pc'[ParentOf[m]] \notin {"idle", "inserting", "handling"}
                    /\ createRunning'[ParentOf[m]] = 0
  BY DEF EarlyMember
<1> DEFINE p == ParentOf[m]
<1>1. p \in Actor /\ p # m /\ p \in Hosted \ Singleton
  BY EarlyAssumption, TreeAssumption, HostAssumption
<1>2. TypeOK /\ Place(p) /\ Place(m) /\ Progress(p) /\ EarlyMember(m)
  BY <1>1 DEF IInv
<1> USE DEF TypeOK, Rows, Places, Status, Incr, Decr, dbVars, eventVars, histVars
<1> HIDE DEF p
<1>3. CASE pc[m] # "idle"
  <2>1. pc[p] \notin {"idle", "inserting", "handling"} /\ createRunning[p] = 0
    BY <1>2, <1>3 DEF EarlyMember, p
  <2>2. ASSUME NEW a \in Actor, CreateRequest(a) \/ Chat(a) \/ Remove(a)
        PROVE  pc'[p] \notin {"idle", "inserting", "handling"} /\ createRunning'[p] = 0
    BY <1>1, <1>2, <2>1, <2>2 DEF CreateRequest, Chat, Remove
  <2>3. ASSUME NEW a \in Actor, InsertRow(a)
        PROVE  pc'[p] \notin {"idle", "inserting", "handling"} /\ createRunning'[p] = 0
    BY <1>1, <1>2, <2>1, <2>3 DEF InsertRow
  <2>4. ASSUME NEW a \in Actor, CreateHandled(a)
        PROVE  pc'[p] \notin {"idle", "inserting", "handling"} /\ createRunning'[p] = 0
    <3>1. a # p
      BY <2>1, <2>4 DEF CreateHandled
    <3>2. a # ParentOf[p] \/ p \notin Early
      BY <1>1, <2>1, <2>4 DEF CreateHandled, IInv, EarlyMember
    <3> QED
      BY <1>1, <1>2, <2>1, <2>4, <3>1, <3>2 DEF CreateHandled, StartEarlyMembers, EarlyMembers
  <2>5. ASSUME NEW a \in Actor, CreateChainResolves(a)
        PROVE  pc'[p] \notin {"idle", "inserting", "handling"} /\ createRunning'[p] = 0
    <3>1. a # p
      BY <1>2, <2>1, <2>5 DEF CreateChainResolves, ChainPending
    <3>2. a # ParentOf[p] \/ p \notin Early
      BY <1>1, <2>1, <2>5 DEF CreateChainResolves, ChainPending, IInv, EarlyMember
    <3> QED
      BY <1>1, <1>2, <2>1, <2>5, <3>1, <3>2 DEF CreateChainResolves, StartEarlyMembers, EarlyMembers
  <2>6. ASSUME NEW a \in Actor,
               \/ ContextLost(a) \/ InsertConflict(a) \/ TransactionClosed(a) \/ OnCreatePending(a)
               \/ Commit(a) \/ CommitFails(a) \/ TimesOut(a)
        PROVE  pc'[p] \notin {"idle", "inserting", "handling"} /\ createRunning'[p] = 0
    BY <1>1, <1>2, <2>1, <2>6
       DEF ContextLost, InsertConflict, TransactionClosed, OnCreatePending, Commit, CommitFails, TimesOut
  <2>7. ASSUME NEW a \in Actor, OnCreateThrows(a) \/ CreateChainRejects(a)
        PROVE  pc'[p] \notin {"idle", "inserting", "handling"} /\ createRunning'[p] = 0
    BY <1>1, <1>2, <2>1, <2>7 DEF OnCreateThrows, CreateChainRejects, ChainPending
  <2>8. ASSUME NEW a \in Actor, Listen(a)
        PROVE  pc'[p] \notin {"idle", "inserting", "handling"} /\ createRunning'[p] = 0
    BY <2>1, <2>8 DEF Listen, InitEvent, InitHandled, InitThrows,
                      CreatedEvent, CreatedPasses, CreatedAnswers, CreatedThrows
  <2>9. CASE Restart
    BY <1>1, <1>2, <2>1, <2>9 DEF Restart, Zero, p
  <2>10. CASE UNCHANGED vars
    BY <2>1, <2>10 DEF vars, p
  <2> QED
    BY <2>2, <2>3, <2>4, <2>5, <2>6, <2>7, <2>8, <2>9, <2>10 DEF Next, Create, p
<1>4. CASE pc[m] = "idle"
  <2>1. PICK a \in Actor : CreateHandled(a) \/ CreateChainResolves(a)
    <3>1. ASSUME NEW a \in Actor, Listen(a) PROVE FALSE
      BY <1>4, <3>1 DEF Listen, InitEvent, InitHandled, InitThrows,
                        CreatedEvent, CreatedPasses, CreatedAnswers, CreatedThrows
    <3>2. ASSUME NEW a \in Actor, CreateRequest(a) \/ Chat(a) \/ Remove(a) PROVE FALSE
      BY <1>2, <1>4, <3>2 DEF CreateRequest, Chat, Remove
    <3>3. ASSUME NEW a \in Actor,
                 \/ InsertRow(a) \/ ContextLost(a) \/ InsertConflict(a) \/ TransactionClosed(a) \/ OnCreatePending(a)
                 \/ OnCreateThrows(a) \/ CreateChainRejects(a) \/ Commit(a) \/ CommitFails(a) \/ TimesOut(a)
          PROVE FALSE
      BY <1>2, <1>4, <3>3 DEF InsertRow, ContextLost, InsertConflict, TransactionClosed, OnCreatePending,
           OnCreateThrows, CreateChainRejects, ChainPending, Commit, CommitFails, TimesOut
    <3>4. ~Restart /\ ~UNCHANGED vars
      BY <1>2, <1>4 DEF Restart, vars
    <3> QED
      BY <3>1, <3>2, <3>3, <3>4 DEF Next, Create
  <2>2. a = p
    BY <1>2, <1>4, <2>1 DEF CreateHandled, CreateChainResolves, ChainPending,
                            StartEarlyMembers, EarlyMembers, p
  <2>3. createRunning[p] = 1
    <3>1. createRunning[p] > 0
      BY <1>2, <2>1, <2>2 DEF CreateHandled, CreateChainResolves, ChainPending, Place
    <3>2. Tokens(p) <= 1
      BY <1>2 DEF Progress
    <3> HIDE DEF TypeOK
    <3> QED
      BY <1>1, <1>2, <3>1, <3>2, CounterTypes DEF Tokens
  <2>4. createRunning'[p] = 0
    BY <1>1, <1>2, <2>1, <2>2, <2>3 DEF CreateHandled, CreateChainResolves
  <2>5. pc'[p] \notin {"idle", "inserting", "handling"}
    BY <1>1, <1>2, <2>1, <2>2, TreeAssumption
       DEF CreateHandled, CreateChainResolves, ChainPending, StartEarlyMembers, EarlyMembers,
           Returned, p
  <2> QED
    BY <2>4, <2>5 DEF p
<1> QED
  BY <1>3, <1>4

(***************************************************************************)
(* The fiber and the transaction of one actor c in any step: a creation    *)
(* that was started never starts again, keeps its transaction and, once    *)
(* answered, does not go back to its insert; a row that exists does not    *)
(* vanish.                                                                 *)
(***************************************************************************)
Framed(c) ==
    /\ pc[c] # "idle" => pc'[c] # "idle" /\ tx'[c] = tx[c]
    /\ pc'[c] = "idle" => tx'[c] = tx[c]
    /\ pc[c] \notin {"idle", "inserting"} => pc'[c] \notin {"idle", "inserting"}
    /\ row[c] # "absent" => row'[c] # "absent"
    /\ pc[c] # "handling" /\ pc'[c] = "handling" => pc[c] = "inserting"
    /\ pc[c] = "failed" => pc'[c] = "failed"

LEMMA FrameStep ==
  ASSUME IInv, [Next]_vars, NEW c \in Actor
  PROVE  Framed(c)
<1>1. TypeOK /\ Place(c) /\ EarlyMember(c)
  BY DEF IInv
<1> USE <1>1 DEF TypeOK, dbVars, Returned, RolledBack, Framed
<1>2. ASSUME NEW a \in Actor, CreateRequest(a) \/ Chat(a) \/ Remove(a) PROVE Framed(c)
  BY <1>2 DEF CreateRequest, Chat, Remove
<1>3. ASSUME NEW a \in Actor, InsertRow(a) PROVE Framed(c)
  BY <1>3 DEF InsertRow
<1>4. ASSUME NEW a \in Actor,
             ContextLost(a) \/ InsertConflict(a) \/ TransactionClosed(a) \/ OnCreatePending(a)
      PROVE  Framed(c)
  BY <1>4 DEF ContextLost, InsertConflict, TransactionClosed, OnCreatePending
<1>5. ASSUME NEW a \in Actor, Commit(a) \/ CommitFails(a) \/ TimesOut(a) PROVE Framed(c)
  BY <1>5 DEF Commit, CommitFails, TimesOut
<1>6. ASSUME NEW a \in Actor, CreateHandled(a) \/ CreateChainResolves(a) PROVE Framed(c)
  <2>1. c \in EarlyMembers(a) => pc[c] = "idle"
    BY <1>6 DEF CreateHandled, CreateChainResolves, ChainPending, EarlyMembers, EarlyMember
  <2>2. CASE c \in EarlyMembers(a)
    <3>1. c # a
      BY <2>2, TreeAssumption DEF EarlyMembers
    <3> QED
      BY <1>6, <2>1, <2>2, <3>1 DEF CreateHandled, CreateChainResolves, StartEarlyMembers
  <2>3. CASE c \notin EarlyMembers(a)
    BY <1>6, <2>3
       DEF CreateHandled, CreateChainResolves, ChainPending, StartEarlyMembers, EarlyTx
  <2> QED
    BY <2>2, <2>3
<1>7. ASSUME NEW a \in Actor, OnCreateThrows(a) \/ CreateChainRejects(a) PROVE Framed(c)
  BY <1>7 DEF OnCreateThrows, CreateChainRejects
<1>8. ASSUME NEW a \in Actor, Listen(a) PROVE Framed(c)
  BY <1>8 DEF Listen, InitEvent, InitHandled, InitThrows,
              CreatedEvent, CreatedPasses, CreatedAnswers, CreatedThrows
<1>9. CASE Restart
  BY <1>9 DEF Restart
<1>10. CASE UNCHANGED vars
  BY <1>10 DEF vars
<1> QED
  BY <1>2, <1>3, <1>4, <1>5, <1>6, <1>7, <1>8, <1>9, <1>10, Zenon DEF Next, Create

\* Two ways to start a creation: it is asked for, or the parent's create handler ends.
LEMMA StartStep ==
  ASSUME IInv, [Next]_vars, NEW b \in Actor, pc[b] = "idle", pc'[b] # "idle"
  PROVE  \/ CreateRequest(b)
         \/ \E a \in Actor : /\ CreateHandled(a) \/ CreateChainResolves(a)
                             /\ b \in EarlyMembers(a)
<1>1. TypeOK
  BY DEF IInv
<1> USE <1>1 DEF TypeOK, dbVars, Returned, RolledBack
<1>2. ASSUME NEW a \in Actor, Chat(a) \/ Remove(a) \/ Listen(a) PROVE FALSE
  BY <1>2 DEF Chat, Remove, Listen, InitEvent, InitHandled, InitThrows,
              CreatedEvent, CreatedPasses, CreatedAnswers, CreatedThrows
<1>3. ASSUME NEW a \in Actor,
             \/ InsertRow(a) \/ ContextLost(a) \/ InsertConflict(a) \/ TransactionClosed(a)
             \/ OnCreatePending(a) \/ OnCreateThrows(a) \/ CreateChainRejects(a)
             \/ Commit(a) \/ CommitFails(a) \/ TimesOut(a)
      PROVE  FALSE
  BY <1>3 DEF InsertRow, ContextLost, InsertConflict, TransactionClosed, OnCreatePending,
              OnCreateThrows, CreateChainRejects, Commit, CommitFails, TimesOut
<1>4. ASSUME NEW a \in Actor, CreateRequest(a) PROVE a = b
  BY <1>4 DEF CreateRequest
<1>5. ASSUME NEW a \in Actor, CreateHandled(a) \/ CreateChainResolves(a)
      PROVE  b \in EarlyMembers(a)
  BY <1>5 DEF CreateHandled, CreateChainResolves, ChainPending, StartEarlyMembers
<1>6. ~Restart /\ ~UNCHANGED vars
  BY DEF Restart, vars
<1> QED
  BY <1>2, <1>3, <1>4, <1>5, <1>6, Zenon DEF Next, Create

\* An open row stays in a transaction that is open, under the fiber that opened it.
LEMMA OpenStep ==
  ASSUME IInv, [Next]_vars, NEW b \in Actor, NEW t \in Actor, t = tx[b],
         row[b] = "open", row'[b] = "open"
  PROVE  row'[t] = "open" /\ pc'[t] \in {"handling", "committing"}
<1> DEFINE Open == row'[t] = "open" /\ pc'[t] \in {"handling", "committing"}
<1>1. /\ TypeOK /\ Place(t)
      /\ tx[t] = t /\ row[t] = "open" /\ pc[t] \in {"handling", "committing"}
  BY DEF IInv, InTx
<1>f. Framed(t)
  BY FrameStep
<1> USE <1>1 DEF TypeOK, dbVars, Returned, RolledBack
<1>2. ASSUME NEW a \in Actor, CreateRequest(a) \/ Chat(a) \/ Remove(a) PROVE Open
  BY <1>2 DEF CreateRequest, Chat, Remove
<1>3. ASSUME NEW a \in Actor, InsertRow(a) PROVE Open
  BY <1>3 DEF InsertRow
<1>4. ASSUME NEW a \in Actor,
             ContextLost(a) \/ InsertConflict(a) \/ TransactionClosed(a) \/ OnCreatePending(a)
      PROVE  Open
  BY <1>4 DEF ContextLost, InsertConflict, TransactionClosed, OnCreatePending
<1>5. ASSUME NEW a \in Actor, Commit(a) \/ CommitFails(a) \/ TimesOut(a) PROVE Open
  BY <1>5 DEF Commit, CommitFails, TimesOut
<1>6. ASSUME NEW a \in Actor, CreateHandled(a) \/ CreateChainResolves(a) PROVE Open
  <2>1. t \notin EarlyMembers(a)
    BY <1>6, <1>f, TreeAssumption
       DEF CreateHandled, CreateChainResolves, ChainPending, StartEarlyMembers, EarlyMembers, Framed
  <2> QED
    BY <1>6, <2>1 DEF CreateHandled, CreateChainResolves, StartEarlyMembers
<1>7. ASSUME NEW a \in Actor, OnCreateThrows(a) \/ CreateChainRejects(a) PROVE Open
  BY <1>7 DEF OnCreateThrows, CreateChainRejects
<1>8. ASSUME NEW a \in Actor, Listen(a) PROVE Open
  BY <1>8 DEF Listen, InitEvent, InitHandled, InitThrows,
              CreatedEvent, CreatedPasses, CreatedAnswers, CreatedThrows
<1>9. ~Restart
  BY DEF Restart
<1>10. CASE UNCHANGED vars
  BY <1>10 DEF vars
<1> QED
  BY <1>2, <1>3, <1>4, <1>5, <1>6, <1>7, <1>8, <1>9, <1>10, Zenon DEF Next, Create

\* Only the insert opens a row.
LEMMA OpensStep ==
  ASSUME IInv, [Next]_vars, NEW b \in Actor, row[b] # "open", row'[b] = "open"
  PROVE  InsertRow(b)
<1>1. TypeOK
  BY DEF IInv
<1> USE <1>1 DEF TypeOK, dbVars, RolledBack
<1>2. ASSUME NEW a \in Actor, CreateRequest(a) \/ Chat(a) \/ Remove(a) \/ Listen(a) PROVE FALSE
  BY <1>2 DEF CreateRequest, Chat, Remove, Listen, InitEvent, InitHandled, InitThrows,
              CreatedEvent, CreatedPasses, CreatedAnswers, CreatedThrows
<1>3. ASSUME NEW a \in Actor, InsertRow(a) PROVE a = b
  BY <1>3 DEF InsertRow
<1>4. ASSUME NEW a \in Actor,
             \/ ContextLost(a) \/ InsertConflict(a) \/ TransactionClosed(a)
             \/ OnCreatePending(a) \/ OnCreateThrows(a) \/ CreateHandled(a)
             \/ CreateChainResolves(a) \/ CreateChainRejects(a) \/ Commit(a) \/ CommitFails(a) \/ TimesOut(a)
      PROVE  FALSE
  BY <1>4 DEF ContextLost, InsertConflict, TransactionClosed, OnCreatePending, OnCreateThrows,
              CreateHandled, CreateChainResolves, CreateChainRejects, Commit, CommitFails, TimesOut
<1>5. ~Restart /\ ~UNCHANGED vars
  BY DEF Restart, vars
<1> QED
  BY <1>2, <1>3, <1>4, <1>5, Zenon DEF Next, Create

\* Members go into the transaction of their parent as long as it is open.
LEMMA InTxStep ==
  ASSUME IInv, [Next]_vars, NEW b \in Actor
  PROVE  InTx(b)'
<1> DEFINE P == ParentOf[b]
           t == tx[b]
<1>1. TypeOK /\ Place(b) /\ InTx(b) /\ Framed(b) /\ t \in Actor
  BY FrameStep DEF IInv, TypeOK
<1>2. ASSUME P \in Actor
      PROVE  Place(P) /\ Progress(P) /\ InTx(P) /\ Framed(P) /\ tx[P] \in Actor /\ P # b
             /\ Place(tx[P]) /\ InTx(tx[P]) /\ Framed(tx[P])
  BY <1>2, FrameStep, TreeAssumption DEF IInv, TypeOK
<1>3. Place(t) /\ InTx(t) /\ Framed(t)
  BY <1>1, FrameStep DEF IInv
<1> HIDE DEF P, t
<1>4. pc'[b] = "idle" => tx'[b] = b
  BY <1>1 DEF Framed, InTx
\* b was under way, and so was its parent
<1>5. ASSUME pc[b] # "idle", P \in Actor PROVE pc[P] \notin {"idle", "inserting"}
  BY <1>1, <1>2, <1>5 DEF InTx, Place, P
<1>6. ASSUME tx'[b] # b
      PROVE  /\ tx'[tx'[b]] = tx'[b]
             /\ pc'[tx'[b]] \notin {"idle", "inserting"}
             /\ P \in Actor /\ tx'[P] = tx'[b]
  <2>1. CASE pc[b] # "idle"
    <3>1. tx'[b] = t /\ t # b
      BY <1>1, <1>6, <2>1 DEF Framed, t
    <3>2. tx[t] = t /\ pc[t] \notin {"idle", "inserting"} /\ P \in Actor /\ tx[P] = t
      BY <1>1, <3>1 DEF InTx, t, P
    <3>3. tx'[t] = t /\ pc'[t] \notin {"idle", "inserting"}
      BY <1>3, <3>2 DEF Framed
    <3>4. tx'[P] = t
      BY <1>2, <1>5, <2>1, <3>2 DEF Framed
    <3> QED
      BY <3>1, <3>2, <3>3, <3>4
  <2>2. CASE pc[b] = "idle"
    <3>1. tx[b] = b /\ pc'[b] # "idle"
      BY <1>1, <1>6, <2>2 DEF InTx, Framed
    <3>2. P \in Actor /\ Joined(P) /\ tx'[b] = tx[P]
      <4>1. CASE CreateRequest(b)
        BY <1>1, <1>6, <3>1, <4>1 DEF CreateRequest, Joined, TypeOK, P
      <4>2. ASSUME NEW a \in Actor, CreateHandled(a) \/ CreateChainResolves(a), b \in EarlyMembers(a)
            PROVE  P \in Actor /\ Joined(P) /\ tx'[b] = tx[P]
        BY <1>6, <3>1, <4>2 DEF CreateHandled, CreateChainResolves, EarlyTx, EarlyMembers, P
      <4> QED
        BY <2>2, <3>1, <4>1, <4>2, StartStep
    <3>3. pc[tx[P]] = "handling" /\ tx[tx[P]] = tx[P] /\ pc[P] \notin {"idle", "inserting"}
      BY <1>2, <3>2 DEF Joined, InTx, Place
    <3>4. tx'[tx[P]] = tx[P] /\ pc'[tx[P]] \notin {"idle", "inserting"} /\ tx'[P] = tx[P]
      BY <1>2, <3>2, <3>3 DEF Framed
    <3> QED
      BY <3>2, <3>4
  <2> QED
    BY <2>1, <2>2
<1>7. ASSUME row'[b] = "open"
      PROVE  row'[tx'[b]] = "open" /\ pc'[tx'[b]] \in {"handling", "committing"}
  <2>1. CASE row[b] = "open"
    <3>1. tx'[b] = t
      BY <1>1, <2>1 DEF Place, Framed, t
    <3> QED
      BY <1>1, <1>7, <2>1, <3>1, OpenStep DEF t
  <2>2. CASE row[b] # "open"
    <3>1. InsertRow(b)
      BY <1>7, <2>2, OpensStep
    <3>2. tx' = tx /\ (t = b \/ row[t] = "open")
      BY <3>1 DEF InsertRow, TxIsOpen, t
    <3>3. CASE t = b
      BY <1>1, <1>7, <3>1, <3>2, <3>3 DEF InsertRow, Returned, TypeOK, t
    <3>4. CASE t # b
      <4>1. tx[t] = t /\ row[t] = "open" /\ pc[t] \in {"handling", "committing"}
        BY <1>1, <1>3, <3>2, <3>4 DEF InTx, t
      <4>2. row'[t] = "open" /\ pc'[t] \in {"handling", "committing"}
        BY <1>1, <3>1, <3>4, <4>1 DEF InsertRow, TypeOK
      <4> QED
        BY <3>2, <4>2 DEF t
    <3> QED
      BY <3>3, <3>4
  <2> QED
    BY <2>1, <2>2
<1>8. ASSUME pc'[b] # "idle", P \in Actor
      PROVE  row'[P] # "absent" /\ (Joined(P)' => tx'[b] = tx'[P])
  <2>1. CASE pc[b] # "idle"
    <3>1. row[P] # "absent" /\ (Joined(P) => tx[b] = tx[P])
      BY <1>1, <1>8, <2>1 DEF InTx, P
    <3>2. row'[P] # "absent" /\ tx'[P] = tx[P] /\ tx'[b] = tx[b]
      BY <1>1, <1>2, <1>5, <1>8, <2>1, <3>1 DEF Framed
    <3>3. pc[tx[P]] # "inserting"
      BY <1>2, <1>5, <1>8, <2>1 DEF InTx
    <3>4. ASSUME pc'[tx[P]] = "handling" PROVE Joined(P)
      BY <1>2, <1>8, <3>1, <3>3, <3>4 DEF Framed, Joined
    <3> QED
      BY <3>1, <3>2, <3>4 DEF Joined
  <2>2. CASE pc[b] = "idle"
    <3>1. CASE CreateRequest(b)
      <4>1. row[P] # "absent" /\ row' = row
        <5>1. CASE Exists(P)
          BY <1>8, <3>1, <5>1, UserAssumption DEF Exists, CreateRequest
        <5>2. CASE InPrompt(P)
          <6>1. Tokens(P) # 0
            BY <1>1, <1>8, <5>2, NoToken DEF InPrompt
          <6> QED
            BY <1>2, <1>8, <3>1, <6>1 DEF Place, CreateRequest
        <5>3. CASE Joined(P)
          BY <3>1, <5>3 DEF Joined, CreateRequest
        <5> QED
          BY <1>8, <3>1, <5>1, <5>2, <5>3 DEF CreateRequest, P
      <4>2. /\ pc' = [pc EXCEPT ![b] = "inserting"]
            /\ tx' = IF Joined(P) THEN [tx EXCEPT ![b] = tx[P]] ELSE tx
        BY <3>1 DEF CreateRequest, P
      <4>3. tx'[P] = tx[P] /\ (pc'[tx[P]] = "handling" => pc[tx[P]] = "handling")
        BY <1>1, <1>2, <1>8, <4>2 DEF TypeOK
      <4>4. Joined(P) => tx'[b] = tx[P]
        BY <1>1, <4>2 DEF TypeOK
      <4> QED
        BY <1>8, <4>1, <4>3, <4>4 DEF Joined
    <3>2. ASSUME NEW a \in Actor, CreateHandled(a) \/ CreateChainResolves(a), b \in EarlyMembers(a)
          PROVE  row'[P] # "absent" /\ (Joined(P)' => tx'[b] = tx'[P])
      <4>1. a = P /\ row' = row /\ tx' = EarlyTx(P)
        BY <3>2 DEF CreateHandled, CreateChainResolves, EarlyMembers, P
      <4>2. createRunning[P] > 0
        BY <1>2, <1>8, <3>2, <4>1 DEF CreateHandled, CreateChainResolves, ChainPending, Place
      <4>3. row[P] # "absent" /\ pc[P] \notin {"idle", "inserting"}
        <5>1. Tokens(P) # 0
          BY <1>1, <1>8, <4>2, NoToken
        <5> QED
          BY <1>2, <1>8, <5>1 DEF Place
      <4>4. tx'[P] = tx[P]
        BY <1>2, <1>8, <4>3 DEF Framed
      <4>5. CASE tx[P] = P
        <5>1. pc'[P] # "handling"
          BY <1>1, <1>8, <3>2, <4>1, <4>5, TreeAssumption
             DEF CreateHandled, CreateChainResolves, ChainPending, StartEarlyMembers,
                 EarlyMembers, Returned, TypeOK
        <5> QED
          BY <4>1, <4>3, <4>4, <4>5, <5>1 DEF Joined
      <4>6. CASE tx[P] # P
        <5>1. pc'[tx[P]] = "handling" => Joined(P)
          BY <1>2, <1>8, <4>3, <4>6 DEF InTx, Framed, Joined
        <5>2. Joined(P) => tx'[b] = tx[P]
          BY <3>2, <4>1, <4>6 DEF EarlyTx
        <5> QED
          BY <4>1, <4>3, <4>4, <5>1, <5>2 DEF Joined
      <4> QED
        BY <4>5, <4>6
    <3> QED
      BY <1>8, <2>2, <3>1, <3>2, StartStep
  <2> QED
    BY <2>1, <2>2
<1> QED
  BY <1>4, <1>6, <1>7, <1>8 DEF InTx, P

(***************************************************************************)
(* The invariant holds in every reachable state.                           *)
(***************************************************************************)
THEOREM Invariance == Spec => []IInv
<1>1. IInv /\ [Next]_vars => IInv'
  <2> SUFFICES ASSUME IInv, [Next]_vars PROVE IInv'
    OBVIOUS
  <2>1. TypeOK'
    BY StepTypeOK
  <2>2. ASSUME NEW b \in Actor PROVE Place(b)' /\ Progress(b)'
    BY <2>2, CreateStep, ListenStep, OtherStep DEF Next
  <2>3. ASSUME NEW b \in Actor PROVE EarlyMember(b)'
    BY <2>3, EarlyStep
  <2>4. ASSUME NEW b \in Actor PROVE InTx(b)'
    BY <2>4, InTxStep
  <2> QED
    BY <2>1, <2>2, <2>3, <2>4 DEF IInv
<1> QED
  BY <1>1, InitIInv, PTL DEF Spec

\* The variables stay within their types.
THEOREM TypeCorrect == Spec => []TypeOK
BY Invariance, PTL DEF IInv

\* However the prompts of an actor answer, one lifecycle event or handler at most is
\* outstanding for it, and none once it is ready.
THEOREM OneLifecycleHolds == Spec => []OneLifecycle
<1>1. IInv => OneLifecycle
  <2> SUFFICES ASSUME IInv, NEW a \in Actor
               PROVE  Tokens(a) <= 1 /\ (status[a] = "ready" => Tokens(a) = 0)
    BY DEF OneLifecycle
  <2>1. Tokens(a) \in Nat
    BY CounterTypes DEF IInv, Tokens
  <2> QED
    BY <2>1 DEF IInv, Progress
<1> QED
  BY <1>1, Invariance, PTL

\* Ready means created once, initialised, and checked, in this process.
THEOREM ReadyAfterHooksHolds == Spec => []ReadyAfterHooks
<1>1. IInv => ReadyAfterHooks
  BY HostAssumption DEF IInv, Progress, ReadyAfterHooks
<1> QED
  BY <1>1, Invariance, PTL

\* Chats run only on what this process set up.
THEOREM ServedAfterLifecycleHolds == Spec => []ServedAfterLifecycle
<1>1. IInv => ServedAfterLifecycle
  BY DEF IInv, TypeOK, Progress, ServedAfterLifecycle
<1> QED
  BY <1>1, Invariance, PTL

\* A committed row went through its create event.
THEOREM KeptRowWasHandledHolds == Spec => []KeptRowWasHandled
<1>1. IInv => KeptRowWasHandled
  <2> SUFFICES ASSUME IInv, NEW a \in Actor, row[a] = "committed"
               PROVE  (a \in Hosted => onCreateRuns[a] = 1) /\ (tx[a] = a => pc[a] = "done")
    BY DEF KeptRowWasHandled
  <2>1. pc[a] \in Places /\ Place(a)
    BY DEF IInv, TypeOK
  <2> QED
    BY <2>1 DEF Places, Place
<1> QED
  BY <1>1, Invariance, PTL

LEMMA ReadyStays ==
  ASSUME IInv, [Next]_vars, ~Restart, NEW b \in Actor, status[b] = "ready"
  PROVE  status'[b] = "ready"
<1> SUFFICES ASSUME status'[b] # "ready" PROVE FALSE
  OBVIOUS
<1>1. Tokens(b) = 0 /\ pc[b] \notin {"idle", "inserting"} /\ TypeOK
  <2>1. Tokens(b) \in Nat
    BY CounterTypes DEF IInv, Tokens
  <2> QED
    BY <2>1 DEF IInv, Place, Progress
<1>2. initQueued[b] = 0 /\ createdRunning[b] = 0
  BY <1>1, NoToken
<1>3. ASSUME NEW a \in Actor, CreateRequest(a) \/ Create(a) \/ Chat(a) \/ Remove(a) PROVE FALSE
  <2>1. ~InsertRow(a)
    BY <1>1 DEF InsertRow, TypeOK
  <2> QED
    BY <1>3, <2>1 DEF CreateRequest, Create, Chat, Remove, ContextLost, InsertConflict, TransactionClosed,
         CreateHandled, OnCreatePending, OnCreateThrows, CreateChainResolves,
         CreateChainRejects, Commit, CommitFails, TimesOut
<1>4. ASSUME NEW a \in Actor, Listen(a) PROVE FALSE
  BY <1>1, <1>2, <1>4 DEF Listen, InitEvent, InitHandled, InitThrows, CreatedEvent,
       CreatedPasses, CreatedAnswers, CreatedThrows, TypeOK
<1>5. ~UNCHANGED vars
  BY DEF vars
<1> QED
  BY <1>3, <1>4, <1>5 DEF Next

\* Once ready, an actor stays ready until the process restarts.
THEOREM ReadyIsFinalHolds == Spec => ReadyIsFinal
<1>1. IInv /\ [Next]_vars =>
        [\A a \in Actor : status[a] = "ready" /\ status'[a] # "ready" => restarts' # restarts]_vars
  <2>1. Restart /\ IInv => restarts' # restarts
    BY DEF Restart, IInv, TypeOK
  <2> QED
    BY <2>1, ReadyStays
<1> QED
  BY <1>1, Invariance, PTL DEF Spec, ReadyIsFinal

(***************************************************************************)
(* A lifecycle that is over, or was never begun, is begun by InsertRow     *)
(* only.                                                                   *)
(***************************************************************************)
Dead(b) ==
    /\ createRunning[b] = 0 /\ initQueued[b] = 0 /\ initRunning[b] = 0
    /\ createdQueued[b] = 0 /\ createdRunning[b] = 0
    /\ status[b] # "ready"

LEMMA DeadStaysDead ==
  ASSUME IInv, [Next]_vars, NEW b \in Actor, Dead(b), ~InsertRow(b)
  PROVE  Dead(b)'
<1>1. TypeOK /\ (pc[b] = "handling" => createRunning[b] = 1)
  BY DEF IInv, Place
<1> USE <1>1 DEF Dead, TypeOK, Incr, Decr, dbVars, eventVars, histVars
<1>2. ASSUME NEW a \in Actor, CreateRequest(a) \/ Chat(a) \/ Remove(a) PROVE Dead(b)'
  BY <1>2 DEF CreateRequest, Chat, Remove
<1>3. ASSUME NEW a \in Actor, InsertRow(a) PROVE Dead(b)'
  BY <1>3 DEF InsertRow
<1>4. ASSUME NEW a \in Actor,
             ContextLost(a) \/ InsertConflict(a) \/ TransactionClosed(a) \/ OnCreatePending(a)
               \/ Commit(a) \/ CommitFails(a) \/ TimesOut(a)
      PROVE  Dead(b)'
  BY <1>4 DEF ContextLost, InsertConflict, TransactionClosed, OnCreatePending, Commit, CommitFails, TimesOut
<1>5. ASSUME NEW a \in Actor, CreateHandled(a) \/ OnCreateThrows(a) PROVE Dead(b)'
  BY <1>5 DEF CreateHandled, OnCreateThrows
<1>6. ASSUME NEW a \in Actor, CreateChainResolves(a) \/ CreateChainRejects(a) PROVE Dead(b)'
  BY <1>6 DEF CreateChainResolves, CreateChainRejects, ChainPending
<1>7. ASSUME NEW a \in Actor, InitEvent(a) \/ InitHandled(a) \/ InitThrows(a) PROVE Dead(b)'
  BY <1>7 DEF InitEvent, InitHandled, InitThrows
<1>8. ASSUME NEW a \in Actor,
             CreatedEvent(a) \/ CreatedPasses(a) \/ CreatedAnswers(a) \/ CreatedThrows(a)
      PROVE  Dead(b)'
  BY <1>8 DEF CreatedEvent, CreatedPasses, CreatedAnswers, CreatedThrows
<1>9. CASE Restart
  BY <1>9 DEF Restart, Zero
<1>10. CASE UNCHANGED vars
  BY <1>10 DEF vars
<1> QED
  BY <1>2, <1>3, <1>4, <1>5, <1>6, <1>7, <1>8, <1>9, <1>10, Zenon DEF Next, Create, Listen

(***************************************************************************)
(* A creation that failed left no lifecycle behind (Silent), and at most   *)
(* one attempt at a member has a row the index sees (Unique).              *)
(***************************************************************************)
Silent(a) == pc[a] = "failed" => Dead(a)

InIndex(a) == row[a] \in {"open", "committed", "deleted"}

Unique(a, b) == Sibling(a, b) => ~InIndex(a) \/ ~InIndex(b)

SInv == (\A a \in Actor : Silent(a)) /\ (\A a, b \in Actor : Unique(a, b))

\* A creation fails before it began the lifecycle, or in the handler that was all of it.
LEMMA SilentStep ==
  ASSUME IInv, SInv, [Next]_vars, NEW b \in Actor
  PROVE  Silent(b)'
<1> SUFFICES ASSUME pc'[b] = "failed" PROVE Dead(b)'
  BY DEF Silent
<1>1. TypeOK /\ Place(b) /\ Progress(b) /\ Silent(b) /\ Tokens(b) \in Nat
  BY CounterTypes DEF IInv, SInv, Tokens
<1>2. CASE pc[b] \in {"failed", "inserting"}
  <2>1. Dead(b)
    BY <1>1, <1>2, NoToken DEF Silent, Place, Dead
  <2>2. ~InsertRow(b)
    BY <1>1 DEF InsertRow, Returned, TypeOK
  <2> QED
    BY <2>1, <2>2, DeadStaysDead
<1>3. CASE Restart
  <2>1. Zero[b] = 0
    BY DEF Zero
  <2> QED
    BY <1>3, <2>1 DEF Restart, Dead
<1>4. CASE pc[b] \notin {"failed", "inserting"} /\ ~Restart
  <2>1. OnCreateThrows(b)
    <3> USE <1>1, <1>4 DEF TypeOK, Returned, dbVars
    <3>1. ASSUME NEW a \in Actor,
                 \/ CreateRequest(a) \/ Chat(a) \/ Remove(a) \/ Commit(a) \/ CommitFails(a) \/ TimesOut(a)
                 \/ ContextLost(a) \/ InsertConflict(a) \/ TransactionClosed(a) \/ OnCreatePending(a)
          PROVE  FALSE
      BY <3>1 DEF CreateRequest, Chat, Remove, Commit, CommitFails, TimesOut, ContextLost,
                  InsertConflict, TransactionClosed, OnCreatePending
    <3>2. ASSUME NEW a \in Actor, InsertRow(a) PROVE FALSE
      BY <3>2 DEF InsertRow
    <3>3. ASSUME NEW a \in Actor,
                 CreateHandled(a) \/ CreateChainResolves(a) \/ CreateChainRejects(a)
          PROVE  FALSE
      BY <3>3 DEF CreateHandled, CreateChainResolves, CreateChainRejects, StartEarlyMembers
    <3>4. ASSUME NEW a \in Actor, Listen(a) PROVE FALSE
      BY <3>4 DEF Listen, InitEvent, InitHandled, InitThrows,
                  CreatedEvent, CreatedPasses, CreatedAnswers, CreatedThrows
    <3>5. ASSUME NEW a \in Actor, OnCreateThrows(a) PROVE a = b
      BY <3>5 DEF OnCreateThrows
    <3>6. ~UNCHANGED vars
      BY DEF vars
    <3> QED
      BY <1>4, <3>1, <3>2, <3>3, <3>4, <3>5, <3>6, Zenon DEF Next, Create
  <2>2. createRunning[b] = 1 /\ Tokens(b) = 1 /\ status[b] # "ready"
    BY <1>1, <2>1, CounterTypes DEF OnCreateThrows, Place, Progress, Tokens
  <2>3. /\ initQueued[b] = 0 /\ initRunning[b] = 0
        /\ createdQueued[b] = 0 /\ createdRunning[b] = 0
    BY <1>1, <2>2, CounterTypes DEF Tokens
  <2> QED
    BY <1>1, <2>1, <2>2, <2>3 DEF OnCreateThrows, Dead, Decr, TypeOK
<1> QED
  BY <1>2, <1>3, <1>4

\* The unique index keeps a second row with the same key out.
LEMMA UniqueStep ==
  ASSUME IInv, SInv, [Next]_vars, NEW b \in Actor, NEW c \in Actor
  PROVE  Unique(b, c)'
<1> SUFFICES ASSUME Sibling(b, c), InIndex(b)', InIndex(c)' PROVE FALSE
  BY DEF Unique, Sibling
<1>1. TypeOK /\ Unique(b, c) /\ Sibling(c, b)
  BY DEF IInv, SInv, Sibling
<1>2. ASSUME NEW x \in Actor, InIndex(x)', ~InIndex(x) PROVE InsertRow(x)
  <2> USE <1>1, <1>2 DEF InIndex, RolledBack, TypeOK, dbVars
  <2>1. ASSUME NEW a \in Actor, InsertRow(a) PROVE a = x
    BY <2>1 DEF InsertRow
  <2>2. ASSUME NEW a \in Actor,
               \/ CreateRequest(a) \/ Chat(a) \/ Remove(a) \/ Commit(a) \/ CommitFails(a) \/ TimesOut(a)
               \/ ContextLost(a) \/ InsertConflict(a) \/ TransactionClosed(a) \/ OnCreatePending(a)
               \/ CreateHandled(a) \/ OnCreateThrows(a)
               \/ CreateChainResolves(a) \/ CreateChainRejects(a)
        PROVE  FALSE
    BY <2>2 DEF CreateRequest, Chat, Remove, Commit, CommitFails, TimesOut, ContextLost, InsertConflict, TransactionClosed,
       OnCreatePending, CreateHandled, OnCreateThrows, CreateChainResolves, CreateChainRejects
  <2>3. ASSUME NEW a \in Actor, Listen(a) PROVE FALSE
    BY <2>3 DEF Listen, InitEvent, InitHandled, InitThrows,
                CreatedEvent, CreatedPasses, CreatedAnswers, CreatedThrows
  <2>4. ~Restart /\ ~UNCHANGED vars
    BY DEF Restart, vars
  <2> QED
    BY <2>1, <2>2, <2>3, <2>4, Zenon DEF Next, Create
<1>3. CASE ~InIndex(b)
  BY <1>1, <1>2, <1>3 DEF InsertRow, KeyFree, InIndex, Sibling, TypeOK
<1>4. CASE ~InIndex(c)
  BY <1>1, <1>2, <1>4 DEF InsertRow, KeyFree, InIndex, Sibling, TypeOK
<1> QED
  BY <1>1, <1>3, <1>4 DEF Unique

LEMMA StrongInvariance == Spec => [](IInv /\ SInv)
<1>1. Init => SInv
  BY DEF Init, SInv, Silent, Unique, InIndex
<1>2. IInv /\ SInv /\ [Next]_vars => SInv'
  BY SilentStep, UniqueStep DEF SInv
<1> QED
  BY <1>1, <1>2, Invariance, PTL DEF Spec

LEMMA DeadIsNotAlive ==
  ASSUME IInv, NEW a \in Actor
  PROVE  Dead(a) <=> ~Lives(a)
<1>1. TypeOK /\ Tokens(a) \in Nat
  BY CounterTypes DEF IInv, Tokens
<1> QED
  BY <1>1, NoToken DEF Dead, Lives, Tokens

(* _createActor and the init event that is emitted before its transaction commits: a      *)
(* creation that failed left no lifecycle behind, and a row that was rolled back leaves   *)
(* one only by its own commit, under a fiber that goes on and will find out, or with a    *)
(* transaction that was another's: a creation that its own transaction answered is kept.  *)
THEOREM FailedCreationIsSilentHolds == Spec => []FailedCreationIsSilent
<1>1. IInv /\ SInv => FailedCreationIsSilent
  <2> SUFFICES ASSUME IInv, SInv, NEW a \in Actor
               PROVE  /\ pc[a] = "failed" => ~Lives(a)
                      /\ row[a] = "gone" /\ Lives(a) =>
                           pc[a] \in {"handling", "committing", "aborted"} \/ tx[a] # a
    BY DEF FailedCreationIsSilent
  <2>1. Place(a) /\ Silent(a) /\ pc[a] \in Places /\ (Dead(a) <=> ~Lives(a))
    BY DeadIsNotAlive DEF IInv, SInv, TypeOK
  <2> QED
    BY <2>1 DEF Place, Silent, Places
<1> QED
  BY <1>1, StrongInvariance, PTL

\* Nor do two attempts at the same member both live.
THEOREM OneLifePerMemberHolds == Spec => []OneLifePerMember
<1>1. IInv /\ SInv => OneLifePerMember
  <2> SUFFICES ASSUME IInv, SInv, NEW a \in Actor, NEW b \in Actor,
                      Sibling(a, b), row[a] # "gone", row[b] # "gone",
                      Lives(a), Lives(b)
               PROVE  FALSE
    BY DEF OneLifePerMember
  <2>1. ASSUME NEW x \in Actor, Lives(x), row[x] # "gone" PROVE InIndex(x)
    <3>1. row[x] \in Rows /\ Place(x)
      BY DEF IInv, TypeOK
    <3> QED
      BY <2>1, <3>1 DEF Rows, Place, Lives, InIndex
  <2> QED
    BY <2>1 DEF SInv, Unique
<1> QED
  BY <1>1, StrongInvariance, PTL

(***************************************************************************)
(* The refinement.  The life of an actor is a function of its token count, *)
(* its status and whether its create event was handled; a step of one      *)
(* actor leaves the lives of the others alone, and changes its own the way *)
(* AbstractLifecycle allows.                                               *)
(***************************************************************************)
Step(a) == CreateRequest(a) \/ Create(a) \/ Listen(a) \/ Chat(a) \/ Remove(a)

\* What LifeOf reads, without the sum.
LEMMA LifeCases ==
  ASSUME IInv, NEW a \in Actor
  PROVE  /\ LifeOf(a) = "ready" <=> status[a] = "ready"
         /\ LifeOf(a) = "absent" <=> onCreateRuns[a] = 0
         /\ LifeOf(a) = "over" <=> Dead(a) /\ onCreateRuns[a] = 1
         /\ LifeOf(a) = "starting" <=> Tokens(a) = 1
         /\ LifeOf(a) \in {"ready", "absent", "over", "starting"}
<1>1. TypeOK /\ Progress(a) /\ Tokens(a) \in Nat /\ onCreateRuns[a] \in {0, 1}
  <2>1. TypeOK /\ Progress(a) /\ Tokens(a) \in Nat /\ onCreateRuns[a] \in Nat
    BY CounterTypes DEF IInv, Tokens, TypeOK
  <2> QED
    BY <2>1 DEF Progress
<1>2. Dead(a) <=> Tokens(a) = 0 /\ status[a] # "ready"
  BY <1>1, NoToken DEF Dead, Tokens
<1> QED
  BY <1>1, <1>2 DEF LifeOf, Progress

LEMMA OthersLive ==
  ASSUME IInv, NEW a \in Actor, Step(a), NEW b \in Actor, b # a
  PROVE  LifeOf(b)' = LifeOf(b)
<1>1. /\ status'[b] = status[b] /\ onCreateRuns'[b] = onCreateRuns[b]
      /\ createRunning'[b] = createRunning[b]
      /\ initQueued'[b] = initQueued[b] /\ initRunning'[b] = initRunning[b]
      /\ createdQueued'[b] = createdQueued[b] /\ createdRunning'[b] = createdRunning[b]
  <2>0. TypeOK
    BY DEF IInv
  <2> DEFINE Same == /\ status'[b] = status[b] /\ onCreateRuns'[b] = onCreateRuns[b]
                     /\ createRunning'[b] = createRunning[b]
                     /\ initQueued'[b] = initQueued[b] /\ initRunning'[b] = initRunning[b]
                     /\ createdQueued'[b] = createdQueued[b]
                     /\ createdRunning'[b] = createdRunning[b]
  <2> USE <2>0 DEF TypeOK, Incr, Decr, dbVars, eventVars, histVars
  <2>1. CASE CreateRequest(a) \/ Chat(a) \/ Remove(a)
    BY <2>1 DEF CreateRequest, Chat, Remove
  <2>2. CASE InsertRow(a)
    BY <2>2 DEF InsertRow
  <2>3. CASE \/ ContextLost(a) \/ InsertConflict(a) \/ TransactionClosed(a) \/ OnCreatePending(a)
             \/ Commit(a) \/ CommitFails(a) \/ TimesOut(a)
    BY <2>3 DEF ContextLost, InsertConflict, TransactionClosed, OnCreatePending, Commit, CommitFails, TimesOut
  <2>4. CASE CreateHandled(a) \/ OnCreateThrows(a)
    BY <2>4 DEF CreateHandled, OnCreateThrows
  <2>5. CASE CreateChainResolves(a) \/ CreateChainRejects(a)
    BY <2>5 DEF CreateChainResolves, CreateChainRejects
  <2>6. CASE InitEvent(a) \/ InitHandled(a) \/ InitThrows(a)
    BY <2>6 DEF InitEvent, InitHandled, InitThrows
  <2>7. CASE CreatedEvent(a) \/ CreatedPasses(a) \/ CreatedAnswers(a) \/ CreatedThrows(a)
    BY <2>7 DEF CreatedEvent, CreatedPasses, CreatedAnswers, CreatedThrows
  <2> QED
    BY <2>1, <2>2, <2>3, <2>4, <2>5, <2>6, <2>7, Zenon DEF Step, Create, Listen
<1> QED
  BY <1>1 DEF LifeOf, Tokens

\* A life begins with InsertRow, ends for good, and stays ready.
LEMMA OwnLife ==
  ASSUME IInv, IInv', NEW a \in Actor, Step(a)
  PROVE  \/ LifeOf(a)' = LifeOf(a)
         \/ LifeOf(a) = "absent" /\ LifeOf(a)' \in {"starting", "ready"}
         \/ LifeOf(a) = "starting" /\ LifeOf(a)' \in {"ready", "over"}
<1>1. TypeOK /\ TypeOK' /\ Place(a) /\ Next
  BY DEF IInv, Step, Next
<1>2. CASE InsertRow(a)
  <2>1. LifeOf(a) = "absent"
    BY <1>1, <1>2 DEF InsertRow, Place, LifeOf
  <2>2. CASE a \in Singleton
    BY <1>1, <1>2, <2>1, <2>2, HostAssumption DEF InsertRow, LifeOf, TypeOK
  <2>3. CASE a \in Hosted \ Singleton
    <3>1. status'[a] = "creating" /\ createRunning'[a] > 0
      BY <1>1, <1>2, <2>3 DEF InsertRow, Incr, TypeOK
    <3>2. Tokens(a)' > 0
      <4>1. /\ createRunning'[a] \in Nat /\ initQueued'[a] \in Nat /\ initRunning'[a] \in Nat
            /\ createdQueued'[a] \in Nat /\ createdRunning'[a] \in Nat
        BY <1>1 DEF TypeOK
      <4> QED
        BY <3>1, <4>1 DEF Tokens
    <3> QED
      BY <2>1, <3>1, <3>2 DEF LifeOf
  <2>4. CASE a \notin Hosted
    <3>1. Tokens(a)' = Tokens(a) /\ status'[a] = status[a] /\ onCreateRuns'[a] = onCreateRuns[a]
      BY <1>2, <2>4, HostAssumption DEF InsertRow, Tokens
    <3> QED
      BY <3>1 DEF LifeOf
  <2> QED
    BY <2>2, <2>3, <2>4
<1>3. CASE ~InsertRow(a)
  <2>1. onCreateRuns'[a] = onCreateRuns[a] /\ restarts' = restarts
    <3>1. CASE CreateRequest(a) \/ Chat(a) \/ Remove(a)
      BY <3>1 DEF CreateRequest, Chat, Remove, histVars
    <3>2. CASE Create(a)
      BY <1>3, <3>2 DEF Create, ContextLost, InsertConflict, TransactionClosed, CreateHandled, OnCreatePending,
         OnCreateThrows, CreateChainResolves, CreateChainRejects, Commit, CommitFails, TimesOut, histVars
    <3>3. CASE Listen(a)
      BY <3>3 DEF Listen, InitEvent, InitHandled, InitThrows,
         CreatedEvent, CreatedPasses, CreatedAnswers, CreatedThrows, histVars
    <3> QED
      BY <3>1, <3>2, <3>3 DEF Step
  <2>2. LifeOf(a) = "absent" <=> LifeOf(a)' = "absent"
    <3>1. LifeOf(a) = "absent" <=> onCreateRuns[a] = 0
      BY LifeCases
    <3>2. LifeOf(a)' = "absent" <=> onCreateRuns'[a] = 0
      <4>1. Progress(a)' /\ Tokens(a)' \in Nat /\ onCreateRuns'[a] \in Nat
        BY <1>1 DEF IInv, Tokens, TypeOK
      <4> QED
        BY <4>1 DEF Progress, LifeOf
    <3> QED
      BY <2>1, <3>1, <3>2
  <2>3. LifeOf(a) = "over" => LifeOf(a)' = "over"
    <3> SUFFICES ASSUME LifeOf(a) = "over" PROVE LifeOf(a)' = "over"
      OBVIOUS
    <3>1. Dead(a) /\ onCreateRuns[a] = 1
      BY LifeCases
    <3>2. Dead(a)'
      BY <1>1, <1>3, <3>1, DeadStaysDead
    <3> QED
      BY <2>1, <3>1, <3>2 DEF Dead, LifeOf, Tokens
  <2>4. LifeOf(a) = "ready" => LifeOf(a)' = "ready"
    <3>1. ~Restart
      BY <1>1, <2>1 DEF Restart, TypeOK
    <3> QED
      BY <1>1, <3>1, ReadyStays DEF LifeOf
  <2>5. LifeOf(a) \in {"ready", "absent", "over", "starting"}
        /\ LifeOf(a)' \in {"ready", "absent", "over", "starting"}
    BY DEF LifeOf
  <2> QED
    BY <2>2, <2>3, <2>4, <2>5
<1> QED
  BY <1>2, <1>3

\* The events, prompts, transactions, deletions and restarts implement the promise.
THEOREM ImplementsPromiseHolds == Spec => ImplementsPromise
<1>1. Init => Promise!Init
  BY DEF Init, Promise!Init, Life, LifeOf, Tokens
<1>2. IInv /\ IInv' /\ [Next]_vars => [Promise!Next]_<<Life, served>>
  <2> SUFFICES ASSUME IInv, IInv', [Next]_vars PROVE [Promise!Next]_<<Life, served>>
    OBVIOUS
  <2>1. ASSUME NEW a \in Actor, Step(a) PROVE [Promise!Next]_<<Life, served>>
    <3>1. Life' = [Life EXCEPT ![a] = LifeOf(a)']
      BY <2>1, OthersLive DEF Life
    <3>2. Life[a] = LifeOf(a)
      BY DEF Life
    <3>3. CASE Chat(a)
      <4>1. LifeOf(a)' = LifeOf(a) /\ LifeOf(a) = "ready" /\ served' = served \cup {a}
        BY <3>3 DEF Chat, LifeOf
      <4>2. Life' = Life
        BY <3>1, <4>1 DEF Life
      <4> QED
        BY <3>2, <4>1, <4>2 DEF Promise!Next, Promise!Serve
    <3>4. CASE ~Chat(a)
      <4>1. served' = served
        <5>1. CASE CreateRequest(a) \/ Remove(a)
          BY <5>1 DEF CreateRequest, Remove
        <5>2. CASE Create(a)
          BY <5>2 DEF Create, InsertRow, ContextLost, InsertConflict, TransactionClosed, CreateHandled,
             OnCreatePending, OnCreateThrows, CreateChainResolves, CreateChainRejects,
             Commit, CommitFails, TimesOut
        <5>3. CASE Listen(a)
          BY <5>3 DEF Listen, InitEvent, InitHandled, InitThrows,
             CreatedEvent, CreatedPasses, CreatedAnswers, CreatedThrows
        <5> QED
          BY <2>1, <3>4, <5>1, <5>2, <5>3 DEF Step
      <4>2. CASE LifeOf(a)' = LifeOf(a)
        BY <3>1, <4>1, <4>2 DEF Life
      <4>3. CASE LifeOf(a) = "absent" /\ LifeOf(a)' \in {"starting", "ready"}
        BY <3>1, <3>2, <4>1, <4>3 DEF Promise!Next, Promise!Begin, Promise!BeginReady
      <4>4. CASE LifeOf(a) = "starting" /\ LifeOf(a)' \in {"ready", "over"}
        BY <3>1, <3>2, <4>1, <4>4 DEF Promise!Next, Promise!BecomeReady, Promise!Stop
      <4> QED
        BY <2>1, <4>2, <4>3, <4>4, OwnLife
    <3> QED
      BY <3>3, <3>4
  <2>2. CASE Restart
    <3>1. ASSUME NEW b \in Actor
          PROVE  LifeOf(b)' = IF LifeOf(b) = "absent" THEN "absent" ELSE "over"
      <4>1. onCreateRuns'[b] = onCreateRuns[b] /\ onCreateRuns[b] \in Nat /\ Dead(b)'
        BY <2>2 DEF Restart, Zero, Dead, IInv, TypeOK
      <4>2. LifeOf(b)' = IF onCreateRuns'[b] > 0 THEN "over" ELSE "absent"
        BY <4>1 DEF LifeOf, Dead, Tokens
      <4>3. LifeOf(b) = "absent" <=> onCreateRuns[b] = 0
        BY LifeCases
      <4> QED
        BY <4>1, <4>2, <4>3
    <3>2. Life' = [b \in Actor |-> IF Life[b] = "absent" THEN "absent" ELSE "over"]
      BY <3>1 DEF Life
    <3> QED
      BY <2>2, <3>2 DEF Restart, Promise!Next, Promise!Crash
  <2>3. CASE UNCHANGED vars
    BY <2>3 DEF vars, eventVars, histVars, Life, LifeOf, Tokens
  <2> QED
    BY <2>1, <2>2, <2>3 DEF Next, Step
<1> QED
  BY <1>1, <1>2, Invariance, PTL DEF Spec, ImplementsPromise, Promise!Spec

-----------------------------------------------------------------------------
(***************************************************************************)
(* What LifecycleSettles and CreationAnswered rest on.  An actor of whose  *)
(* prompts none can fail has a token from its insert until it is ready: a  *)
(* create handler without onCreate is over before its transaction ends     *)
(* (NoChain), so no chain of it can reject, and every other listener hands *)
(* its token on.  Where onCreated asks for no more rounds, the tokens walk *)
(* through the five places in one direction.                               *)
(***************************************************************************)
NoPromptFails == Hosted \ (HasOnCreate \cup HasOnInit \cup HasOnCreated)

NoChain(a) == a \notin HasOnCreate /\ createRunning[a] > 0 => pc[a] = "handling"

KeepsItsToken(a) ==
    a \in NoPromptFails /\ onCreateRuns[a] = 1 /\ restarts = 0 =>
        status[a] = "ready" \/ Tokens(a) = 1

NothingDropped ==
    \A a \in NoPromptFails :
        row[a] = "committed" /\ restarts = 0 => status[a] = "ready" \/ Tokens(a) = 1

TInv == \A a \in Actor : NoChain(a) /\ KeepsItsToken(a)

LEMMA NoChainStep ==
  ASSUME IInv, TInv, [Next]_vars, NEW b \in Actor
  PROVE  NoChain(b)'
<1>1. TypeOK /\ NoChain(b) /\ Place(b)
  BY DEF IInv, TInv
<1> USE <1>1 DEF TypeOK, Incr, Decr, dbVars, eventVars, histVars, NoChain
<1>2. ASSUME NEW a \in Actor, CreateRequest(a) \/ Chat(a) \/ Remove(a) PROVE NoChain(b)'
  BY <1>2 DEF CreateRequest, Chat, Remove
<1>3. ASSUME NEW a \in Actor, InsertRow(a) PROVE NoChain(b)'
  BY <1>3 DEF InsertRow
<1>4. ASSUME NEW a \in Actor,
             ContextLost(a) \/ InsertConflict(a) \/ TransactionClosed(a) \/ OnCreatePending(a)
               \/ Commit(a) \/ CommitFails(a) \/ TimesOut(a)
      PROVE  NoChain(b)'
  BY <1>4 DEF ContextLost, InsertConflict, TransactionClosed, OnCreatePending, Commit, CommitFails, TimesOut
<1>5. ASSUME NEW a \in Actor, CreateHandled(a) PROVE NoChain(b)'
  <2>1. ASSUME b # a, createRunning[b] > 0, b \notin HasOnCreate PROVE pc'[b] = "handling"
    <3>1. pc[b] = "handling"
      BY <2>1
    <3>2. b \notin EarlyMembers(a)
      BY <1>5, <2>1, <3>1 DEF CreateHandled, EarlyMembers, IInv, EarlyMember
    <3> QED
      BY <1>5, <2>1, <3>1, <3>2 DEF CreateHandled, StartEarlyMembers
  <2> QED
    BY <1>5, <2>1 DEF CreateHandled, Place
<1>6. ASSUME NEW a \in Actor, OnCreateThrows(a) PROVE NoChain(b)'
  BY <1>6 DEF OnCreateThrows
<1>7. ASSUME NEW a \in Actor, CreateChainResolves(a) PROVE NoChain(b)'
  <2>1. Place(a) /\ createRunning[a] > 0 /\ Tokens(a) <= 1
    BY <1>7 DEF IInv, Progress, CreateChainResolves, ChainPending
  <2>2. createRunning[a] = 1
    <3> HIDE DEF TypeOK
    <3> QED
      BY <1>1, <2>1, CounterTypes DEF Tokens
  <2>3. ASSUME b # a, createRunning[b] > 0, b \notin HasOnCreate PROVE pc'[b] = "handling"
    <3>1. pc[b] = "handling"
      BY <2>3
    <3>2. b \notin EarlyMembers(a)
      BY <2>1, <3>1 DEF EarlyMembers, IInv, EarlyMember
    <3> QED
      BY <1>7, <2>3, <3>1, <3>2 DEF CreateChainResolves, StartEarlyMembers
  <2> QED
    BY <1>7, <2>2, <2>3 DEF CreateChainResolves
<1>8. ASSUME NEW a \in Actor, CreateChainRejects(a) PROVE NoChain(b)'
  BY <1>8 DEF CreateChainRejects, ChainPending
<1>9. ASSUME NEW a \in Actor, Listen(a) PROVE NoChain(b)'
  BY <1>9 DEF Listen, InitEvent, InitHandled, InitThrows,
              CreatedEvent, CreatedPasses, CreatedAnswers, CreatedThrows
<1>10. CASE Restart
  BY <1>10 DEF Restart, Zero
<1>11. CASE UNCHANGED vars
  BY <1>11 DEF vars
<1> QED
  BY <1>2, <1>3, <1>4, <1>5, <1>6, <1>7, <1>8, <1>9, <1>10, <1>11, Zenon DEF Next, Create

\* The listeners hand the token on, but for the one that makes the actor ready.
LEMMA TokenIsKept ==
  ASSUME IInv, TInv, NEW b \in NoPromptFails, Step(b), Tokens(b) = 1
  PROVE  status'[b] = "ready" \/ Tokens(b)' = 1
<1>1. /\ TypeOK /\ b \in Actor /\ Place(b) /\ NoChain(b)
      /\ b \notin HasOnCreate /\ b \notin HasOnInit /\ b \notin HasOnCreated
  BY HostAssumption DEF IInv, TInv, NoPromptFails
<1> USE <1>1 DEF TypeOK, Incr, Decr, Tokens, dbVars, eventVars, histVars
<1>2. CASE CreateRequest(b) \/ Chat(b) \/ Remove(b)
  BY <1>2 DEF CreateRequest, Chat, Remove
<1>3. CASE InsertRow(b)
  BY <1>3 DEF InsertRow, Place
<1>4. CASE \/ ContextLost(b) \/ InsertConflict(b) \/ TransactionClosed(b) \/ OnCreatePending(b)
           \/ Commit(b) \/ CommitFails(b) \/ TimesOut(b)
  BY <1>4 DEF ContextLost, InsertConflict, TransactionClosed, OnCreatePending, Commit, CommitFails, TimesOut
<1>5. CASE CreateHandled(b) \/ OnCreateThrows(b)
  BY <1>5 DEF CreateHandled, OnCreateThrows
<1>6. CASE CreateChainResolves(b) \/ CreateChainRejects(b)
  BY <1>6 DEF CreateChainResolves, CreateChainRejects, ChainPending, NoChain
<1>7. CASE InitEvent(b)
  BY <1>7 DEF InitEvent
<1>8. CASE InitHandled(b) \/ InitThrows(b)
  BY <1>8 DEF InitHandled, InitThrows
<1>9. CASE CreatedEvent(b)
  BY <1>9 DEF CreatedEvent
<1>10. CASE CreatedPasses(b)
  BY <1>10 DEF CreatedPasses
<1>11. CASE CreatedAnswers(b) \/ CreatedThrows(b)
  BY <1>11 DEF CreatedAnswers, CreatedThrows
<1> QED
  BY <1>2, <1>3, <1>4, <1>5, <1>6, <1>7, <1>8, <1>9, <1>10, <1>11, Zenon DEF Step, Create, Listen

LEMMA KeepsItsTokenStep ==
  ASSUME IInv, IInv', TInv, [Next]_vars, NEW b \in Actor
  PROVE  KeepsItsToken(b)'
<1> SUFFICES ASSUME b \in NoPromptFails, onCreateRuns'[b] = 1, restarts' = 0
             PROVE  status'[b] = "ready" \/ Tokens(b)' = 1
  BY DEF KeepsItsToken
<1>1. /\ TypeOK /\ Place(b) /\ Progress(b) /\ KeepsItsToken(b) /\ Tokens(b) \in Nat
      /\ b \in Hosted
  BY CounterTypes DEF IInv, TInv, Tokens, NoPromptFails
<1>2. ~Restart
  BY <1>1 DEF Restart, TypeOK
<1>3. CASE UNCHANGED vars
  BY <1>1, <1>3 DEF vars, dbVars, eventVars, histVars, KeepsItsToken, Tokens
<1>4. ASSUME NEW a \in Actor, Step(a), a # b PROVE status'[b] = "ready" \/ Tokens(b)' = 1
  <2>1. LifeOf(b)' = LifeOf(b)
    BY <1>4, OthersLive
  <2>2. onCreateRuns[b] = 1 /\ restarts = 0
    <3>1. LifeOf(b)' # "absent"
      BY DEF LifeOf
    <3>2. onCreateRuns[b] \in Nat /\ onCreateRuns[b] # 0 /\ onCreateRuns[b] <= 1
      BY <1>1, <2>1, <3>1, LifeCases DEF TypeOK, Progress
    <3>3. restarts' = restarts
      BY <1>4 DEF Step, Create, Listen, CreateRequest, Chat, Remove, InsertRow, ContextLost,
         InsertConflict, TransactionClosed, CreateHandled, OnCreatePending, OnCreateThrows, CreateChainResolves,
         CreateChainRejects, Commit, CommitFails, TimesOut, InitEvent, InitHandled, InitThrows,
         CreatedEvent, CreatedPasses, CreatedAnswers, CreatedThrows
    <3> QED
      BY <3>2, <3>3
  <2>3. LifeOf(b) \in {"ready", "starting"}
    BY <1>1, <2>2, LifeCases DEF KeepsItsToken
  <2>4. Tokens(b)' \in Nat /\ Tokens(b)' <= 1
    BY <1>1 DEF IInv, TypeOK, Progress, Tokens
  <2> QED
    BY <2>1, <2>3, <2>4 DEF LifeOf
<1>5. CASE Step(b)
  <2>1. CASE InsertRow(b)
    <3>1. CASE b \in Singleton
      BY <1>1, <2>1, <3>1 DEF InsertRow, TypeOK
    <3>2. CASE b \notin Singleton
      <4>1. Tokens(b) = 0
        BY <2>1, <1>1 DEF InsertRow, Place
      <4>2. /\ createRunning[b] = 0 /\ initQueued[b] = 0 /\ initRunning[b] = 0
            /\ createdQueued[b] = 0 /\ createdRunning[b] = 0
        BY <1>1, <4>1, NoToken
      <4>3. /\ createRunning'[b] = createRunning[b] + 1
            /\ UNCHANGED <<initQueued, initRunning, createdQueued, createdRunning>>
        BY <1>1, <2>1, <3>2 DEF InsertRow, Incr, TypeOK
      <4> QED
        BY <4>2, <4>3 DEF Tokens
    <3> QED
      BY <3>1, <3>2
  <2>2. CASE ~InsertRow(b)
    <3>1. onCreateRuns[b] = 1 /\ restarts = 0
      <4>1. CASE CreateRequest(b) \/ Chat(b) \/ Remove(b)
        BY <4>1 DEF CreateRequest, Chat, Remove, histVars
      <4>2. CASE Create(b)
        BY <2>2, <4>2 DEF Create, ContextLost, InsertConflict, TransactionClosed, CreateHandled, OnCreatePending,
           OnCreateThrows, CreateChainResolves, CreateChainRejects, Commit, CommitFails, TimesOut, histVars
      <4>3. CASE Listen(b)
        BY <4>3 DEF Listen, InitEvent, InitHandled, InitThrows,
           CreatedEvent, CreatedPasses, CreatedAnswers, CreatedThrows, histVars
      <4> QED
        BY <1>5, <4>1, <4>2, <4>3 DEF Step
    <3>2. CASE status[b] = "ready"
      BY <1>2, <3>2, ReadyStays
    <3>3. CASE Tokens(b) = 1
      BY <1>5, <3>3, TokenIsKept
    <3> QED
      BY <1>1, <3>1, <3>2, <3>3 DEF KeepsItsToken
  <2> QED
    BY <2>1, <2>2
<1> QED
  BY <1>2, <1>3, <1>4, <1>5 DEF Next, Step

(* actor.create, actor.init and actor.created listeners: no event is dropped on the way.   *)
(* A committed actor of whose prompts none can fail is ready, or has exactly one event or  *)
(* handler under way.                                                                      *)
THEOREM NothingDroppedHolds == Spec => []NothingDropped
<1>1. Init => TInv
  <2> SUFFICES ASSUME Init, NEW a \in Actor PROVE NoChain(a) /\ KeepsItsToken(a)
    BY DEF TInv
  <2>1. createRunning[a] = 0 /\ onCreateRuns[a] = 0
    BY DEF Init
  <2> QED
    BY <2>1 DEF NoChain, KeepsItsToken
<1>2. IInv /\ IInv' /\ TInv /\ [Next]_vars => TInv'
  BY NoChainStep, KeepsItsTokenStep DEF TInv
<1>3. IInv /\ TInv => NothingDropped
  <2> SUFFICES ASSUME IInv, TInv, NEW a \in NoPromptFails, row[a] = "committed", restarts = 0
               PROVE  status[a] = "ready" \/ Tokens(a) = 1
    BY DEF NothingDropped
  <2>1. a \in Hosted /\ a \in Actor
    BY HostAssumption DEF NoPromptFails
  <2>2. onCreateRuns[a] = 1
    BY <2>1 DEF IInv, Place
  <2> QED
    BY <2>1, <2>2 DEF TInv, KeepsItsToken
<1> QED
  BY <1>1, <1>2, <1>3, Invariance, PTL DEF Spec

\* How far the token of an actor is from the end of its round.
StepsLeft(a) == 5 * createRunning[a] + 4 * initQueued[a] + 3 * initRunning[a]
                  + 2 * createdQueued[a] + createdRunning[a]

CountersOf(a) ==
    <<createRunning[a], initQueued[a], initRunning[a], createdQueued[a], createdRunning[a]>>

RoundShortens ==
    [][\A a \in Actor \ HasOnCreated : ~InsertRow(a) =>
         StepsLeft(a)' < StepsLeft(a) \/ CountersOf(a)' = CountersOf(a)]_vars

LEMMA StepsOfCounters ==
  ASSUME NEW v \in Nat, NEW w \in Nat, NEW x \in Nat, NEW y \in Nat, NEW z \in Nat
  PROVE  5 * v + 4 * w + 3 * x + 2 * y + z > 0 \/ <<v, w, x, y, z>> = <<0, 0, 0, 0, 0>>
<1>1. CASE v = 0 /\ w = 0 /\ x = 0 /\ y = 0 /\ z = 0
  BY <1>1
<1>2. CASE ~(v = 0 /\ w = 0 /\ x = 0 /\ y = 0 /\ z = 0)
  BY <1>2
<1> QED
  BY <1>1, <1>2

LEMMA ListenShortens ==
  ASSUME TypeOK, NEW a \in Actor, NEW b \in Actor \ HasOnCreated, Listen(a)
  PROVE  StepsLeft(b)' < StepsLeft(b) \/ CountersOf(b)' = CountersOf(b)
<1> USE DEF TypeOK, Incr, Decr, StepsLeft, CountersOf, dbVars, eventVars, histVars
<1>1. CASE InitEvent(a)
  BY <1>1 DEF InitEvent
<1>2. CASE InitHandled(a) \/ InitThrows(a)
  BY <1>2 DEF InitHandled, InitThrows
<1>3. CASE CreatedEvent(a)
  BY <1>3 DEF CreatedEvent
<1>4. CASE CreatedPasses(a)
  BY <1>4 DEF CreatedPasses
<1>5. CASE CreatedAnswers(a) \/ CreatedThrows(a)
  BY <1>5 DEF CreatedAnswers, CreatedThrows
<1> QED
  BY <1>1, <1>2, <1>3, <1>4, <1>5, Zenon DEF Listen

LEMMA CreateShortens ==
  ASSUME TypeOK, \A a \in Actor : pc[a] = "handling" => createRunning[a] = 1,
         NEW a \in Actor, NEW b \in Actor, CreateRequest(a) \/ Create(a), ~InsertRow(b)
  PROVE  StepsLeft(b)' < StepsLeft(b) \/ CountersOf(b)' = CountersOf(b)
<1> USE DEF TypeOK, Incr, Decr, StepsLeft, CountersOf, dbVars, eventVars, histVars
<1>1. CASE CreateRequest(a)
  BY <1>1 DEF CreateRequest
<1>2. CASE InsertRow(a)
  <2>1. a # b
    BY <1>2
  <2>2. createRunning'[b] = createRunning[b]
    BY <1>2, <2>1 DEF InsertRow
  <2> QED
    BY <1>2, <2>2 DEF InsertRow
<1>3. CASE ContextLost(a) \/ InsertConflict(a) \/ TransactionClosed(a) \/ OnCreatePending(a) \/ Commit(a) \/ CommitFails(a) \/ TimesOut(a)
  BY <1>3 DEF ContextLost, InsertConflict, TransactionClosed, OnCreatePending, Commit, CommitFails, TimesOut
<1>4. CASE CreateHandled(a)
  BY <1>4 DEF CreateHandled
<1>5. CASE OnCreateThrows(a)
  BY <1>5 DEF OnCreateThrows
<1>6. CASE CreateChainResolves(a)
  BY <1>6 DEF CreateChainResolves, ChainPending
<1>7. CASE CreateChainRejects(a)
  BY <1>7 DEF CreateChainRejects, ChainPending
<1> QED
  BY <1>1, <1>2, <1>3, <1>4, <1>5, <1>6, <1>7, Zenon DEF Create

(* created.listener.ts: the rounds an actor goes through end.  Unless onCreated asks for   *)
(* another one, whatever touches the events of an actor after its insert brings its        *)
(* lifecycle nearer to the end, which is five steps away at most (OneLifecycle).           *)
THEOREM RoundShortensHolds == Spec => RoundShortens
<1>1. IInv /\ [Next]_vars =>
        [\A a \in Actor \ HasOnCreated : ~InsertRow(a) =>
           StepsLeft(a)' < StepsLeft(a) \/ CountersOf(a)' = CountersOf(a)]_vars
  <2> SUFFICES ASSUME IInv, Next, NEW b \in Actor \ HasOnCreated, ~InsertRow(b)
               PROVE  StepsLeft(b)' < StepsLeft(b) \/ CountersOf(b)' = CountersOf(b)
    BY Zenon
  <2>1. TypeOK /\ \A a \in Actor : pc[a] = "handling" => createRunning[a] = 1
    BY DEF IInv, Place
  <2>2. ASSUME NEW a \in Actor, Chat(a) \/ Remove(a) PROVE CountersOf(b)' = CountersOf(b)
    BY <2>2 DEF Chat, Remove, CountersOf, eventVars
  <2>3. CASE Restart
    <3>1. CountersOf(b)' = <<0, 0, 0, 0, 0>> /\ StepsLeft(b)' = 0
      BY <2>3 DEF Restart, Zero, CountersOf, StepsLeft
    <3>2. StepsLeft(b) > 0 \/ CountersOf(b) = <<0, 0, 0, 0, 0>>
      BY <2>1, CounterTypes, StepsOfCounters DEF CountersOf, StepsLeft
    <3> QED
      BY <3>1, <3>2
  <2> QED
    BY <2>1, <2>2, <2>3, ListenShortens, CreateShortens DEF Next
<1> QED
  BY <1>1, Invariance, PTL DEF Spec, RoundShortens

Refused(a) ==
    \E b \in Actor : /\ Sibling(a, b)
                     /\ row[b] \in {"committed", "deleted"} \/ (row[b] = "open" /\ tx[b] = tx[a])

InsertIsAnswerable ==
    \A a \in Actor : pc[a] = "inserting" =>
        \/ TxIsOpen(a) /\ KeyFree(a)
        \/ TxIsOpen(a) /\ Refused(a)
        \/ tx[a] # a /\ (row[tx[a]] # "open" \/ pc[tx[a]] # "handling")
        \/ tx[a] = a /\ \E b \in Actor : /\ Sibling(a, b) /\ row[b] = "open"
                                         /\ pc[tx[b]] \in {"handling", "committing"}

(* actors.service.ts, the insert of _createActor: what CreationAnswered rests on.  An      *)
(* insert never waits for a transaction nobody ends: it can go on, or is refused, or finds *)
(* its transaction over; or the key is held in another transaction that is under way,      *)
(* which does not wait for this insert, since nobody else shares the transaction it is to  *)
(* open.                                                                                   *)
THEOREM InsertIsAnswerableHolds == Spec => []InsertIsAnswerable
<1>1. IInv => InsertIsAnswerable
  <2> SUFFICES ASSUME IInv, NEW a \in Actor, pc[a] = "inserting"
               PROVE  \/ TxIsOpen(a) /\ KeyFree(a)
                      \/ TxIsOpen(a) /\ Refused(a)
                      \/ tx[a] # a /\ (row[tx[a]] # "open" \/ pc[tx[a]] # "handling")
                      \/ tx[a] = a /\ \E b \in Actor : /\ Sibling(a, b) /\ row[b] = "open"
                                                       /\ pc[tx[b]] \in {"handling", "committing"}
    BY DEF InsertIsAnswerable
  <2>1. InTx(a)
    BY DEF IInv
  <2>2. CASE KeyFree(a)
    BY <2>2 DEF TxIsOpen
  <2>3. CASE ~KeyFree(a)
    <3>1. PICK b \in Actor : Sibling(a, b) /\ row[b] \in {"open", "committed", "deleted"}
      BY <2>3 DEF KeyFree
    <3>2. CASE row[b] # "open"
      BY <3>1, <3>2 DEF TxIsOpen, Refused
    <3>3. CASE row[b] = "open" /\ tx[a] = a
      BY <3>1, <3>3 DEF IInv, InTx
    <3>4. CASE row[b] = "open" /\ tx[a] # a /\ row[tx[a]] = "open" /\ pc[tx[a]] = "handling"
      <4>1. ParentOf[a] \in Actor /\ tx[ParentOf[a]] = tx[a] /\ row[ParentOf[a]] # "absent"
        BY <2>1, <3>4 DEF InTx
      <4>2. Joined(ParentOf[a]) /\ ParentOf[b] = ParentOf[a]
        BY <3>1, <3>4, <4>1 DEF Joined, Sibling
      <4>3. Place(b) /\ InTx(b)
        BY DEF IInv
      <4>4. tx[b] = tx[a]
        BY <3>4, <4>1, <4>2, <4>3 DEF Place, InTx
      <4> QED
        BY <3>1, <3>4, <4>4 DEF TxIsOpen, Refused
    <3> QED
      BY <3>1, <3>2, <3>3, <3>4
  <2> QED
    BY <2>2, <2>3
<1> QED
  BY <1>1, Invariance, PTL
=============================================================================

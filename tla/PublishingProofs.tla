--------------------------- MODULE PublishingProofs ---------------------------
(***************************************************************************)
(* Proofs about Publishing for every set of roles, hosts and requests, any *)
(* number of them under way at once and any number of texts.               *)
(***************************************************************************)
EXTENDS Publishing, FiniteSetTheorems, TLAPS

RoleRow == [row : Rows, published : BOOLEAN,
            text : 0..MaxText, at : 0..MaxClock]

-----------------------------------------------------------------------------
(* Lemmas about records that change in one field. *)

LEMMA MovedRow ==
  ASSUME NEW row \in RoleRow, NEW where \in Rows
  PROVE  LET moved == [row EXCEPT !.row = where] IN
         /\ moved \in RoleRow /\ moved.row = where
         /\ moved.published = row.published /\ moved.text = row.text
BY DEF RoleRow

LEMMA EmittedUpdate ==
  ASSUME NEW u \in Update
  PROVE  LET next == [u EXCEPT !.pc = "write"] IN
         /\ next \in Update /\ next.pc = "write"
         /\ next.role = u.role /\ next.publish = u.publish /\ next.text = u.text
BY DEF Update

LEMMA UpdateIsBusy == \A u \in Update : u # Idle
<1> SUFFICES ASSUME NEW u \in Update, u = Idle PROVE FALSE
  OBVIOUS
<1>1. u.pc \in {"emit", "write"}
  BY DEF Update
<1>2. u.pc = "idle"
  BY DEF Idle
<1> QED
  BY <1>1, <1>2

\* What an update request that has had the listeners agree looks like.
LEMMA Emitted ==
  ASSUME TypeOK, NEW q \in Request, Emitting(q), req' = [req EXCEPT ![q].pc = "write"]
  PROVE  /\ req' \in [Request -> Update \cup {Idle}]
         /\ req[q] \in Update /\ req'[q] \in Update
         /\ req'[q].pc = "write" /\ req'[q].role = req[q].role
         /\ req'[q].publish = req[q].publish
         /\ \A p \in Request \ {q} : req'[p] = req[p]
<1>1. req[q] \in Update
  BY DEF TypeOK, Emitting
<1>2. req'[q] = [req[q] EXCEPT !.pc = "write"]
  BY DEF TypeOK
<1>3. \A p \in Request \ {q} : req'[p] = req[p]
  BY DEF TypeOK
<1>4. req' \in [Request -> Update \cup {Idle}]
  BY <1>1, <1>2, <1>3, EmittedUpdate DEF TypeOK
<1> QED
  BY <1>1, <1>2, <1>3, <1>4, EmittedUpdate

\* What the update of a role leaves in the table.
LEMMA Written ==
  ASSUME TypeOK, NEW q \in Request, Write(q)
  PROVE  LET u == req[q]
             old == role[u.role]
             published == Given(old.published, u.publish)
         IN  /\ u \in Update /\ u.pc = "write" /\ u.role \in Role
             /\ role' \in [Role -> RoleRow]
             /\ role'[u.role].row = old.row
             /\ role'[u.role].published = published
             /\ published \in BOOLEAN
             /\ role'[u.role].text = IF u.text = 0 THEN old.text ELSE u.text
             /\ \A r \in Role \ {u.role} : role'[r] = role[r]
             /\ since' = IF published /\ ~old.published
                         THEN [since EXCEPT ![u.role] = clock] ELSE since
             /\ req' = [req EXCEPT ![q] = Idle]
<1> DEFINE u == req[q]
           old == role[u.role]
           published == Given(old.published, u.publish)
           text == IF u.text = 0 THEN old.text ELSE u.text
           new == [[[old EXCEPT !.published = published] EXCEPT !.text = text] EXCEPT !.at = clock]
<1>1. u \in Update /\ u.pc = "write"
  BY DEF TypeOK, Write
<1>2. u.role \in Role /\ u.text \in 0..MaxText
  BY <1>1 DEF Update
<1>3. old \in RoleRow /\ clock \in 0..MaxClock
  BY <1>2 DEF TypeOK, RoleRow
<1>4. published \in BOOLEAN /\ text \in 0..MaxText
  BY <1>2, <1>3 DEF Given, RoleRow
<1>5. role' = [role EXCEPT ![u.role].published = published,
                           ![u.role].text = IF u.text = 0 THEN @ ELSE u.text,
                           ![u.role].at = clock]
  BY DEF Write
<1>6. role'[u.role] = new /\ \A r \in Role \ {u.role} : role'[r] = role[r]
  BY <1>2, <1>3, <1>5 DEF TypeOK, RoleRow
<1>7. /\ new \in RoleRow /\ new.row = old.row /\ new.published = published
      /\ new.text = text
  BY <1>3, <1>4 DEF RoleRow
<1>8. role' \in [Role -> RoleRow]
  <2>1. DOMAIN role' = Role /\ role' = [r \in Role |-> role'[r]]
    BY <1>2, <1>5 DEF TypeOK
  <2> HIDE DEF new
  <2>2. \A r \in Role : role'[r] \in RoleRow
    BY <1>2, <1>6, <1>7 DEF TypeOK, RoleRow
  <2> QED
    BY <2>1, <2>2
<1>9. since' = IF published /\ ~old.published
               THEN [since EXCEPT ![u.role] = clock] ELSE since
  BY DEF Write
<1>10. req' = [req EXCEPT ![q] = Idle]
  BY DEF Write
<1> HIDE DEF new
<1> QED
  BY <1>1, <1>2, <1>4, <1>6, <1>7, <1>8, <1>9, <1>10

LEMMA Created ==
  ASSUME TypeOK, NEW r \in Role, NEW publish \in BOOLEAN, CreateRole(r, publish)
  PROVE  /\ role' \in [Role -> RoleRow]
         /\ role[r].row = "absent"
         /\ role'[r].row = "creating" /\ role'[r].published = publish /\ role'[r].text = 1
         /\ \A s \in Role \ {r} : role'[s] = role[s]
<1> DEFINE new == [row |-> "creating", published |-> publish, text |-> 1, at |-> clock]
<1>1. new \in RoleRow
  BY PublishingAssumption DEF RoleRow, Rows, TypeOK
<1>2. role' = [role EXCEPT ![r] = new]
  BY DEF CreateRole
<1> QED
  BY <1>1, <1>2 DEF TypeOK, RoleRow, CreateRole

\* Where a row goes when its creation ends, well or not, and when it is deleted.
LEMMA Moved ==
  ASSUME TypeOK, NEW r \in Role, NEW where \in Rows, role' = [role EXCEPT ![r].row = where]
  PROVE  /\ role' \in [Role -> RoleRow]
         /\ role'[r].row = where
         /\ role'[r].published = role[r].published /\ role'[r].text = role[r].text
         /\ \A s \in Role \ {r} : role'[s] = role[s]
<1>1. role \in [Role -> RoleRow]
  BY DEF TypeOK, RoleRow
<1>2. role'[r] = [role[r] EXCEPT !.row = where] /\ role[r] \in RoleRow
  BY <1>1
<1>3. \A s \in Role \ {r} : role'[s] = role[s]
  BY <1>1
<1>4. role' \in [Role -> RoleRow]
  BY <1>1, <1>2, <1>3, MovedRow
<1> QED
  BY <1>2, <1>3, <1>4, MovedRow

\* A creation ends, or a role is deleted.
Move(r) == CommitRole(r) \/ CreateRoleFails(r) \/ RemoveRole(r)

LEMMA Moves ==
  ASSUME TypeOK, NEW r \in Role, Move(r)
  PROVE  /\ role' \in [Role -> RoleRow]
         /\ role[r].row \in {"creating", "live"}
         /\ \/ CommitRole(r) /\ role'[r].row = "live"
            \/ CreateRoleFails(r) /\ role'[r].row = "gone"
            \/ RemoveRole(r) /\ role'[r].row = "deleted"
         /\ role'[r].published = role[r].published /\ role'[r].text = role[r].text
         /\ \A s \in Role \ {r} : role'[s] = role[s]
         /\ UNCHANGED <<clock, host, req, posts, vdb, arriving, inhabited>>
<1>1. CASE CommitRole(r)
  BY <1>1, Moved DEF CommitRole, Rows
<1>2. CASE CreateRoleFails(r)
  BY <1>2, Moved DEF CreateRoleFails, Rows
<1>3. CASE RemoveRole(r)
  BY <1>3, Moved DEF RemoveRole, Live, Rows
<1> QED
  BY <1>1, <1>2, <1>3 DEF Move

-----------------------------------------------------------------------------
(* Type correctness.  Posts carry a text because every role that is there has one. *)

HaveText == \A r \in Role : role[r].row # "absent" => role[r].text # 0

TInv == TypeOK /\ HaveText

LEMMA InitTInv == Init => TInv
<1> SUFFICES ASSUME Init PROVE TInv
  OBVIOUS
<1> USE PublishingAssumption
<1>1. role \in [Role -> RoleRow] /\ \A r \in Role : role[r].row = "absent"
  BY DEF Init, RoleRow, Rows
<1>2. since \in [Role -> {Never} \cup 0..MaxClock] /\ vdb \in [Role -> 0..MaxText]
  BY DEF Init
<1>3. clock \in 0..MaxClock
  BY DEF Init
<1> QED
  BY <1>1, <1>2, <1>3 DEF Init, TypeOK, TInv, HaveText, RoleRow

LEMMA StepTInv == TInv /\ [Next]_vars => TInv'
<1> SUFFICES ASSUME TInv, [Next]_vars PROVE TInv'
  OBVIOUS
<1> USE PublishingAssumption
<1>0. TypeOK /\ HaveText
  BY DEF TInv
<1>1. ASSUME NEW r \in Role, NEW publish \in BOOLEAN, CreateRole(r, publish) PROVE TInv'
  <2>1. posts' \subseteq Role \X (1..MaxText)
    BY <1>0, <1>1 DEF CreateRole, TypeOK
  <2>2. /\ UNCHANGED <<clock, host, req, vdb, arriving, inhabited, since, failed>>
        /\ overlapped' \in BOOLEAN
    BY <1>0, <1>1 DEF CreateRole, Begin, TypeOK
  <2>3. TypeOK'
    BY <1>0, <1>1, <2>1, <2>2, Created DEF TypeOK, RoleRow
  <2>4. HaveText'
    BY <1>0, <1>1, Created DEF HaveText
  <2> QED
    BY <2>3, <2>4 DEF TInv
<1>2. ASSUME NEW r \in Role, Move(r) PROVE TInv'
  <2>1. /\ since' \in [Role -> {Never} \cup 0..MaxClock] /\ failed' \subseteq Role
        /\ overlapped' \in BOOLEAN
    <3>1. CASE CommitRole(r)
      BY <1>0, <3>1 DEF CommitRole, TypeOK
    <3>2. CASE CreateRoleFails(r)
      BY <1>0, <3>2 DEF CreateRoleFails, TypeOK
    <3>3. CASE RemoveRole(r)
      BY <1>0, <3>3 DEF RemoveRole, Begin, TypeOK
    <3> QED
      BY <1>2, <3>1, <3>2, <3>3 DEF Move
  <2>2. TypeOK'
    BY <1>0, <1>2, <2>1, Moves DEF TypeOK, RoleRow
  <2>3. HaveText'
    BY <1>0, <1>2, Moves DEF HaveText
  <2> QED
    BY <2>2, <2>3 DEF TInv
<1>3. ASSUME NEW r \in Role, AskActor(r) \/ InsertActor(r) PROVE TInv'
  BY <1>0, <1>3 DEF AskActor, InsertActor, Begin, TInv, TypeOK, HaveText
<1>4. ASSUME NEW q \in Request, NEW r \in Role, NEW publish \in Choices, NEW text \in 0..MaxText,
             AskUpdate(q, r, publish, text)
      PROVE  TInv'
  <2> DEFINE u == [pc |-> IF Differs(r, publish) THEN "emit" ELSE "write",
                   role |-> r, publish |-> publish, text |-> text]
  <2>1. u \in Update
    BY DEF Update
  <2>2. req' = [req EXCEPT ![q] = u]
    BY <1>4 DEF AskUpdate
  <2>3. req' \in [Request -> Update \cup {Idle}]
    BY <1>0, <2>1, <2>2 DEF TypeOK
  <2> QED
    BY <1>0, <1>4, <2>3 DEF AskUpdate, Begin, TInv, TypeOK, HaveText
<1>5. ASSUME NEW q \in Request, EmitPublish(q) PROVE TInv'
  <2>1. req' \in [Request -> Update \cup {Idle}] /\ req[q] \in Update
    BY <1>0, <1>5, Emitted DEF EmitPublish
  <2>2. req[q].role \in Role
    BY <2>1 DEF Update
  <2>3. posts' \subseteq Role \X (1..MaxText)
    BY <1>0, <1>5, <2>2 DEF EmitPublish, Embed, Live, TypeOK, HaveText
  <2> QED
    BY <1>0, <1>5, <2>1, <2>3 DEF EmitPublish, TInv, TypeOK, HaveText
<1>6. ASSUME NEW q \in Request, EmitUnpublish(q) PROVE TInv'
  <2>1. req' \in [Request -> Update \cup {Idle}]
    BY <1>0, <1>6, Emitted DEF EmitUnpublish
  <2> QED
    BY <1>0, <1>6, <2>1 DEF EmitUnpublish, TInv, TypeOK, HaveText
<1>7. ASSUME NEW q \in Request, Refuse(q) PROVE TInv'
  BY <1>0, <1>7 DEF Refuse, TInv, TypeOK, HaveText
<1>8. ASSUME NEW q \in Request, Write(q) PROVE TInv'
  <2>1. /\ req' \in [Request -> Update \cup {Idle}]
        /\ since' \in [Role -> {Never} \cup 0..MaxClock]
    BY <1>0, <1>8, Written DEF TypeOK
  <2>2. UNCHANGED <<clock, host, posts, vdb, arriving, inhabited, failed, overlapped>>
    BY <1>8 DEF Write
  <2>3. TypeOK'
    BY <1>0, <1>8, <2>1, <2>2, Written DEF TypeOK, RoleRow
  <2>4. HaveText'
    BY <1>0, <1>8, Written DEF HaveText
  <2> QED
    BY <2>3, <2>4 DEF TInv
<1>9. ASSUME NEW h \in Host, NEW publish \in BOOLEAN, AskHost(h, publish) PROVE TInv'
  BY <1>0, <1>9 DEF AskHost, Begin, TInv, TypeOK, HaveText
<1>10. ASSUME NEW h \in Host, InsertHost(h) \/ CreateMember(h) PROVE TInv'
  BY <1>0, <1>10 DEF InsertHost, CreateMember, Begin, TInv, TypeOK, HaveText
<1>11. ASSUME NEW p \in posts, Deliver(p) PROVE TInv'
  <2>1. p[1] \in Role /\ p[2] \in 0..MaxText
    BY <1>0 DEF TypeOK
  <2>2. vdb' \in [Role -> 0..MaxText] /\ posts' \subseteq Role \X (1..MaxText)
    BY <1>0, <1>11, <2>1 DEF Deliver, TypeOK
  <2> QED
    BY <1>0, <1>11, <2>2 DEF Deliver, TInv, TypeOK, HaveText
<1>14. ASSUME NEW q \in Request, UpdateFails(q) PROVE TInv'
  <2>1. req[q] \in Update
    BY <1>0, <1>14 DEF UpdateFails, TypeOK
  <2>2. failed' \subseteq Role
    BY <1>0, <1>14, <2>1 DEF UpdateFails, TypeOK, Update
  <2> QED
    BY <1>0, <1>14, <2>2 DEF UpdateFails, TInv, TypeOK, HaveText
<1>12. CASE Tick
  BY <1>0, <1>12 DEF Tick, TInv, TypeOK, HaveText
<1>13. CASE UNCHANGED vars
  BY <1>0, <1>13 DEF vars, TInv, TypeOK, HaveText
<1> QED
  BY <1>1, <1>2, <1>3, <1>4, <1>5, <1>6, <1>7, <1>8, <1>9, <1>10, <1>11, <1>12, <1>13, <1>14, Zenon
     DEF Next, Move

(* roles.service.ts, hosts.service.ts: every state has its types, and what is posted to the *)
(* VDB is the text of a role.                                                               *)
THEOREM TypeCorrect == Spec => []TypeOK
<1>1. TInv => TypeOK
  BY DEF TInv
<1> QED
  BY <1>1, InitTInv, StepTInv, PTL DEF Spec

-----------------------------------------------------------------------------
(***************************************************************************)
(* Only finitely many requests are ever under way, each step beginning at  *)
(* most one: when UnderWay is 0 there are none.                            *)
(***************************************************************************)
Asking == {q \in Request : req[q] # Idle}
Inserting == {h \in Host : host[h] \in {"drafting", "publishing"}}
Creating == {r \in Role : role[r].row = "creating"}

Few == /\ IsFiniteSet(Creating)
       /\ IsFiniteSet(Asking) /\ IsFiniteSet(Inserting) /\ IsFiniteSet(arriving)

LEMMA InitFew == Init => Few
<1> SUFFICES ASSUME Init PROVE Few
  OBVIOUS
<1>1. Creating = {} /\ Asking = {} /\ Inserting = {} /\ arriving = {}
  BY DEF Init, Creating, Asking, Inserting
<1> QED
  BY <1>1, FS_EmptySet DEF Few

LEMMA OneMore ==
  ASSUME NEW S, IsFiniteSet(S), NEW x, NEW T, T \subseteq S \cup {x}
  PROVE  IsFiniteSet(T)
<1>1. IsFiniteSet(S \cup {x})
  BY FS_AddElement
<1> QED
  BY <1>1, FS_Subset

LEMMA StepFew == TypeOK /\ Few /\ [Next]_vars => Few'
<1> SUFFICES ASSUME TypeOK, Few, [Next]_vars PROVE Few'
  OBVIOUS
<1>1. IsFiniteSet(Asking')
  <2>1. CASE Asking' = Asking
    BY <2>1 DEF Few
  <2>2. ASSUME NEW q \in Request, \A p \in Request \ {q} : req'[p] = req[p]
        PROVE  IsFiniteSet(Asking')
    <3>1. Asking' \subseteq Asking \cup {q}
      BY <2>2 DEF Asking
    <3> QED
      BY <3>1, OneMore DEF Few
  <2>3. \/ req' = req
        \/ \E q \in Request : \A p \in Request \ {q} : req'[p] = req[p]
    <3>1. ASSUME NEW q \in Request,
                 \/ \E r \in Role, publish \in Choices, text \in 0..MaxText :
                       AskUpdate(q, r, publish, text)
                 \/ EmitPublish(q) \/ EmitUnpublish(q) \/ Refuse(q) \/ Write(q) \/ UpdateFails(q)
          PROVE  \A p \in Request \ {q} : req'[p] = req[p]
      BY <3>1 DEF AskUpdate, EmitPublish, EmitUnpublish, Refuse, Write, UpdateFails, TypeOK
    <3>2. ASSUME ~ \E q \in Request :
                   \/ \E r \in Role, publish \in Choices, text \in 0..MaxText :
                         AskUpdate(q, r, publish, text)
                   \/ EmitPublish(q) \/ EmitUnpublish(q) \/ Refuse(q) \/ Write(q) \/ UpdateFails(q)
          PROVE  req' = req
      BY <3>2 DEF Next, vars, CreateRole, CommitRole, CreateRoleFails, RemoveRole, AskActor, InsertActor, AskHost, InsertHost,
                  CreateMember, Deliver, Tick
    <3> QED
      BY <3>1, <3>2
  <2> QED
    BY <2>1, <2>2, <2>3 DEF Asking
<1>2. IsFiniteSet(Inserting')
  <2>1. ASSUME NEW h \in Host, \A g \in Host \ {h} : host'[g] = host[g]
        PROVE  IsFiniteSet(Inserting')
    <3>1. Inserting' \subseteq Inserting \cup {h}
      BY <2>1 DEF Inserting
    <3> QED
      BY <3>1, OneMore DEF Few
  <2>2. \/ host' = host
        \/ \E h \in Host : \A g \in Host \ {h} : host'[g] = host[g]
    BY DEF Next, vars, CreateRole, CommitRole, CreateRoleFails, RemoveRole, AskActor, InsertActor, AskUpdate, EmitPublish,
           EmitUnpublish, Refuse, Write, UpdateFails, AskHost, InsertHost, CreateMember, Deliver, Tick, TypeOK
  <2> QED
    BY <2>1, <2>2 DEF Inserting, Few
<1>3. IsFiniteSet(arriving')
  <2>1. arriving' \subseteq arriving \/ \E r \in Role : arriving' = arriving \cup {r}
    BY DEF Next, vars, CreateRole, CommitRole, CreateRoleFails, RemoveRole, AskActor, InsertActor, AskUpdate, EmitPublish,
           EmitUnpublish, Refuse, Write, UpdateFails, AskHost, InsertHost, CreateMember, Deliver, Tick
  <2> QED
    BY <2>1, FS_Subset, FS_AddElement DEF Few
<1>4. IsFiniteSet(Creating')
  <2>1. ASSUME NEW r \in Role, \A s \in Role \ {r} : role'[s] = role[s]
        PROVE  IsFiniteSet(Creating')
    <3>1. Creating' \subseteq Creating \cup {r}
      BY <2>1 DEF Creating
    <3> QED
      BY <3>1, OneMore DEF Few
  <2>2. \/ role' = role
        \/ \E r \in Role : \A s \in Role \ {r} : role'[s] = role[s]
    <3>1. ASSUME NEW r \in Role,
                 Move(r) \/ \E publish \in BOOLEAN : CreateRole(r, publish)
          PROVE  \A s \in Role \ {r} : role'[s] = role[s]
      BY <3>1, Moves, Created
    <3>2. ASSUME NEW q \in Request, Write(q)
          PROVE  \E r \in Role : \A s \in Role \ {r} : role'[s] = role[s]
      BY <3>2, Written
    <3> QED
      BY <3>1, <3>2 DEF Next, Move, vars, AskActor, InsertActor, AskUpdate, EmitPublish,
         EmitUnpublish, Refuse, UpdateFails, AskHost, InsertHost, CreateMember, Deliver, Tick
  <2> QED
    BY <2>1, <2>2 DEF Creating, Few
<1> QED
  BY <1>1, <1>2, <1>3, <1>4 DEF Few

LEMMA NothingUnderWay ==
  ASSUME Few
  PROVE  /\ UnderWay \in Nat
         /\ UnderWay = 0 => Creating = {} /\ Asking = {} /\ Inserting = {} /\ arriving = {}
<1>1. /\ Cardinality(Asking) \in Nat /\ Cardinality(Inserting) \in Nat
      /\ Cardinality(arriving) \in Nat /\ Cardinality(Creating) \in Nat
  BY FS_CardinalityType DEF Few
<1>2. UnderWay = Cardinality(Creating) + Cardinality(Asking) + Cardinality(Inserting)
                   + Cardinality(arriving)
  BY DEF UnderWay, Creating, Asking, Inserting
<1>3. UnderWay \in Nat
  BY <1>1, <1>2
<1>4. ASSUME UnderWay = 0
      PROVE  Creating = {} /\ Asking = {} /\ Inserting = {} /\ arriving = {}
  <2>1. /\ Cardinality(Creating) = 0 /\ Cardinality(Asking) = 0
        /\ Cardinality(Inserting) = 0 /\ Cardinality(arriving) = 0
    BY <1>1, <1>2, <1>4
  <2> QED
    BY <2>1, FS_EmptySet DEF Few
<1> QED
  BY <1>3, <1>4

-----------------------------------------------------------------------------
(***************************************************************************)
(* Who has been published.  A role in the VDB, or on its way there, has    *)
(* been published, or is about to be by the request that had it posted, or *)
(* that request failed.  A host passed the check of its role long before   *)
(* it is inserted, but a role that was published once stays so in `since`. *)
(***************************************************************************)
Publishes(r) ==
    \E q \in Request : req[q] # Idle /\ req[q].pc = "write" /\ req[q].publish = "yes"
                         /\ req[q].role = r

\* The creation of r is under way, and publishes it.
BeginsPublished(r) == role[r].row = "creating" /\ role[r].published

Kept == {"live", "deleted"}

PublishedOnce ==
    \A r \in Role : /\ role[r].row \in Kept /\ role[r].published => since[r] # Never
                    /\ role[r].row = "absent" => ~role[r].published

HostOfPublished ==
    \A h \in Host : host[h] \in {"publishing", "published"} => since[RoleOf[h]] # Never

Posted(r) == \E p \in posts : p[1] = r

PostedIsPublished ==
    \A r \in Role : vdb[r] # 0 \/ Posted(r) =>
        since[r] # Never \/ r \in failed \/ Publishes(r) \/ BeginsPublished(r)

\* An update is asked for a role that is there, and committed rows never go.
AskedForRow == \A q \in Request : req[q] # Idle => role[req[q].role].row \in Kept

PInv == TInv /\ Few /\ AskedForRow /\ PublishedOnce /\ HostOfPublished /\ PostedIsPublished

LEMMA InitPInv == Init => PInv
<1> SUFFICES ASSUME Init PROVE PInv
  OBVIOUS
<1>1. AskedForRow /\ PublishedOnce /\ HostOfPublished /\ PostedIsPublished
  BY DEF Init, AskedForRow, PublishedOnce, HostOfPublished, PostedIsPublished, Posted
<1> QED
  BY <1>1, InitTInv, InitFew DEF PInv

\* A role that was published once will always have been, and a failure is remembered.
LEMMA SinceStays ==
  ASSUME TypeOK, [Next]_vars, NEW r \in Role, since[r] # Never
  PROVE  since'[r] # Never
<1>1. clock # Never
  BY PublishingAssumption DEF TypeOK, Never
<1>2. \/ since' = since
      \/ \E s \in Role : since' = [since EXCEPT ![s] = clock]
  <2>1. ASSUME NEW s \in Role, CommitRole(s)
        PROVE  since' = since \/ since' = [since EXCEPT ![s] = clock]
    BY <2>1 DEF CommitRole
  <2>2. ASSUME NEW q \in Request, Write(q)
        PROVE  since' = since \/ since' = [since EXCEPT ![req[q].role] = clock]
    BY <2>2, Written
  <2>3. ASSUME NEW q \in Request, Write(q) PROVE req[q].role \in Role
    BY <2>3, Written
  <2> QED
    BY <2>1, <2>2, <2>3 DEF Next, vars, CreateRole, CreateRoleFails, RemoveRole, AskActor,
       InsertActor, AskUpdate, EmitPublish, EmitUnpublish, Refuse, UpdateFails, AskHost,
       InsertHost, CreateMember, Deliver, Tick
<1> QED
  BY <1>1, <1>2 DEF TypeOK

LEMMA FailedStays ==
  ASSUME [Next]_vars
  PROVE  failed \subseteq failed'
<1>1. ASSUME NEW r \in Role, CreateRoleFails(r) PROVE failed \subseteq failed'
  BY <1>1 DEF CreateRoleFails
<1>2. ASSUME NEW q \in Request, UpdateFails(q) PROVE failed \subseteq failed'
  BY <1>2 DEF UpdateFails
<1> QED
  BY <1>1, <1>2 DEF Next, vars, CreateRole, CommitRole, RemoveRole, AskActor, InsertActor,
     AskUpdate, EmitPublish, EmitUnpublish, Refuse, Write, AskHost, InsertHost, CreateMember,
     Deliver, Tick

\* The steps that change no row.
LEMMA RowsStay ==
  ASSUME [Next]_vars,
         ~ \E r \in Role, publish \in BOOLEAN : CreateRole(r, publish),
         ~ \E r \in Role : Move(r),
         ~ \E q \in Request : Write(q)
  PROVE  role' = role
BY DEF Next, Move, vars, AskActor, InsertActor, AskUpdate, EmitPublish, EmitUnpublish, Refuse,
   UpdateFails, AskHost, InsertHost, CreateMember, Deliver, Tick

LEMMA StepPublishedOnce ==
  ASSUME PInv, [Next]_vars
  PROVE  PublishedOnce'
<1> DEFINE Good(r) == /\ role'[r].row \in Kept /\ role'[r].published => since'[r] # Never
                      /\ role'[r].row = "absent" => ~role'[r].published
<1> SUFFICES \A r \in Role : Good(r)
  BY DEF PublishedOnce
<1>1. TypeOK
  BY DEF PInv, TInv
<1>2. clock # Never
  BY <1>1 DEF TypeOK, Never
<1>3. ASSUME NEW r \in Role, role'[r] = role[r] PROVE Good(r)
  BY <1>1, <1>3, SinceStays DEF PInv, PublishedOnce
<1>4. ASSUME NEW r \in Role, NEW publish \in BOOLEAN, CreateRole(r, publish)
      PROVE  \A s \in Role : Good(s)
  <2>1. Good(r)
    BY <1>1, <1>4, Created DEF Kept
  <2> QED
    BY <1>1, <1>3, <1>4, <2>1, Created
<1>5. ASSUME NEW r \in Role, Move(r) PROVE \A s \in Role : Good(s)
  <2>1. Good(r)
    <3>1. CASE CommitRole(r)
      <4>1. role'[r].row = "live" /\ role'[r].published = role[r].published
        BY <1>1, <1>5, <3>1, Moves DEF CommitRole, CreateRoleFails, RemoveRole, Live
      <4>2. role[r].published => since'[r] # Never
        BY <1>1, <1>2, <3>1 DEF CommitRole, TypeOK
      <4> QED
        BY <4>1, <4>2
    <3>2. CASE CreateRoleFails(r) /\ role'[r].row = "gone"
      BY <3>2 DEF Kept
    <3>3. CASE RemoveRole(r) /\ role'[r].row = "deleted"
      <4>1. role[r].row \in Kept /\ role'[r].published = role[r].published
        BY <1>1, <1>5, <3>3, Moves DEF RemoveRole, Live, Kept
      <4> QED
        BY <1>1, <3>3, <4>1, SinceStays DEF PInv, PublishedOnce
    <3> QED
      BY <1>1, <1>5, <3>1, <3>2, <3>3, Moves
  <2> QED
    BY <1>1, <1>3, <1>5, <2>1, Moves
<1>6. ASSUME NEW q \in Request, Write(q) PROVE \A s \in Role : Good(s)
  <2>0. PICK r \in Role : r = req[q].role
    BY <1>1, <1>6, Written DEF Update
  <2>1. role'[r].published \in BOOLEAN /\ role[r].published \in BOOLEAN
    BY <1>1, <1>6, <2>0, Written DEF TypeOK
  <2>2. role[r].row \in Kept /\ role'[r].row = role[r].row
    BY <1>1, <1>6, <2>0, Written DEF PInv, AskedForRow, Write
  <2>3. role'[r].published => since'[r] # Never
    <3>1. CASE role[r].published
      BY <1>1, <2>2, <3>1, SinceStays DEF PInv, PublishedOnce
    <3>2. CASE ~role[r].published
      BY <1>1, <1>2, <1>6, <2>0, <2>1, <3>2, Written DEF TypeOK
    <3> QED
      BY <3>1, <3>2
  <2>4. Good(r)
    BY <2>2, <2>3 DEF Kept
  <2> QED
    BY <1>1, <1>3, <1>6, <2>0, <2>4, Written
<1>7. CASE role' = role
  BY <1>3, <1>7
<1> QED
  BY <1>4, <1>5, <1>6, <1>7, RowsStay

LEMMA StepAskedForRow ==
  ASSUME PInv, [Next]_vars
  PROVE  AskedForRow'
<1>1. TypeOK
  BY DEF PInv, TInv
<1>2. \A r \in Role : role[r].row \in Kept => role'[r].row \in Kept
  <2>1. ASSUME NEW r \in Role, NEW publish \in BOOLEAN, CreateRole(r, publish)
        PROVE  \A s \in Role : role[s].row \in Kept => role'[s].row \in Kept
    BY <1>1, <2>1, Created DEF Kept
  <2>2. ASSUME NEW r \in Role, Move(r)
        PROVE  \A s \in Role : role[s].row \in Kept => role'[s].row \in Kept
    <3>1. role[r].row \in Kept => role'[r].row \in Kept
      BY <1>1, <2>2, Moves DEF Kept, CreateRoleFails
    <3> QED
      BY <1>1, <2>2, <3>1, Moves
  <2>3. ASSUME NEW q \in Request, Write(q)
        PROVE  \A s \in Role : role[s].row \in Kept => role'[s].row \in Kept
    BY <1>1, <2>3, Written
  <2> QED
    BY <2>1, <2>2, <2>3, RowsStay
<1>3. ASSUME NEW q \in Request, req'[q] # Idle
      PROVE  /\ req'[q].role \in Role
             /\ \/ req[q] # Idle /\ req'[q].role = req[q].role
                \/ role[req'[q].role].row \in Kept
  <2>1. CASE req'[q] = req[q]
    BY <1>1, <1>3, <2>1 DEF TypeOK, Update
  <2>2. CASE \E r \in Role, publish \in Choices, text \in 0..MaxText :
               AskUpdate(q, r, publish, text)
    <3>1. PICK r \in Role, publish \in Choices, text \in 0..MaxText :
            AskUpdate(q, r, publish, text)
      BY <2>2
    <3>2. req'[q].role = r /\ role[r].row = "live"
      BY <1>1, <3>1 DEF AskUpdate, Live, TypeOK
    <3> QED
      BY <3>2 DEF Kept
  <2>3. CASE EmitPublish(q) \/ EmitUnpublish(q)
    <3>1. Emitting(q) /\ req' = [req EXCEPT ![q].pc = "write"]
      BY <2>3 DEF EmitPublish, EmitUnpublish
    <3>2. req[q] \in Update /\ req'[q].role = req[q].role /\ req[q] # Idle
      BY <1>1, <3>1, Emitted DEF Emitting
    <3> QED
      BY <3>2 DEF Update
  <2>4. CASE Refuse(q) \/ Write(q) \/ UpdateFails(q)
    BY <1>1, <1>3, <2>4 DEF Refuse, Write, UpdateFails, TypeOK
  <2> QED
    BY <1>1, <1>3, <2>1, <2>2, <2>3, <2>4 DEF Next, vars, CreateRole, CommitRole, CreateRoleFails, RemoveRole, AskActor, InsertActor,
       AskUpdate, EmitPublish, EmitUnpublish, Refuse, Write, UpdateFails, AskHost, InsertHost, CreateMember,
       Deliver, Tick, TypeOK
<1> QED
  BY <1>2, <1>3 DEF AskedForRow, PInv

LEMMA StepHostOfPublished ==
  ASSUME PInv, [Next]_vars
  PROVE  HostOfPublished'
<1>1. TypeOK
  BY DEF PInv, TInv
<1>2. ASSUME NEW h \in Host, host'[h] \in {"publishing", "published"}
      PROVE  \/ host[h] \in {"publishing", "published"}
             \/ Live(RoleOf[h]) /\ role[RoleOf[h]].published
  <2>1. ASSUME NEW g \in Host, NEW publish \in BOOLEAN, AskHost(g, publish)
        PROVE  \/ host[h] \in {"publishing", "published"}
               \/ Live(RoleOf[h]) /\ role[RoleOf[h]].published
    BY <1>1, <1>2, <2>1 DEF AskHost, TypeOK
  <2>2. ASSUME NEW g \in Host, InsertHost(g) \/ CreateMember(g)
        PROVE  host[h] \in {"publishing", "published"}
    BY <1>1, <1>2, <2>2 DEF InsertHost, CreateMember, TypeOK
  <2>3. CASE host' = host
    BY <1>2, <2>3
  <2> QED
    BY <2>1, <2>2, <2>3 DEF Next, vars, CreateRole, CommitRole, CreateRoleFails, RemoveRole, AskActor, InsertActor,
       AskUpdate, EmitPublish, EmitUnpublish, Refuse, Write, UpdateFails, Deliver, Tick
<1> QED
  BY <1>1, <1>2, SinceStays, PublishingAssumption
     DEF PInv, PublishedOnce, HostOfPublished, Live, Kept

\* The update that publishes stays under way until it has written or failed.
LEMMA PublishesStays ==
  ASSUME PInv, [Next]_vars, NEW r \in Role, Publishes(r)
  PROVE  since'[r] # Never \/ r \in failed' \/ Publishes(r)'
<1>1. TypeOK /\ TypeOK'
  BY StepTInv DEF PInv, TInv
<1>2. PICK q \in Request : /\ req[q] # Idle /\ req[q].pc = "write"
                           /\ req[q].publish = "yes" /\ req[q].role = r
  BY DEF Publishes
<1>3. CASE Write(q)
  <2>1. role'[r].published /\ role'[r].row \in Kept
    BY <1>1, <1>2, <1>3, Written DEF Given, PInv, AskedForRow
  <2> QED
    BY <2>1, StepPublishedOnce DEF PublishedOnce
<1>4. CASE UpdateFails(q)
  BY <1>2, <1>4 DEF UpdateFails
<1>5. CASE ~Write(q) /\ ~UpdateFails(q)
  <2>1. ~EmitPublish(q) /\ ~EmitUnpublish(q) /\ ~Refuse(q)
    BY <1>2 DEF EmitPublish, EmitUnpublish, Refuse, Emitting
  <2>2. req'[q] = req[q]
    <3>1. ASSUME NEW p \in Request,
                 \/ \E s \in Role, publish \in Choices, text \in 0..MaxText :
                       AskUpdate(p, s, publish, text)
                 \/ EmitPublish(p) \/ EmitUnpublish(p) \/ Refuse(p) \/ Write(p) \/ UpdateFails(p)
          PROVE  req'[q] = req[q]
      <4>1. p # q
        BY <1>2, <1>5, <2>1, <3>1 DEF AskUpdate
      <4> QED
        BY <1>1, <3>1, <4>1 DEF AskUpdate, EmitPublish, EmitUnpublish, Refuse, Write,
           UpdateFails, TypeOK
    <3>2. CASE req' = req
      BY <3>2
    <3> QED
      BY <3>1, <3>2 DEF Next, vars, CreateRole, CommitRole, CreateRoleFails, RemoveRole, AskActor, InsertActor, AskHost,
         InsertHost, CreateMember, Deliver, Tick
  <2> QED
    BY <1>2, <2>2 DEF Publishes
<1> QED
  BY <1>3, <1>4, <1>5

\* So does the creation, until its transaction ends.
LEMMA BeginningStays ==
  ASSUME PInv, [Next]_vars, NEW r \in Role, BeginsPublished(r)
  PROVE  since'[r] # Never \/ r \in failed' \/ BeginsPublished(r)'
<1>1. TypeOK /\ clock # Never
  BY PublishingAssumption DEF PInv, TInv, TypeOK, Never
<1>2. CASE CommitRole(r)
  BY <1>1, <1>2 DEF CommitRole, BeginsPublished, TypeOK
<1>3. CASE CreateRoleFails(r)
  BY <1>3 DEF CreateRoleFails, BeginsPublished
<1>4. CASE ~CommitRole(r) /\ ~CreateRoleFails(r)
  <2>1. role'[r] = role[r]
    <3>1. ASSUME NEW s \in Role, NEW publish \in BOOLEAN, CreateRole(s, publish)
          PROVE  role'[r] = role[r]
      BY <1>1, <3>1, Created DEF BeginsPublished
    <3>2. ASSUME NEW s \in Role, Move(s) PROVE role'[r] = role[r]
      <4>1. s # r
        BY <1>4, <3>2 DEF Move, RemoveRole, Live, BeginsPublished
      <4> QED
        BY <1>1, <3>2, <4>1, Moves
    <3>3. ASSUME NEW q \in Request, Write(q) PROVE role'[r] = role[r]
      <4>1. req[q].role # r
        BY <3>3 DEF PInv, AskedForRow, Kept, Write, BeginsPublished
      <4> QED
        BY <1>1, <3>3, <4>1, Written
    <3> QED
      BY <3>1, <3>2, <3>3, RowsStay
  <2> QED
    BY <2>1 DEF BeginsPublished
<1> QED
  BY <1>2, <1>3, <1>4

LEMMA StepEmbedded ==
  ASSUME PInv, [Next]_vars
  PROVE  PostedIsPublished'
<1> DEFINE Good(r) == since'[r] # Never \/ r \in failed' \/ Publishes(r)' \/ BeginsPublished(r)'
<1>1. TypeOK
  BY DEF PInv, TInv
<1>2. ASSUME NEW r \in Role, vdb[r] # 0 \/ Posted(r) PROVE Good(r)
  <2>1. since[r] # Never \/ r \in failed \/ Publishes(r) \/ BeginsPublished(r)
    BY <1>2 DEF PInv, PostedIsPublished
  <2> QED
    BY <1>1, <2>1, SinceStays, FailedStays, PublishesStays, BeginningStays
<1>3. ASSUME NEW r \in Role, vdb'[r] # 0 \/ Posted(r)', ~(vdb[r] # 0 \/ Posted(r))
      PROVE  Good(r)
  <2>1. CASE \E publish \in BOOLEAN, s \in Role : CreateRole(s, publish)
    <3>1. PICK publish \in BOOLEAN, s \in Role : CreateRole(s, publish)
      BY <2>1
    <3>2. publish /\ s = r
      BY <1>3, <3>1 DEF CreateRole, Posted
    <3>3. BeginsPublished(r)'
      BY <1>1, <3>1, <3>2, Created DEF BeginsPublished
    <3> QED
      BY <3>3
  <2>2. CASE \E q \in Request : EmitPublish(q)
    <3>1. PICK q \in Request : EmitPublish(q)
      BY <2>2
    <3>2. req[q].role = r
      BY <1>3, <3>1 DEF EmitPublish, Embed, Posted
    <3>3. /\ req'[q] \in Update /\ req'[q].pc = "write" /\ req'[q].role = r
          /\ req'[q].publish = "yes"
      BY <1>1, <3>1, <3>2, Emitted DEF EmitPublish
    <3>4. Publishes(r)'
      BY <3>3, UpdateIsBusy DEF Publishes
    <3> QED
      BY <3>4
  <2>3. CASE \E p \in posts : Deliver(p)
    <3>1. PICK p \in posts : Deliver(p)
      BY <2>3
    <3>2. p[1] \in Role /\ p[1] # r
      BY <1>1, <1>3 DEF Posted, TypeOK
    <3> QED
      BY <1>1, <1>3, <3>1, <3>2 DEF Deliver, Posted, TypeOK
  <2>4. CASE vdb' = vdb /\ posts' = posts
    BY <1>3, <2>4 DEF Posted
  <2> QED
    BY <2>1, <2>2, <2>3, <2>4 DEF Next, vars, CommitRole, CreateRoleFails, RemoveRole, AskActor,
       InsertActor, AskUpdate, EmitUnpublish, Refuse, Write, UpdateFails, AskHost, InsertHost,
       CreateMember, Tick
<1> QED
  BY <1>2, <1>3 DEF PostedIsPublished

LEMMA StepPInv == PInv /\ [Next]_vars => PInv'
BY StepTInv, StepFew, StepAskedForRow, StepPublishedOnce, StepHostOfPublished, StepEmbedded
   DEF PInv, TInv

(* The inductive invariant behind the theorems about what has been published. *)
THEOREM Invariance == Spec => []PInv
<1> QED
  BY InitPInv, StepPInv, PTL DEF Spec

(* hosts.service.ts:35-44: however requests overlap, no host is *)
(* published of a role that has never been published.                               *)
THEOREM HostAfterRoleHolds == Spec => []HostAfterRole
<1>1. PInv => HostAfterRole
  BY DEF PInv, HostOfPublished, HostAfterRole
<1> QED
  BY <1>1, Invariance, PTL

(* role-published.listener.ts:22-50, roles.service.ts:24-73: between requests the VDB has a *)
(* role that was never published only if a publication of that very role failed after its   *)
(* post, although every post leaves before the transaction that publishes commits.          *)
THEOREM EmbeddedWasPublishedHolds == Spec => []EmbeddedWasPublished
<1>1. PInv => EmbeddedWasPublished
  <2> SUFFICES ASSUME PInv, UnderWay = 0, NEW r \in Role, vdb[r] # 0
               PROVE  since[r] # Never \/ r \in failed
    BY DEF EmbeddedWasPublished, Settled
  <2>1. Asking = {} /\ Creating = {}
    BY NothingUnderWay DEF PInv
  <2>2. ~Publishes(r) /\ ~BeginsPublished(r)
    BY <2>1 DEF Asking, Creating, Publishes, BeginsPublished
  <2> QED
    BY <2>2 DEF PInv, PostedIsPublished
<1> QED
  BY <1>1, Invariance, PTL

-----------------------------------------------------------------------------
(***************************************************************************)
(* One request after the other.  While none overlaps, at most one update   *)
(* or insert is under way, so what it has checked still holds when it acts: *)
(* an update past the listeners that unpublishes has no published host,    *)
(* and a host about to be published has a published role.                  *)
(***************************************************************************)
OneAtATime ==
    /\ \A p, q \in Asking : p = q
    /\ \A g, h \in Inserting : g = h
    /\ Asking = {} \/ Inserting = {}

ChecksHold ==
    /\ \A q \in Asking : req[q].pc = "write" /\ req[q].publish # "yes" =>
          \/ ~PublishedHost(req[q].role)
          \/ req[q].publish = "keep"
    /\ \A h \in Host : host[h] = "publishing" => role[RoleOf[h]].published

Serial == OneAtATime /\ ChecksHold /\ PublishedHostHasPublishedRole

SInv == PInv /\ (~overlapped => Serial)

LEMMA InitSInv == Init => SInv
<1> SUFFICES ASSUME Init PROVE SInv
  OBVIOUS
<1>1. Asking = {} /\ Inserting = {} /\ \A h \in Host : host[h] = "absent"
  BY DEF Init, Asking, Inserting
<1>2. Serial
  BY <1>1 DEF Serial, OneAtATime, ChecksHold, PublishedHostHasPublishedRole
<1> QED
  BY <1>2, InitPInv DEF SInv

\* A request that overlaps with none begins when nothing is under way.
LEMMA BeginsAlone ==
  ASSUME SInv, Begin, ~overlapped'
  PROVE  /\ Asking = {} /\ Inserting = {}
         /\ Serial
<1>1. overlapped' = (overlapped \/ UnderWay > 0)
  BY DEF Begin
<1>2. ~overlapped /\ ~(UnderWay > 0)
  BY <1>1
<1>3. UnderWay = 0
  BY <1>2, NothingUnderWay DEF SInv, PInv
<1> QED
  BY <1>2, <1>3, NothingUnderWay DEF SInv, PInv

LEMMA SerialKept ==
  ASSUME Serial, UNCHANGED <<role, host, req>>
  PROVE  Serial'
BY DEF Serial, OneAtATime, ChecksHold, PublishedHostHasPublishedRole, Asking, Inserting,
       PublishedHost

LEMMA StepSerial ==
  ASSUME SInv, [Next]_vars, ~overlapped'
  PROVE  Serial'
<1> USE PublishingAssumption
<1>0. TypeOK /\ (~overlapped => Serial)
  BY DEF SInv, PInv, TInv
<1>1. ASSUME NEW r \in Role, NEW publish \in BOOLEAN, CreateRole(r, publish) PROVE Serial'
  <2>1. Asking = {} /\ Inserting = {} /\ Serial /\ host' = host /\ req' = req
    BY <1>1, BeginsAlone DEF CreateRole
  <2>2. Asking' = {} /\ Inserting' = {}
    BY <2>1 DEF Asking, Inserting
  <2>3. ASSUME NEW h \in Host, host[h] = "published" PROVE role'[RoleOf[h]].published
    <3>1. role[RoleOf[h]].published
      BY <2>1, <2>3 DEF Serial, PublishedHostHasPublishedRole
    <3>2. RoleOf[h] # r
      BY <1>0, <1>1, <3>1, Created DEF SInv, PInv, PublishedOnce
    <3> QED
      BY <1>0, <1>1, <3>1, <3>2, Created
  <2> QED
    BY <2>1, <2>2, <2>3 DEF Serial, OneAtATime, ChecksHold, PublishedHostHasPublishedRole, Inserting
<1>2. ASSUME NEW r \in Role, Move(r) PROVE Serial'
  <2>1. Serial
    BY <1>0, <1>2, BeginsAlone DEF Move, CommitRole, CreateRoleFails, RemoveRole
  <2>2. host' = host /\ req' = req /\ \A s \in Role : role'[s].published = role[s].published
    BY <1>0, <1>2, Moves
  <2> QED
    BY <2>1, <2>2 DEF Serial, OneAtATime, ChecksHold, PublishedHostHasPublishedRole,
       PublishedHost, Asking, Inserting
<1>3. ASSUME NEW q \in Request, NEW r \in Role, NEW publish \in Choices, NEW text \in 0..MaxText,
             AskUpdate(q, r, publish, text)
      PROVE  Serial'
  <2>1. Asking = {} /\ Inserting = {} /\ Serial /\ host' = host /\ role' = role
    BY <1>3, BeginsAlone DEF AskUpdate
  <2>2. /\ req'[q].pc = (IF Differs(r, publish) THEN "emit" ELSE "write")
        /\ req'[q].role = r /\ req'[q].publish = publish
        /\ \A p \in Request \ {q} : req'[p] = req[p]
    BY <1>0, <1>3 DEF AskUpdate, TypeOK
  <2>3. Asking' \subseteq {q} /\ Inserting' = {}
    BY <2>1, <2>2 DEF Asking, Inserting
  <2>4. ASSUME req'[q].pc = "write", publish # "yes" PROVE ~PublishedHost(r)' \/ publish = "keep"
    <3>1. role[r].published \in BOOLEAN /\ ~Differs(r, publish)
      BY <1>0, <2>2, <2>4 DEF TypeOK
    <3>2. ~role[r].published
      BY <2>4, <3>1 DEF Differs
    <3> QED
      BY <2>1, <3>2 DEF Serial, PublishedHostHasPublishedRole, PublishedHost
  <2>5. ChecksHold'
    BY <2>1, <2>2, <2>3, <2>4 DEF ChecksHold, Serial
  <2> QED
    BY <2>1, <2>3, <2>5 DEF Serial, OneAtATime, PublishedHostHasPublishedRole
<1>4. ASSUME NEW q \in Request, EmitPublish(q) \/ EmitUnpublish(q) PROVE Serial'
  <2>1. Emitting(q) /\ req' = [req EXCEPT ![q].pc = "write"] /\ UNCHANGED <<role, host, overlapped>>
    BY <1>4 DEF EmitPublish, EmitUnpublish
  <2>2. Serial /\ q \in Asking /\ Asking = {q} /\ Inserting = {}
    BY <1>0, <2>1 DEF Serial, OneAtATime, Asking, Emitting
  <2>3. Asking' \subseteq {q} /\ Inserting' = {}
    BY <1>0, <2>1, <2>2, Emitted DEF Asking, Inserting
  <2>4. req'[q].publish = req[q].publish /\ req'[q].role = req[q].role
    BY <1>0, <2>1, Emitted
  <2>5. req[q].publish = "yes" \/ ~PublishedHost(req[q].role)
    BY <1>4 DEF EmitPublish, EmitUnpublish
  <2>6. (req[q].publish = "yes" \/ ~PublishedHost(req[q].role))'
    BY <2>1, <2>4, <2>5 DEF PublishedHost
  <2>7. \A h \in Host : host'[h] # "publishing"
    BY <2>1, <2>2 DEF Inserting
  <2>8. ChecksHold'
    BY <2>3, <2>6, <2>7 DEF ChecksHold, Asking
  <2> QED
    BY <2>1, <2>2, <2>3, <2>8 DEF Serial, OneAtATime, PublishedHostHasPublishedRole
<1>5. ASSUME NEW q \in Request, Refuse(q) \/ UpdateFails(q) PROVE Serial'
  <2>1. Serial /\ UNCHANGED <<role, host>>
    BY <1>0, <1>5 DEF Refuse, UpdateFails
  <2>2. \A p \in Request \ {q} : req'[p] = req[p]
    BY <1>0, <1>5 DEF Refuse, UpdateFails, TypeOK
  <2>3. req'[q] = Idle
    BY <1>0, <1>5 DEF Refuse, UpdateFails, TypeOK
  <2>4. Asking' \subseteq Asking /\ Inserting' = Inserting /\ \A p \in Asking' : req'[p] = req[p]
    BY <2>1, <2>2, <2>3 DEF Asking, Inserting
  <2>5. ChecksHold'
    BY <2>1, <2>4 DEF Serial, ChecksHold, PublishedHost
  <2> QED
    BY <2>1, <2>4, <2>5 DEF Serial, OneAtATime, PublishedHostHasPublishedRole
<1>6. ASSUME NEW q \in Request, Write(q) PROVE Serial'
  <2> DEFINE r == req[q].role
  <2>1. Serial /\ host' = host /\ q \in Asking
    BY <1>0, <1>6 DEF Write, Asking
  <2>2. Inserting = {} /\ Asking = {q}
    BY <2>1 DEF Serial, OneAtATime
  <2>3. Asking' = {} /\ Inserting' = {}
    BY <1>0, <1>6, <2>1, <2>2, Written DEF Asking, Inserting, TypeOK
  <2>4. ASSUME NEW h \in Host, host[h] = "published" PROVE role'[RoleOf[h]].published
    <3>1. role[RoleOf[h]].published
      BY <2>1, <2>4 DEF Serial, PublishedHostHasPublishedRole
    <3>2. CASE RoleOf[h] # r
      BY <1>0, <1>6, <3>1, <3>2, Written
    <3>3. CASE RoleOf[h] = r
      <4>1. PublishedHost(r) /\ req[q].pc = "write"
        BY <1>6, <2>4, <3>3 DEF PublishedHost, Write
      <4>2. req[q].publish \in {"yes", "keep"}
        BY <2>1, <4>1 DEF Serial, ChecksHold
      <4>3. Given(role[r].published, req[q].publish)
        BY <3>1, <3>3, <4>2 DEF Given
      <4> QED
        BY <1>0, <1>6, <3>3, <4>3, Written
    <3> QED
      BY <3>2, <3>3
  <2> QED
    BY <2>1, <2>3, <2>4 DEF Serial, OneAtATime, ChecksHold, PublishedHostHasPublishedRole, Inserting
<1>7. ASSUME NEW h \in Host, NEW publish \in BOOLEAN, AskHost(h, publish) PROVE Serial'
  <2>1. Asking = {} /\ Inserting = {} /\ Serial /\ req' = req /\ role' = role
    BY <1>7, BeginsAlone DEF AskHost
  <2>2. /\ host'[h] = (IF publish THEN "publishing" ELSE "drafting")
        /\ publish => role[RoleOf[h]].published
        /\ \A g \in Host \ {h} : host'[g] = host[g]
    BY <1>0, <1>7 DEF AskHost, TypeOK
  <2>3. Asking' = {} /\ Inserting' \subseteq {h}
    BY <2>1, <2>2 DEF Asking, Inserting
  <2> QED
    BY <2>1, <2>2, <2>3 DEF Serial, OneAtATime, ChecksHold, PublishedHostHasPublishedRole
<1>8. ASSUME NEW h \in Host, InsertHost(h) PROVE Serial'
  <2>1. Serial /\ req' = req /\ role' = role /\ h \in Inserting
    BY <1>0, <1>8 DEF InsertHost, Inserting
  <2>2. /\ host'[h] = (IF host[h] = "publishing" THEN "published" ELSE "draft")
        /\ \A g \in Host \ {h} : host'[g] = host[g]
    BY <1>0, <1>8 DEF InsertHost, TypeOK
  <2>3. Asking' = {} /\ Asking = {} /\ Inserting' \subseteq Inserting
    BY <2>1, <2>2 DEF Serial, OneAtATime, Asking, Inserting
  <2> QED
    BY <2>1, <2>2, <2>3 DEF Serial, OneAtATime, ChecksHold, PublishedHostHasPublishedRole
<1>9. ASSUME NEW h \in Host, CreateMember(h) PROVE Serial'
  BY <1>9, BeginsAlone, SerialKept DEF CreateMember
<1>10. ASSUME NEW r \in Role, AskActor(r) PROVE Serial'
  BY <1>10, BeginsAlone, SerialKept DEF AskActor
<1>11. ASSUME NEW r \in Role, InsertActor(r) PROVE Serial'
  BY <1>0, <1>11, SerialKept DEF InsertActor
<1>12. ASSUME NEW p \in posts, Deliver(p) PROVE Serial'
  BY <1>0, <1>12, SerialKept DEF Deliver
<1>13. CASE Tick \/ UNCHANGED vars
  BY <1>0, <1>13, SerialKept DEF Tick, vars
<1> QED
  BY <1>1, <1>2, <1>3, <1>4, <1>5, <1>6, <1>7, <1>8, <1>9, <1>10, <1>11, <1>12, <1>13, Zenon
     DEF Next, Move

LEMMA StepSInv == SInv /\ [Next]_vars => SInv'
BY StepPInv, StepSerial DEF SInv

(* role-unpublished.listener.ts:19, hosts.service.ts: as long as no request begins while  *)
(* another is under way, a published host has a published role.                           *)
THEOREM SerialPublishingHolds == Spec => []SerialPublishing
<1>1. SInv => SerialPublishing
  BY DEF SInv, Serial, SerialPublishing
<1> QED
  BY <1>1, InitSInv, StepSInv, PTL DEF Spec
=============================================================================

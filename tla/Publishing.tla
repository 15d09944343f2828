------------------------------ MODULE Publishing ------------------------------
(***************************************************************************)
(* Publishing roles and hosts (src/src/roles/roles.service.ts,             *)
(* src/src/hosts/hosts.service.ts and the two listeners of                 *)
(* RolePublishingEvent), and the actors made of them.                      *)
(*                                                                         *)
(* An update of a role reads the row, checks it, has the listeners of the  *)
(* event agree or write to the vector database (VDB), and then updates the *)
(* row, all in one transaction, which may fail at any of these steps; the  *)
(* post to the VDB is not part of it.  A host is inserted after its role   *)
(* was read by the validation of the request.  Transactions run side by    *)
(* side, at the database's default isolation (read committed), so a row or *)
(* a query result may be out of date when it is acted upon.                *)
(***************************************************************************)
EXTENDS Integers, FiniteSets

CONSTANTS
    Role, Host,     \* ids that may be created
    RoleOf,         \* host.roleId
    Request,        \* PATCH /roles/:id requests under way at once
    MaxInFlight,    \* bound on all requests under way at once
    Window,         \* 36 hours
    MaxText,        \* bound on the versions of a role's text
    MaxClock        \* bound on the time that passes

ASSUME PublishingAssumption ==
    /\ RoleOf \in [Host -> Role]
    /\ MaxInFlight \in Nat \ {0} /\ Window \in Nat \ {0}
    /\ MaxText \in Nat \ {0} /\ MaxClock \in Nat

VARIABLES
    clock,
    role,       \* the roles table; text 0 is none, at is updatedAt; a row is "creating"
                \* until its transaction ends, "gone" if it was rolled back
    host,       \* the hosts table, and the inserts under way (drafting, publishing)
    req,        \* the update requests
    posts,      \* embeddings on their way to the VDB: <<role, text>>
    vdb,        \* the text the VDB has of a role
    arriving,   \* roles a POST /actors was validated against
    inhabited,  \* roles that have actors
    since,      \* history: when a role was published last; Never if it was not
    failed,     \* history: roles a publication of which failed after their post
    overlapped  \* history: a request began while another was under way

vars == <<clock, role, host, req, posts, vdb, arriving, inhabited, since, failed, overlapped>>

Never == -1
Choices == {"keep", "yes", "no"}    \* `published` of an update; "keep" is undefined
Rows == {"absent", "creating", "live", "deleted", "gone"}
Update == [pc : {"emit", "write"}, role : Role, publish : Choices, text : 0..MaxText]
Idle == [pc |-> "idle"]

TypeOK ==
    /\ clock \in 0..MaxClock
    /\ role \in [Role -> [row : Rows, published : BOOLEAN,
                          text : 0..MaxText, at : 0..MaxClock]]
    /\ host \in [Host -> {"absent", "drafting", "publishing", "draft", "published"}]
    /\ req \in [Request -> Update \cup {Idle}]
    /\ posts \subseteq Role \X (1..MaxText)
    /\ vdb \in [Role -> 0..MaxText]
    /\ arriving \subseteq Role /\ inhabited \subseteq Role
    /\ since \in [Role -> {Never} \cup 0..MaxClock]
    /\ failed \subseteq Role
    /\ overlapped \in BOOLEAN

Init ==
    /\ clock = 0
    /\ role = [r \in Role |-> [row |-> "absent", published |-> FALSE, text |-> 0, at |-> 0]]
    /\ host = [h \in Host |-> "absent"]
    /\ req = [q \in Request |-> Idle]
    /\ posts = {}
    /\ vdb = [r \in Role |-> 0]
    /\ arriving = {} /\ inhabited = {}
    /\ since = [r \in Role |-> Never]
    /\ failed = {}
    /\ overlapped = FALSE

-----------------------------------------------------------------------------
Live(r) == role[r].row = "live"

UnderWay == Cardinality({r \in Role : role[r].row = "creating"})
              + Cardinality({q \in Request : req[q] # Idle})
              + Cardinality({h \in Host : host[h] \in {"drafting", "publishing"}})
              + Cardinality(arriving)

\* A request begins; requests of a single step count as well.
Begin ==
    /\ UnderWay < MaxInFlight
    /\ overlapped' = (overlapped \/ UnderWay > 0)

\* RolePublishingListener posts the role as its transaction sees it, without waiting.
Embed(r) == posts' = posts \cup {<<r, role[r].text>>}

\* Faulty variants: the event is emitted before the row is inserted; for drafts, too.
CreateRoleAlwaysEmbeds(r, publish) ==
    /\ Begin
    /\ role[r].row = "absent"
    /\ role' = [role EXCEPT ![r] =
                  [row |-> "creating", published |-> publish, text |-> 1, at |-> clock]]
    /\ posts' = posts \cup {<<r, 1>>}
    /\ UNCHANGED <<clock, host, req, vdb, arriving, inhabited, since, failed>>

CreateRoleEmbedsFirst(r, publish) ==
    /\ Begin
    /\ role[r].row = "absent"
    /\ role' = [role EXCEPT ![r] =
                  [row |-> "creating", published |-> publish, text |-> 1, at |-> clock]]
    /\ IF publish THEN Embed(r) ELSE UNCHANGED posts
    /\ UNCHANGED <<clock, host, req, vdb, arriving, inhabited, since, failed>>

\* The insert and the event; nobody else sees the row before the commit.
CreateRole(r, publish) ==
    /\ Begin
    /\ role[r].row = "absent"
    /\ role' = [role EXCEPT ![r] =
                  [row |-> "creating", published |-> publish, text |-> 1, at |-> clock]]
    /\ posts' = IF publish THEN posts \cup {<<r, 1>>} ELSE posts
    /\ UNCHANGED <<clock, host, req, vdb, arriving, inhabited, since, failed>>

CommitRole(r) ==
    /\ role[r].row = "creating"
    /\ role' = [role EXCEPT ![r].row = "live"]
    /\ since' = IF role[r].published THEN [since EXCEPT ![r] = clock] ELSE since
    /\ UNCHANGED <<clock, host, req, posts, vdb, arriving, inhabited, failed, overlapped>>

\* The transaction timed out or the database refused it.  The post is out.
CreateRoleFails(r) ==
    /\ role[r].row = "creating"
    /\ role' = [role EXCEPT ![r].row = "gone"]
    /\ failed' = IF role[r].published THEN failed \cup {r} ELSE failed
    /\ UNCHANGED <<clock, host, req, posts, vdb, arriving, inhabited, since, overlapped>>

Frozen(r) == role[r].published /\ clock - role[r].at >= Window

\* role.published != updateRoleDto.published: undefined is neither true nor false.
Differs(r, publish) == publish # IF role[r].published THEN "yes" ELSE "no"

AskUpdate(q, r, publish, text) ==
    /\ req[q] = Idle
    /\ Begin
    /\ Live(r) /\ ~Frozen(r)
    /\ req' = [req EXCEPT ![q] = [pc |-> IF Differs(r, publish) THEN "emit" ELSE "write",
                                  role |-> r, publish |-> publish, text |-> text]]
    /\ UNCHANGED <<clock, role, host, posts, vdb, arriving, inhabited, since, failed>>

Emitting(q) == req[q] # Idle /\ req[q].pc = "emit"

EmitPublish(q) ==
    /\ Emitting(q) /\ req[q].publish = "yes"
    /\ IF Live(req[q].role) THEN Embed(req[q].role) ELSE UNCHANGED posts
    /\ req' = [req EXCEPT ![q].pc = "write"]
    /\ UNCHANGED <<clock, role, host, vdb, arriving, inhabited, since, failed, overlapped>>

\* Faulty variant: the query asks for hosts that are not published.
DraftHost(r) == \E h \in Host : RoleOf[h] = r /\ host[h] = "draft"

\* findNewestByRoleId(roleId, true)
PublishedHost(r) == \E h \in Host : RoleOf[h] = r /\ host[h] = "published"

\* RoleUnpublishedListener, for every event that does not publish.
EmitUnpublish(q) ==
    /\ Emitting(q) /\ req[q].publish # "yes"
    /\ ~PublishedHost(req[q].role)
    /\ req' = [req EXCEPT ![q].pc = "write"]
    /\ UNCHANGED <<clock, role, host, posts, vdb, arriving, inhabited, since, failed, overlapped>>

Refuse(q) ==
    /\ Emitting(q) /\ req[q].publish # "yes"
    /\ PublishedHost(req[q].role)
    /\ req' = [req EXCEPT ![q] = Idle]
    /\ UNCHANGED <<clock, role, host, posts, vdb, arriving, inhabited, since, failed, overlapped>>

\* An update leaves a field alone that was not given.
Given(old, publish) == IF publish = "keep" THEN old ELSE publish = "yes"

\* prisma.role.update, by the id alone: rows deleted meanwhile are updated as well.
\* The transaction commits.
Write(q) ==
    /\ req[q] # Idle /\ req[q].pc = "write"
    /\ LET r == req[q].role
           published == Given(role[r].published, req[q].publish)
       IN  /\ role' = [role EXCEPT ![r].published = published,
                                   ![r].text = IF req[q].text = 0 THEN @ ELSE req[q].text,
                                   ![r].at = clock]
           /\ since' = IF published /\ ~role[r].published
                         THEN [since EXCEPT ![r] = clock] ELSE since
    /\ req' = [req EXCEPT ![q] = Idle]
    /\ UNCHANGED <<clock, host, posts, vdb, arriving, inhabited, failed, overlapped>>

\* A statement is refused (a text longer than its column) or the transaction times out:
\* the row stays as it was, a post that left is not called back.
UpdateFails(q) ==
    /\ req[q] # Idle
    /\ failed' = IF req[q].pc = "write" /\ req[q].publish = "yes"
                   THEN failed \cup {req[q].role} ELSE failed
    /\ req' = [req EXCEPT ![q] = Idle]
    /\ UNCHANGED <<clock, role, host, posts, vdb, arriving, inhabited, since, overlapped>>

RemoveRole(r) ==
    /\ Begin
    /\ Live(r)
    /\ role' = [role EXCEPT ![r].row = "deleted"]
    /\ UNCHANGED <<clock, host, req, posts, vdb, arriving, inhabited, since, failed>>

-----------------------------------------------------------------------------
\* Faulty variant: the role is not asked whether it is published.
AskHostAnyway(h, publish) ==
    /\ host[h] = "absent"
    /\ Begin
    /\ Live(RoleOf[h])
    /\ host' = [host EXCEPT ![h] = IF publish THEN "publishing" ELSE "drafting"]
    /\ UNCHANGED <<clock, role, req, posts, vdb, arriving, inhabited, since, failed>>

\* POST /hosts: the role is read and checked when the request is validated.
AskHost(h, publish) ==
    /\ host[h] = "absent"
    /\ Begin
    /\ Live(RoleOf[h])
    /\ publish => role[RoleOf[h]].published
    /\ host' = [host EXCEPT ![h] = IF publish THEN "publishing" ELSE "drafting"]
    /\ UNCHANGED <<clock, role, req, posts, vdb, arriving, inhabited, since, failed>>

InsertHost(h) ==
    /\ host[h] \in {"drafting", "publishing"}
    /\ host' = [host EXCEPT ![h] = IF @ = "publishing" THEN "published" ELSE "draft"]
    /\ UNCHANGED <<clock, role, req, posts, vdb, arriving, inhabited, since, failed, overlapped>>

\* POST /actors, with the newest published host or none: roleId is validated ...
AskActor(r) ==
    /\ Begin
    /\ Live(r) /\ r \notin arriving
    /\ arriving' = arriving \cup {r}
    /\ UNCHANGED <<clock, role, host, req, posts, vdb, inhabited, since, failed>>

\* ... and the actor inserted.
InsertActor(r) ==
    /\ r \in arriving
    /\ arriving' = arriving \ {r}
    /\ inhabited' = inhabited \cup {r}
    /\ UNCHANGED <<clock, role, host, req, posts, vdb, since, failed, overlapped>>

\* createMember: roleId and hostId come from the members of the team's host; the
\* foreign key asks for a row of the host only.
CreateMember(h) ==
    /\ Begin
    /\ host[h] \in {"draft", "published"}
    /\ inhabited' = inhabited \cup {RoleOf[h]}
    /\ UNCHANGED <<clock, role, host, req, posts, vdb, arriving, since, failed>>

\* The VDB takes the posts in any order; an error is logged.
Deliver(p) ==
    /\ posts' = posts \ {p}
    /\ \/ vdb' = [vdb EXCEPT ![p[1]] = p[2]]
       \/ UNCHANGED vdb
    /\ UNCHANGED <<clock, role, host, req, arriving, inhabited, since, failed, overlapped>>

\* Hours pass between requests, not during them.
Tick ==
    /\ clock < MaxClock
    /\ UnderWay = 0
    /\ clock' = clock + 1
    /\ UNCHANGED <<role, host, req, posts, vdb, arriving, inhabited, since, failed, overlapped>>

Next ==
    \/ \E r \in Role :
          \/ \E publish \in BOOLEAN : CreateRole(r, publish)
          \/ CommitRole(r) \/ CreateRoleFails(r)
          \/ RemoveRole(r) \/ AskActor(r) \/ InsertActor(r)
    \/ \E q \in Request :
          \/ \E r \in Role, publish \in Choices, text \in 0..MaxText :
                AskUpdate(q, r, publish, text)
          \/ EmitPublish(q) \/ EmitUnpublish(q) \/ Refuse(q) \/ Write(q) \/ UpdateFails(q)
    \/ \E h \in Host :
          \/ \E publish \in BOOLEAN : AskHost(h, publish)
          \/ InsertHost(h) \/ CreateMember(h)
    \/ \E p \in posts : Deliver(p)
    \/ Tick

Spec == Init /\ [][Next]_vars

-----------------------------------------------------------------------------
(***************************************************************************)
(* Properties                                                              *)
(***************************************************************************)

\* "host must be published after role": no request, however it overlaps with others,
\* publishes a host of a role that has never been published.
HostAfterRole == \A h \in Host : host[h] = "published" => since[RoleOf[h]] # Never

\* "Cannot unpublish the role with published hosts" (role-unpublished.listener.ts:19).
PublishedHostHasPublishedRole ==
    \A h \in Host : host[h] = "published" => role[RoleOf[h]].published

\* ... holds as long as no request begins while another is under way: the check of
\* the hosts and the check of the role read what the other request has not written.
SerialPublishing == ~overlapped => PublishedHostHasPublishedRole

Settled == UnderWay = 0 /\ posts = {}

\* The VDB has no role that was never published, although a role is posted before the
\* insert or the update that publishes it commits: a draft gets there only with a
\* publication of its own that failed after the post.
EmbeddedWasPublished ==
    Settled => \A r \in Role : vdb[r] # 0 => since[r] # Never \/ r \in failed

\* Two things the code says of itself that do not hold, README 6.
\* "generate/remove vdb embedding for publishing role" (role-published.listener.ts:10):
\* nothing removes what a failed publication, an unpublished or a deleted role left.
EmbeddedIsPublished ==
    Settled => \A r \in Role : vdb[r] # 0 => Live(r) /\ role[r].published

\* "no new actor for the deleted role" (schema.prisma:86): members are created without a
\* look at their role.
NoActorOfDeletedRole == [][\A r \in inhabited' \ inhabited : Live(r)]_vars
=============================================================================

---------------------------- MODULE Memberships ----------------------------
(***************************************************************************)
(* Organizations, their members and their invitations:                     *)
(* api/routes/organizations.py behind get_tenant_context and require_roles *)
(* of api/dependencies.py.  An invitation credential is signed for one     *)
(* invitation and one email; an email is the user who has it.  Nothing in  *)
(* the code suspends or removes a member.  Each request reads first and    *)
(* commits later, with no lock on what it has read.                        *)
(***************************************************************************)
EXTENDS Integers

CONSTANTS
  Orgs, Users, InvitationIds,   \* keys the database can assign
  Roles,                        \* the roles below "owner"; "admin" may invite
  Handlers,                     \* requests in flight at once
  None

ASSUME RolesAssumption == "admin" \in Roles /\ "owner" \notin Roles

Invitation == [org : Orgs, user : Users, role : Roles,
               by : Users, expired : BOOLEAN, accepted : BOOLEAN]

ASSUME NoneAssumption ==
  /\ None \notin Roles \cup {"owner"} /\ None \notin Users
  /\ None \notin InvitationIds /\ None \notin Invitation

VARIABLES
  creator,       \* creator[o]: who created the organization, or None
  role,          \* role[o][u]: the role of the membership row, or None
  invitations,   \* InvitationIds -> row, or None
  joined,        \* joined[i]: organization.member_joined events of invitation i
  pc, req,       \* per handler: the step, and the request
  found,         \* found[h]: the role of the membership h has read, or None
  rivals         \* history, per invitation: the requests that had found it
                 \* available before its first acceptance and have not ended since

rows == <<creator, role, invitations, joined>>
vars == <<rows, pc, req, found, rivals>>

Request == [op : {"invite"}, org : Orgs, user : Users, role : Roles \cup {"owner"}, by : Users]
             \cup [op : {"accept"}, id : InvitationIds, by : Users]

Init ==
  /\ creator = [o \in Orgs |-> None]
  /\ role = [o \in Orgs |-> [u \in Users |-> None]]
  /\ invitations = [i \in InvitationIds |-> None]
  /\ joined = [i \in InvitationIds |-> 0]
  /\ pc = [h \in Handlers |-> "idle"]
  /\ req = [h \in Handlers |-> None]
  /\ found = [h \in Handlers |-> None]
  /\ rivals = [i \in InvitationIds |-> {}]

\* The requests that have found the invitation i available and not ended.
Accepting(i) == {h \in Handlers : pc[h] \in {"member", "accept"} /\ req[h].id = i}

End(h) ==
  /\ pc' = [pc EXCEPT ![h] = "idle"]
  /\ req' = [req EXCEPT ![h] = None]
  /\ found' = [found EXCEPT ![h] = None]
  /\ rivals' = [i \in InvitationIds |->
                  (IF joined[i] = 0 /\ joined'[i] > 0 THEN Accepting(i) ELSE rivals[i]) \ {h}]
-----------------------------------------------------------------------------
\* create_organization: the organization and the membership of its owner.
CreateOrganization(o, u) ==
  /\ creator[o] = None
  /\ creator' = [creator EXCEPT ![o] = u]
  /\ role' = [role EXCEPT ![o][u] = "owner"]
  /\ UNCHANGED <<invitations, joined, pc, req, found, rivals>>

\* get_tenant_context and require_roles(OWNER, ADMIN), then the rule that an
\* invitation never grants ownership (400).
MayBeInvitedAs(r) == r # "owner"

AuthorizeInvite(h) ==
  /\ pc[h] = "idle"
  /\ \E r \in Request :
       /\ r.op = "invite"
       /\ role[r.org][r.by] \in {"owner", "admin"}
       /\ MayBeInvitedAs(r.role)
       /\ req' = [req EXCEPT ![h] = r]
  /\ pc' = [pc EXCEPT ![h] = "invite"]
  /\ UNCHANGED <<rows, found, rivals>>

\* The invitation, its outbox event and its audit entry.
CommitInvite(h) ==
  /\ pc[h] = "invite"
  /\ \E i \in InvitationIds :
       /\ invitations[i] = None
       /\ invitations' = [invitations EXCEPT ![i] =
            [org |-> req[h].org, user |-> req[h].user, role |-> req[h].role,
             by |-> req[h].by, expired |-> FALSE, accepted |-> FALSE]]
  /\ UNCHANGED <<creator, role, joined>>
  /\ End(h)

\* The row must exist, not be accepted, not be expired, and be for the caller.
AvailableTwice(i, u) ==
  invitations[i] # None /\ ~invitations[i].expired /\ invitations[i].user = u
AvailableToAll(i, u) ==
  invitations[i] # None /\ ~invitations[i].expired /\ ~invitations[i].accepted
Available(i, u) ==
  /\ invitations[i] # None /\ ~invitations[i].accepted /\ ~invitations[i].expired
  /\ invitations[i].user = u

ReadInvitation(h) ==
  /\ pc[h] = "idle"
  /\ \E r \in Request :
       /\ r.op = "accept"
       /\ Available(r.id, r.by)
       /\ req' = [req EXCEPT ![h] = r]
  /\ pc' = [pc EXCEPT ![h] = "member"]
  /\ UNCHANGED <<rows, found, rivals>>

\* The SELECT on memberships.
ReadMembership(h) ==
  /\ pc[h] = "member"
  /\ found' = [found EXCEPT ![h] = role[invitations[req[h].id].org][req[h].by]]
  /\ pc' = [pc EXCEPT ![h] = "accept"]
  /\ UNCHANGED <<rows, req, rivals>>

\* The unique index on (organization, user): of two first memberships the
\* second fails, uncaught, and takes the acceptance back (500).
MembershipConflict(h) ==
  found[h] = None /\ role[invitations[req[h].id].org][req[h].by] # None

\* The UPDATE writes the role only if it differs from the one that was read.
NewRole(h, current) ==
  IF found[h] = invitations[req[h].id].role THEN current ELSE invitations[req[h].id].role

LeftUnused(row) == row
Used(row) == [row EXCEPT !.accepted = TRUE]

\* Membership, accepted_at and the outbox event.
CommitAccept(h) ==
  /\ pc[h] = "accept"
  /\ ~MembershipConflict(h)
  /\ LET i == req[h].id IN
       /\ role' = [role EXCEPT ![invitations[i].org][req[h].by] = NewRole(h, @)]
       /\ invitations' = [invitations EXCEPT ![i] = Used(@)]
       /\ joined' = [joined EXCEPT ![i] = @ + 1]
  /\ End(h)
  /\ UNCHANGED creator

FailAccept(h) ==
  /\ pc[h] = "accept"
  /\ MembershipConflict(h)
  /\ UNCHANGED rows
  /\ End(h)

\* Seven days have passed.
ExpireInvitation(i) ==
  /\ invitations[i] # None /\ ~invitations[i].expired
  /\ invitations' = [invitations EXCEPT ![i].expired = TRUE]
  /\ UNCHANGED <<creator, role, joined, pc, req, found, rivals>>

\* The connection, the process or the client goes away before the commit.
Abort(h) ==
  /\ pc[h] # "idle"
  /\ UNCHANGED rows
  /\ End(h)

Next ==
  \/ \E o \in Orgs, u \in Users : CreateOrganization(o, u)
  \/ \E i \in InvitationIds : ExpireInvitation(i)
  \/ \E h \in Handlers :
       \/ AuthorizeInvite(h) \/ CommitInvite(h)
       \/ ReadInvitation(h) \/ ReadMembership(h) \/ CommitAccept(h) \/ FailAccept(h)
       \/ Abort(h)

Spec == Init /\ [][Next]_vars
-----------------------------------------------------------------------------
Rows == {i \in InvitationIds : invitations[i] # None}

\* Type invariant.
TypeOK ==
  /\ creator \in [Orgs -> Users \cup {None}]
  /\ role \in [Orgs -> [Users -> Roles \cup {"owner", None}]]
  /\ invitations \in [InvitationIds -> Invitation \cup {None}]
  /\ joined \in [InvitationIds -> Nat]
  /\ pc \in [Handlers -> {"idle", "invite", "member", "accept"}]
  /\ req \in [Handlers -> Request \cup {None}]
  /\ found \in [Handlers -> Roles \cup {"owner", None}]
  /\ rivals \in [InvitationIds -> SUBSET Handlers]

\* Whoever is in an organization got his role from creating it or from an
\* invitation that was made out to him and is used up, however acceptances and
\* invitations overlap; so nobody but its creator ever owns it.
RolesAreGranted ==
  \A o \in Orgs, u \in Users : role[o][u] # None =>
    \/ role[o][u] = "owner" /\ creator[o] = u
    \/ /\ role[o][u] # "owner"
       /\ \E i \in Rows : /\ invitations[i].accepted
                          /\ invitations[i].org = o /\ invitations[i].user = u
                          /\ invitations[i].role = role[o][u]

\* An invitation is used up exactly when its acceptance was announced, and
\* then the invited user is a member.
AcceptedMeansJoined ==
  \A i \in InvitationIds :
    /\ joined[i] > 0 <=> i \in Rows /\ invitations[i].accepted
    /\ joined[i] > 0 => role[invitations[i].org][invitations[i].user] # None

\* api-workflows.md: the API verifies single use of an invitation.  It does so
\* but for overlap: whoever uses an invitation again had found it available
\* before its first acceptance, so no request that begins later uses it.
UsedByOverlappingOnly ==
  [][\A i \in InvitationIds : joined[i] > 0 /\ joined'[i] # joined[i] =>
       \E h \in rivals[i] : pc[h] = "accept" /\ req[h].id = i /\ pc'[h] = "idle"]_vars

\* api-workflows.md, as it is written: the API verifies single use before it
\* creates or reactivates a membership, so no invitation is ever accepted twice.
SingleUse == \A i \in InvitationIds : joined[i] <= 1
=============================================================================

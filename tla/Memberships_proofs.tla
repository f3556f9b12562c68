-------------------------- MODULE Memberships_proofs --------------------------
(* Theorems about Memberships, for any organizations, users and handlers. *)
EXTENDS Memberships, TLAPS

\* What a request under way has passed: an invitation grants no ownership; an
\* acceptance is of an invitation there is, by the user it is for, and the
\* membership it has read is still there.
Passed(h) ==
  /\ pc[h] = "invite" => /\ req[h] \in Request /\ req[h].op = "invite"
                         /\ req[h].role # "owner"
  /\ pc[h] \in {"member", "accept"} =>
       /\ req[h] \in Request /\ req[h].op = "accept"
       /\ invitations[req[h].id] # None
       /\ invitations[req[h].id].user = req[h].by
  /\ pc[h] = "accept" /\ found[h] # None =>
       role[invitations[req[h].id].org][req[h].by] # None

\* That holds of every request.
RequestInv == \A h \in Handlers : Passed(h)

\* Nobody begins to accept an invitation that is used up, so those who may
\* still use it again are left over from before.
UseInv ==
  \A i \in InvitationIds : joined[i] > 0 => Accepting(i) \subseteq rivals[i]

\* The inductive invariant.
IInv ==
  TypeOK /\ RequestInv /\ UseInv /\ RolesAreGranted /\ AcceptedMeansJoined

\* It holds before the first organization.
LEMMA InitIInv == Init => IInv
BY DEF Init, IInv, TypeOK, RequestInv, Passed, UseInv, RolesAreGranted, AcceptedMeansJoined,
       Rows

\* The two kinds of requests are told apart by op.
LEMMA Requests ==
  ASSUME NEW r \in Request
  PROVE  /\ r.op = "accept" => r.id \in InvitationIds /\ r.by \in Users
         /\ r.op = "invite" => /\ r.org \in Orgs /\ r.user \in Users /\ r.by \in Users
                               /\ r.role \in Roles \cup {"owner"}
         /\ r.op \in {"accept", "invite"}
BY DEF Request

\* An acceptance under way is of a row.
LEMMA AcceptedRow ==
  ASSUME TypeOK, RequestInv, NEW h \in Handlers, pc[h] \in {"member", "accept"}
  PROVE  /\ req[h] \in Request /\ req[h].id \in InvitationIds /\ req[h].by \in Users
         /\ invitations[req[h].id] \in Invitation
         /\ invitations[req[h].id].user = req[h].by
<1>1. req[h] \in Request /\ req[h].op = "accept" /\ invitations[req[h].id] # None
      /\ invitations[req[h].id].user = req[h].by
  BY DEF RequestInv, Passed
<1>2. req[h].id \in InvitationIds /\ req[h].by \in Users
  BY <1>1, Requests
<1>3. QED
  BY <1>1, <1>2 DEF TypeOK

\* Rows of invitations keep what they say; they are only used up or expire.
Kept ==
  \A i \in InvitationIds : invitations[i] # None =>
    /\ invitations'[i] # None
    /\ invitations'[i].org = invitations[i].org
    /\ invitations'[i].user = invitations[i].user
    /\ invitations'[i].role = invitations[i].role
    /\ invitations[i].accepted => invitations'[i].accepted

\* Memberships are never taken away.
Stays == \A o \in Orgs, u \in Users : role[o][u] # None => role'[o][u] # None

\* What the requests that a step leaves alone have passed stays passed.
LEMMA OthersKeep ==
  ASSUME TypeOK, RequestInv, Kept, Stays, NEW g \in Handlers,
         pc'[g] = pc[g], req'[g] = req[g], found'[g] = found[g]
  PROVE  Passed(g)'
<1>1. pc[g] \in {"member", "accept"} =>
        /\ req[g].id \in InvitationIds /\ req[g].by \in Users
        /\ invitations[req[g].id] \in Invitation
        /\ invitations[req[g].id] # None
        /\ invitations'[req[g].id] # None
        /\ invitations'[req[g].id].org = invitations[req[g].id].org
        /\ invitations'[req[g].id].user = invitations[req[g].id].user
  BY AcceptedRow, NoneAssumption DEF Kept
<1>2. pc[g] \in {"member", "accept"} => invitations[req[g].id].org \in Orgs
  BY <1>1 DEF Invitation
<1>3. QED
  BY <1>1, <1>2 DEF RequestInv, Passed, Stays

\* A step that announces no acceptance and lets nobody begin to accept an
\* invitation that is used up leaves only requests from before.
LEMMA UseKept ==
  ASSUME UseInv, UNCHANGED <<joined, rivals>>,
         \A i \in InvitationIds : joined[i] > 0 => Accepting(i)' \subseteq Accepting(i)
  PROVE  UseInv'
BY DEF UseInv

\* A step that touches no table keeps what is said about tables.
LEMMA TablesKept ==
  ASSUME RolesAreGranted, AcceptedMeansJoined, UNCHANGED rows
  PROVE  RolesAreGranted' /\ AcceptedMeansJoined'
BY DEF RolesAreGranted, AcceptedMeansJoined, rows, Rows

\* An organization begins with its owner.
LEMMA CreateStep ==
  ASSUME IInv, NEW o \in Orgs, NEW u \in Users, CreateOrganization(o, u)
  PROVE  IInv'
<1> USE DEF IInv
<1>1. TypeOK'
  BY DEF TypeOK, CreateOrganization
<1>2. Kept /\ Stays
  BY NoneAssumption DEF Kept, Stays, CreateOrganization, TypeOK
<1>3. RequestInv'
  <2>1. UNCHANGED <<pc, req, found>>
    BY DEF CreateOrganization
  <2>2. QED
    BY <1>2, <2>1, OthersKeep DEF RequestInv
<1>4. UseInv'
  BY UseKept DEF CreateOrganization, Accepting
<1>5. RolesAreGranted'
  <2> SUFFICES ASSUME NEW p \in Orgs, NEW v \in Users, role'[p][v] # None
               PROVE  \/ role'[p][v] = "owner" /\ creator'[p] = v
                      \/ /\ role'[p][v] # "owner"
                         /\ \E i \in Rows : /\ invitations[i].accepted
                                            /\ invitations[i].org = p
                                            /\ invitations[i].user = v
                                            /\ invitations[i].role = role'[p][v]
    BY DEF RolesAreGranted, CreateOrganization, Rows
  <2>1. CASE p = o /\ v = u
    BY <2>1 DEF CreateOrganization, TypeOK
  <2>2. CASE ~(p = o /\ v = u)
    <3>1. role'[p][v] = role[p][v]
      BY <2>2 DEF CreateOrganization, TypeOK
    <3>2. role[p][v] = "owner" => p # o
      BY <3>1, NoneAssumption DEF RolesAreGranted, CreateOrganization
    <3>3. p # o => creator'[p] = creator[p]
      BY DEF CreateOrganization, TypeOK
    <3>4. QED
      BY <3>1, <3>2, <3>3 DEF RolesAreGranted
  <2>3. QED
    BY <2>1, <2>2
<1>6. AcceptedMeansJoined'
  <2> SUFFICES ASSUME NEW i \in InvitationIds, joined[i] > 0
               PROVE  role'[invitations[i].org][invitations[i].user] # None
    BY DEF AcceptedMeansJoined, CreateOrganization, Rows
  <2>1. i \in Rows /\ invitations[i].org \in Orgs /\ invitations[i].user \in Users
    BY DEF AcceptedMeansJoined, Rows, TypeOK, Invitation
  <2>2. QED
    BY <1>2, <2>1 DEF AcceptedMeansJoined, Stays
<1>7. QED
  BY <1>1, <1>3, <1>4, <1>5, <1>6

\* The checks of an invitation, of an acceptance, and its read of the membership.
LEMMA ReadSteps ==
  ASSUME IInv, NEW h \in Handlers,
         AuthorizeInvite(h) \/ ReadInvitation(h) \/ ReadMembership(h)
  PROVE  IInv'
<1> USE DEF IInv
<1>0. UNCHANGED rows /\ UNCHANGED rivals
  BY DEF AuthorizeInvite, ReadInvitation, ReadMembership
<1>1. Kept /\ Stays
  BY <1>0, NoneAssumption DEF Kept, Stays, rows
<1>2. RolesAreGranted' /\ AcceptedMeansJoined'
  BY <1>0, TablesKept
<1>3. CASE AuthorizeInvite(h)
  <2>1. PICK r \in Request :
          /\ r.op = "invite" /\ r.role # "owner"
          /\ req' = [req EXCEPT ![h] = r] /\ pc' = [pc EXCEPT ![h] = "invite"]
          /\ found' = found
    BY <1>3 DEF AuthorizeInvite, MayBeInvitedAs
  <2>2. TypeOK'
    BY <1>0, <2>1 DEF TypeOK, rows
  <2>3. RequestInv'
    <3>1. \A g \in Handlers \ {h} :
            pc'[g] = pc[g] /\ req'[g] = req[g] /\ found'[g] = found[g]
      BY <2>1 DEF TypeOK
    <3>2. pc'[h] = "invite" /\ req'[h] = r
      BY <2>1 DEF TypeOK
    <3>3. Passed(h)'
      BY <2>1, <3>2 DEF Passed
    <3>4. QED
      BY <1>1, <3>1, <3>3, OthersKeep DEF RequestInv
  <2>4. \A i \in InvitationIds : Accepting(i)' \subseteq Accepting(i)
    BY <2>1 DEF Accepting, TypeOK
  <2>5. UseInv'
    BY <1>0, <2>4, UseKept DEF rows
  <2>6. QED
    BY <1>2, <2>2, <2>3, <2>5
<1>4. CASE ReadInvitation(h)
  <2>1. PICK r \in Request :
          /\ r.op = "accept" /\ Available(r.id, r.by)
          /\ req' = [req EXCEPT ![h] = r] /\ pc' = [pc EXCEPT ![h] = "member"]
          /\ found' = found
    BY <1>4 DEF ReadInvitation
  <2>2. TypeOK'
    BY <1>0, <2>1 DEF TypeOK, rows
  <2>3. RequestInv'
    <3>1. \A g \in Handlers \ {h} :
            pc'[g] = pc[g] /\ req'[g] = req[g] /\ found'[g] = found[g]
      BY <2>1 DEF TypeOK
    <3>2. pc'[h] = "member" /\ req'[h] = r /\ invitations' = invitations
      BY <1>0, <2>1 DEF TypeOK, rows
    <3>3. Passed(h)'
      BY <2>1, <3>2 DEF Passed, Available
    <3>4. QED
      BY <1>1, <3>1, <3>3, OthersKeep DEF RequestInv
  <2>4. \A i \in InvitationIds \ {r.id} : Accepting(i)' \subseteq Accepting(i)
    BY <2>1 DEF Accepting, TypeOK
  <2>5. UseInv'
    <3>1. \A i \in InvitationIds : joined[i] > 0 => i # r.id
      BY <2>1 DEF AcceptedMeansJoined, Available
    <3>2. UNCHANGED <<joined, rivals>>
      BY <1>0 DEF rows
    <3>3. QED
      BY <2>4, <3>1, <3>2, UseKept
  <2>6. QED
    BY <1>2, <2>2, <2>3, <2>5
<1>5. CASE ReadMembership(h)
  <2> DEFINE current == role[invitations[req[h].id].org][req[h].by]
  <2>1. /\ pc[h] = "member" /\ pc' = [pc EXCEPT ![h] = "accept"] /\ req' = req
        /\ found' = [found EXCEPT ![h] = current]
    BY <1>5 DEF ReadMembership
  <2>2. /\ req[h] \in Request /\ req[h].id \in InvitationIds /\ req[h].by \in Users
        /\ invitations[req[h].id] \in Invitation
        /\ invitations[req[h].id].user = req[h].by
    BY <2>1, AcceptedRow
  <2>3. current \in Roles \cup {"owner", None}
    BY <2>2 DEF TypeOK, Invitation
  <2>4. TypeOK'
    BY <1>0, <2>1, <2>3 DEF TypeOK, rows
  <2>5. RequestInv'
    <3>1. \A g \in Handlers \ {h} :
            pc'[g] = pc[g] /\ req'[g] = req[g] /\ found'[g] = found[g]
      BY <2>1 DEF TypeOK
    <3>2. /\ pc'[h] = "accept" /\ found'[h] = current /\ req'[h] = req[h]
          /\ invitations' = invitations /\ role' = role
      BY <1>0, <2>1 DEF TypeOK, rows
    <3>3. /\ req[h].op = "accept" /\ invitations[req[h].id] # None
      BY <2>1 DEF RequestInv, Passed
    <3>4. Passed(h)'
      BY <2>2, <3>2, <3>3 DEF Passed
    <3>5. QED
      BY <1>1, <3>1, <3>4, OthersKeep DEF RequestInv
  <2>6. \A i \in InvitationIds : Accepting(i)' \subseteq Accepting(i)
    BY <2>1 DEF Accepting, TypeOK
  <2>7. UseInv'
    BY <1>0, <2>6, UseKept DEF rows
  <2>8. QED
    BY <1>2, <2>4, <2>5, <2>7
<1>6. QED
  BY <1>3, <1>4, <1>5

\* The handlers that End leaves alone.
LEMMA Ended ==
  ASSUME TypeOK, NEW h \in Handlers, End(h)
  PROVE  /\ pc'[h] = "idle"
         /\ \A g \in Handlers \ {h} :
              pc'[g] = pc[g] /\ req'[g] = req[g] /\ found'[g] = found[g]
         /\ \A i \in InvitationIds : Accepting(i)' = Accepting(i) \ {h}
         /\ pc' \in [Handlers -> {"idle", "invite", "member", "accept"}]
         /\ req' \in [Handlers -> Request \cup {None}]
         /\ found' \in [Handlers -> Roles \cup {"owner", None}]
         /\ rivals' \in [InvitationIds -> SUBSET Handlers]
<1>1. /\ pc'[h] = "idle"
      /\ \A g \in Handlers \ {h} :
           pc'[g] = pc[g] /\ req'[g] = req[g] /\ found'[g] = found[g]
  BY DEF End, TypeOK
<1>2. \A i \in InvitationIds : Accepting(i)' = Accepting(i) \ {h}
  BY <1>1 DEF Accepting
<1>3. rivals' \in [InvitationIds -> SUBSET Handlers]
  BY DEF End, TypeOK, Accepting
<1>4. QED
  BY <1>1, <1>2, <1>3 DEF End, TypeOK

\* A request that ends may be the first acceptance; who may still accept was
\* under way then or before.
LEMMA EndUse ==
  ASSUME TypeOK, UseInv, NEW h \in Handlers, End(h)
  PROVE  UseInv'
<1> SUFFICES ASSUME NEW i \in InvitationIds, joined'[i] > 0
             PROVE  Accepting(i)' \subseteq rivals'[i]
  BY DEF UseInv
<1>1. Accepting(i)' = Accepting(i) \ {h}
  BY Ended
<1>2. rivals'[i] = (IF joined[i] = 0 THEN Accepting(i) ELSE rivals[i]) \ {h}
  BY DEF End
<1>3. joined[i] = 0 \/ joined[i] > 0
  BY DEF TypeOK
<1>4. QED
  BY <1>1, <1>2, <1>3 DEF UseInv

\* A request that ends leaves the others as they were.
LEMMA EndKeeps ==
  ASSUME TypeOK, RequestInv, Kept, Stays, NEW h \in Handlers, End(h)
  PROVE  RequestInv'
<1>1. \A g \in Handlers \ {h} : Passed(g)'
  BY Ended, OthersKeep
<1>2. Passed(h)'
  BY Ended DEF Passed
<1>3. QED
  BY <1>1, <1>2 DEF RequestInv

\* A request that fails or goes away.
LEMMA LeaveStep ==
  ASSUME IInv, NEW h \in Handlers, End(h), UNCHANGED rows
  PROVE  IInv'
<1> USE DEF IInv
<1>1. Kept /\ Stays
  BY NoneAssumption DEF Kept, Stays, rows
<1>2. TypeOK'
  BY Ended DEF TypeOK, rows
<1>3. RequestInv'
  BY <1>1, EndKeeps
<1>4. UseInv'
  BY EndUse
<1>5. QED
  BY <1>2, <1>3, <1>4, TablesKept

\* A new invitation is unused and grants nothing yet.
LEMMA CommitInviteStep ==
  ASSUME IInv, NEW h \in Handlers, CommitInvite(h) PROVE IInv'
<1> USE DEF IInv
<1>1. PICK i \in InvitationIds :
        /\ invitations[i] = None
        /\ invitations' = [invitations EXCEPT ![i] =
             [org |-> req[h].org, user |-> req[h].user, role |-> req[h].role,
              by |-> req[h].by, expired |-> FALSE, accepted |-> FALSE]]
  BY DEF CommitInvite
<1> DEFINE new == [org |-> req[h].org, user |-> req[h].user, role |-> req[h].role,
                   by |-> req[h].by, expired |-> FALSE, accepted |-> FALSE]
<1>2. new \in Invitation
  <2>1. req[h] \in Request /\ req[h].op = "invite" /\ req[h].role # "owner"
    BY DEF RequestInv, Passed, CommitInvite
  <2>2. /\ req[h].org \in Orgs /\ req[h].user \in Users /\ req[h].by \in Users
        /\ req[h].role \in Roles
    BY <2>1, Requests
  <2>3. QED
    BY <2>2 DEF Invitation
<1>3. /\ End(h) /\ UNCHANGED <<creator, role, joined>>
      /\ invitations'[i] = new /\ ~new.accepted
      /\ \A j \in InvitationIds \ {i} : invitations'[j] = invitations[j]
      /\ Rows' = Rows \cup {i} /\ i \notin Rows
  <2>1. End(h) /\ UNCHANGED <<creator, role, joined>>
    BY DEF CommitInvite
  <2>2. /\ invitations'[i] = new
        /\ \A j \in InvitationIds \ {i} : invitations'[j] = invitations[j]
    BY <1>1 DEF TypeOK
  <2>3. Rows' = Rows \cup {i} /\ i \notin Rows
    BY <1>1, <1>2, <2>2, NoneAssumption DEF Rows
  <2>4. QED
    BY <2>1, <2>2, <2>3
<1>4. Kept /\ Stays
  BY <1>1, <1>3 DEF Kept, Stays
<1>5. TypeOK'
  BY <1>1, <1>2, <1>3, Ended DEF TypeOK
<1>6. RequestInv'
  BY <1>3, <1>4, EndKeeps
<1>7. UseInv'
  BY <1>3, EndUse
<1>8. RolesAreGranted'
  BY <1>3 DEF RolesAreGranted, Rows
<1>9. AcceptedMeansJoined'
  BY <1>3 DEF AcceptedMeansJoined, Rows
<1>10. QED
  BY <1>5, <1>6, <1>7, <1>8, <1>9

\* An expired invitation is still the invitation it was.
LEMMA ExpireStep ==
  ASSUME IInv, NEW i \in InvitationIds, ExpireInvitation(i) PROVE IInv'
<1> USE DEF IInv
<1>1. /\ invitations[i] \in Invitation
      /\ invitations' = [invitations EXCEPT ![i].expired = TRUE]
      /\ UNCHANGED <<creator, role, joined, pc, req, found, rivals>>
  BY DEF ExpireInvitation, TypeOK
<1>2. /\ invitations'[i] \in Invitation
      /\ invitations'[i].org = invitations[i].org
      /\ invitations'[i].user = invitations[i].user
      /\ invitations'[i].role = invitations[i].role
      /\ invitations'[i].accepted = invitations[i].accepted
      /\ \A j \in InvitationIds \ {i} : invitations'[j] = invitations[j]
  BY <1>1 DEF TypeOK, Invitation
<1>3. Rows' = Rows /\ invitations'[i] # None
  BY <1>1, <1>2, NoneAssumption DEF Rows
<1>4. Kept /\ Stays
  BY <1>1, <1>2, <1>3 DEF Kept, Stays
<1>5. TypeOK'
  BY <1>1, <1>2 DEF TypeOK
<1>6. RequestInv'
  BY <1>1, <1>4, OthersKeep DEF RequestInv
<1>7. UseInv'
  <2>1. \A j \in InvitationIds : Accepting(j)' = Accepting(j)
    BY <1>1 DEF Accepting
  <2>2. QED
    BY <1>1, <2>1, UseKept
<1>8. RolesAreGranted'
  BY <1>1, <1>2, <1>3 DEF RolesAreGranted, Rows
<1>9. AcceptedMeansJoined'
  BY <1>1, <1>2, <1>3 DEF AcceptedMeansJoined, Rows
<1>10. QED
  BY <1>5, <1>6, <1>7, <1>8, <1>9

\* The commit of an acceptance: the one step that uses up an invitation and
\* grants its role.
LEMMA CommitAcceptStep ==
  ASSUME IInv, NEW h \in Handlers, CommitAccept(h) PROVE IInv'
<1> USE DEF IInv
<1> DEFINE i == req[h].id
           o == invitations[i].org
           u == req[h].by
           new == NewRole(h, role[o][u])
<1>1. /\ i \in InvitationIds /\ u \in Users /\ o \in Orgs /\ pc[h] = "accept"
      /\ invitations[i] \in Invitation /\ invitations[i].user = u
      /\ invitations[i].role \in Roles
  BY AcceptedRow DEF CommitAccept, Invitation
<1>2. /\ End(h) /\ creator' = creator
      /\ role' = [role EXCEPT ![o][u] = new]
      /\ invitations' = [invitations EXCEPT ![i] = Used(invitations[i])]
      /\ joined' = [joined EXCEPT ![i] = joined[i] + 1]
  BY DEF CommitAccept
<1>3. /\ invitations'[i] \in Invitation /\ invitations'[i].accepted
      /\ invitations'[i].org = o /\ invitations'[i].user = u
      /\ invitations'[i].role = invitations[i].role
      /\ \A j \in InvitationIds \ {i} : invitations'[j] = invitations[j]
  BY <1>1, <1>2 DEF Used, TypeOK, Invitation
<1>4. Rows' = Rows /\ i \in Rows /\ creator' = creator
  BY <1>1, <1>2, <1>3, NoneAssumption DEF Rows
<1>5. /\ role'[o][u] = new
      /\ \A p \in Orgs, v \in Users : ~(p = o /\ v = u) => role'[p][v] = role[p][v]
  BY <1>1, <1>2 DEF TypeOK
<1>6. /\ new = invitations[i].role \/ new = role[o][u]
      /\ new \in Roles \cup {"owner"}
  <2>1. found[h] # None => role[o][u] # None
    BY <1>1 DEF RequestInv, Passed
  <2>2. role[o][u] \in Roles \cup {"owner", None} /\ invitations[i].role # None
    BY <1>1, NoneAssumption DEF TypeOK
  <2>3. QED
    BY <1>1, <2>1, <2>2 DEF NewRole
<1>7. Kept /\ Stays
  <2>1. new # None
    BY <1>6, NoneAssumption
  <2>2. Stays
    BY <1>5, <2>1 DEF Stays
  <2>3. Kept
    BY <1>1, <1>3, NoneAssumption DEF Kept
  <2>4. QED
    BY <2>2, <2>3
<1>8. TypeOK'
  <2>1. role' \in [Orgs -> [Users -> Roles \cup {"owner", None}]]
    BY <1>1, <1>2, <1>6 DEF TypeOK
  <2>2. invitations' \in [InvitationIds -> Invitation \cup {None}]
    BY <1>1, <1>2, <1>3 DEF TypeOK
  <2>3. joined' \in [InvitationIds -> Nat]
    BY <1>1, <1>2 DEF TypeOK
  <2>4. QED
    BY <1>2, <2>1, <2>2, <2>3, Ended DEF TypeOK
<1>9. RequestInv'
  BY <1>2, <1>7, EndKeeps
<1>10. UseInv'
  BY <1>2, EndUse
<1>11. RolesAreGranted'
  <2> SUFFICES ASSUME NEW p \in Orgs, NEW v \in Users, role'[p][v] # None
               PROVE  \/ role'[p][v] = "owner" /\ creator[p] = v
                      \/ /\ role'[p][v] # "owner"
                         /\ \E j \in Rows : /\ invitations'[j].accepted
                                            /\ invitations'[j].org = p
                                            /\ invitations'[j].user = v
                                            /\ invitations'[j].role = role'[p][v]
    BY <1>4 DEF RolesAreGranted
  <2>1. CASE role'[p][v] = role[p][v]
    <3>1. \A j \in Rows : invitations[j].accepted =>
            /\ invitations'[j].accepted
            /\ invitations'[j].org = invitations[j].org
            /\ invitations'[j].user = invitations[j].user
            /\ invitations'[j].role = invitations[j].role
      BY <1>7 DEF Kept, Rows
    <3>2. QED
      BY <2>1, <3>1 DEF RolesAreGranted
  <2>2. CASE role'[p][v] # role[p][v]
    <3>1. p = o /\ v = u /\ role'[p][v] = invitations[i].role
      BY <1>5, <1>6, <2>2
    <3>2. invitations[i].role # "owner"
      BY <1>1, RolesAssumption
    <3>3. QED
      BY <1>3, <1>4, <3>1, <3>2
  <2>3. QED
    BY <2>1, <2>2
<1>12. AcceptedMeansJoined'
  <2> SUFFICES ASSUME NEW j \in InvitationIds
               PROVE  /\ joined'[j] > 0 <=> j \in Rows /\ invitations'[j].accepted
                      /\ joined'[j] > 0 =>
                           role'[invitations'[j].org][invitations'[j].user] # None
    BY <1>4 DEF AcceptedMeansJoined
  <2>1. CASE j = i
    <3>1. joined'[j] = joined[j] + 1 /\ joined[j] \in Nat
      BY <1>1, <1>2, <2>1 DEF TypeOK
    <3>2. joined'[j] > 0 /\ j \in Rows /\ invitations'[j].accepted
      BY <1>3, <1>4, <2>1, <3>1
    <3>3. role'[invitations'[j].org][invitations'[j].user] = new
      BY <1>3, <1>5, <2>1
    <3>4. new # None
      BY <1>6, NoneAssumption
    <3>5. QED
      BY <3>2, <3>3, <3>4
  <2>2. CASE j # i
    <3>1. joined'[j] = joined[j] /\ invitations'[j] = invitations[j]
      BY <1>2, <1>3, <2>2 DEF TypeOK
    <3>2. joined[j] > 0 => /\ invitations[j].org \in Orgs /\ invitations[j].user \in Users
                           /\ role[invitations[j].org][invitations[j].user] # None
      BY DEF AcceptedMeansJoined, TypeOK, Rows, Invitation
    <3>3. QED
      BY <1>7, <3>1, <3>2 DEF AcceptedMeansJoined, Stays
  <2>3. QED
    BY <2>1, <2>2
<1>13. QED
  BY <1>8, <1>9, <1>10, <1>11, <1>12

\* The invariant is inductive.
LEMMA NextIInv == IInv /\ [Next]_vars => IInv'
<1> SUFFICES ASSUME IInv, [Next]_vars PROVE IInv'
  OBVIOUS
<1>1. CASE UNCHANGED vars
  <2>1. UNCHANGED rows /\ UNCHANGED <<pc, req, found, rivals>>
    BY <1>1 DEF vars, rows
  <2>2. TypeOK'
    BY <2>1 DEF IInv, TypeOK, rows
  <2>3. RequestInv'
    BY <2>1 DEF IInv, RequestInv, Passed, rows
  <2>4. UseInv'
    BY <2>1 DEF IInv, UseInv, Accepting, rows
  <2>5. QED
    BY <2>1, <2>2, <2>3, <2>4, TablesKept DEF IInv
<1>2. ASSUME NEW h \in Handlers, FailAccept(h) \/ Abort(h) PROVE IInv'
  BY <1>2, LeaveStep DEF FailAccept, Abort
<1>3. CASE Next
  BY <1>2, <1>3, CreateStep, ReadSteps, CommitInviteStep, ExpireStep, CommitAcceptStep
     DEF Next
<1>4. QED
  BY <1>1, <1>3

\* It holds throughout.
LEMMA Invariance == Spec => []IInv
BY InitIInv, NextIInv, PTL DEF Spec

\* Rows and requests keep their types, for any organizations and handlers.
THEOREM TypeCorrect == Spec => []TypeOK
BY Invariance, PTL DEF IInv

\* Every role comes from creating the organization or from a used-up invitation
\* that was made out to the user, so nobody but its creator ever owns it.
THEOREM EveryRoleIsGranted == Spec => []RolesAreGranted
BY Invariance, PTL DEF IInv

\* An invitation is used up exactly when its acceptance was announced, and then
\* the invited user is a member.
THEOREM AcceptanceIsComplete == Spec => []AcceptedMeansJoined
BY Invariance, PTL DEF IInv

\* The commit of an acceptance is the one step that announces one.
LEMMA OnlyCommitsJoin ==
  ASSUME TypeOK, [Next]_vars, NEW i \in InvitationIds, joined'[i] # joined[i]
  PROVE  \E h \in Handlers : CommitAccept(h) /\ req[h].id = i
<1>1. CASE UNCHANGED vars
  BY <1>1 DEF vars, rows
<1>2. ASSUME NEW o \in Orgs, NEW u \in Users, CreateOrganization(o, u) PROVE FALSE
  BY <1>2 DEF CreateOrganization
<1>3. ASSUME NEW j \in InvitationIds, ExpireInvitation(j) PROVE FALSE
  BY <1>3 DEF ExpireInvitation
<1>4. ASSUME NEW h \in Handlers,
             AuthorizeInvite(h) \/ CommitInvite(h) \/ ReadInvitation(h)
               \/ ReadMembership(h) \/ FailAccept(h) \/ Abort(h)
      PROVE  FALSE
  BY <1>4 DEF AuthorizeInvite, CommitInvite, ReadInvitation, ReadMembership,
              FailAccept, Abort, rows
<1>5. ASSUME NEW h \in Handlers, CommitAccept(h) PROVE req[h].id = i
  BY <1>5 DEF CommitAccept, TypeOK
<1>6. QED
  BY <1>1, <1>2, <1>3, <1>4, <1>5 DEF Next

\* An invitation that has been accepted is accepted again only by requests that
\* had found it available before its first acceptance.
THEOREM SingleUseButForOverlap == Spec => UsedByOverlappingOnly
<1>1. IInv /\ [Next]_vars =>
        [\A i \in InvitationIds : joined[i] > 0 /\ joined'[i] # joined[i] =>
           \E h \in rivals[i] : pc[h] = "accept" /\ req[h].id = i /\ pc'[h] = "idle"]_vars
  <2> SUFFICES ASSUME IInv, [Next]_vars,
                      NEW i \in InvitationIds, joined[i] > 0, joined'[i] # joined[i]
               PROVE  \E h \in rivals[i] :
                        pc[h] = "accept" /\ req[h].id = i /\ pc'[h] = "idle"
    OBVIOUS
  <2>1. PICK h \in Handlers : CommitAccept(h) /\ req[h].id = i
    BY OnlyCommitsJoin DEF IInv
  <2>2. pc[h] = "accept" /\ End(h)
    BY <2>1 DEF CommitAccept
  <2>3. pc'[h] = "idle"
    BY <2>2, Ended DEF IInv
  <2>4. h \in rivals[i]
    BY <2>1, <2>2 DEF IInv, UseInv, Accepting
  <2>5. QED
    BY <2>1, <2>2, <2>3, <2>4
<1>2. QED
  BY <1>1, Invariance, PTL DEF Spec, UsedByOverlappingOnly
=============================================================================

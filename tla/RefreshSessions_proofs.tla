------------------------ MODULE RefreshSessions_proofs ------------------------
(* Theorems about RefreshSessions, for any ids, users and transactions. *)
EXTENDS RefreshSessions, TLAPS

\* Every transaction past its first line knows what it was asked, and row locks
\* are only ever held on rows that exist.
LockInv ==
  /\ \A h \in Handlers : pc[h] # "idle" => req[h] \in Request
  /\ \A s \in SessionIds : lock[s] # None => Exists(s)
  /\ \A h \in Handlers : \A s \in pending[h] : Exists(s)

\* Families and successors named by a row exist, a row with a successor is dead.
TableInv ==
  \A s \in SessionIds : Exists(s) =>
    /\ Exists(rows[s].family)
    /\ rows[s].replacedBy # None => rows[s].revoked /\ Exists(rows[s].replacedBy)

\* A transaction holds or awaits locks on rows of the one family it works on.
LocksInv ==
  \A h \in Handlers, s \in SessionIds :
    /\ lock[s] = h => /\ pc[h] \notin {"idle", "load"}
                      /\ rows[s].family = rows[req[h].id].family
    /\ s \in pending[h] => /\ pc[h] = "scan"
                           /\ rows[s].family = rows[req[h].id].family

\* The inductive invariant.
IInv ==
  /\ TypeOK
  /\ LockInv
  /\ LocksInv
  /\ ReadStaysTrue
  /\ TableInv
  /\ AtMostOneLive
  /\ FamilyIsChain

\* The initial state satisfies it: there is no row, lock or request.
LEMMA InitIInv == Init => IInv
BY NoneAssumption DEF Init, IInv, TypeOK, LockInv, LocksInv, ReadStaysTrue,
   TableInv, AtMostOneLive, FamilyIsChain, Exists, Live

\* The fields of a row of the table.
LEMMA RowFields ==
  ASSUME NEW r \in Row
  PROVE  /\ r.user \in Users /\ r.family \in SessionIds
         /\ r.replacedBy \in SessionIds \cup {None} /\ r # None
BY NoneAssumption DEF Row

\* Revoking a row changes that field and no other.
LEMMA RevokedFields ==
  ASSUME NEW r \in Row
  PROVE  /\ Revoked(r) \in Row /\ Revoked(r) # None /\ Revoked(r).revoked
         /\ Revoked(r).user = r.user /\ Revoked(r).family = r.family
         /\ Revoked(r).replacedBy = r.replacedBy
<1>1. Revoked(r) \in Row
  BY DEF Row, Revoked
<1>2. QED
  BY <1>1, NoneAssumption DEF Row, Revoked

\* So does its expiry.
LEMMA LapsedFields ==
  ASSUME NEW r \in Row
  PROVE  /\ Lapsed(r) \in Row /\ Lapsed(r) # None /\ Lapsed(r).revoked = r.revoked
         /\ Lapsed(r).user = r.user /\ Lapsed(r).family = r.family
         /\ Lapsed(r).replacedBy = r.replacedBy
<1>1. Lapsed(r) \in Row
  BY DEF Row, Lapsed
<1>2. QED
  BY <1>1, NoneAssumption DEF Row, Lapsed

\* A rotation revokes the row and records its successor.
LEMMA RetiredFields ==
  ASSUME NEW r \in Row, NEW t \in SessionIds
  PROVE  /\ Retired(r, t) \in Row /\ Retired(r, t) # None
         /\ Retired(r, t).user = r.user /\ Retired(r, t).family = r.family
         /\ Retired(r, t).revoked /\ Retired(r, t).replacedBy = t
<1>1. Retired(r, t) \in Row
  BY DEF Row, Retired
<1>2. QED
  BY <1>1, NoneAssumption DEF Row, Retired

\* A row as it is inserted.
LEMMA NewRowFields ==
  ASSUME NEW u \in Users, NEW f \in SessionIds
  PROVE  /\ NewRow(u, f) \in Row /\ NewRow(u, f) # None
         /\ NewRow(u, f).user = u /\ NewRow(u, f).family = f
         /\ ~NewRow(u, f).revoked /\ NewRow(u, f).replacedBy = None
<1>1. NewRow(u, f) \in Row
  BY DEF NewRow, Row
<1>2. QED
  BY <1>1, NoneAssumption DEF NewRow

\* The end of a transaction leaves handlers and locks well typed.
LEMMA EndType ==
  ASSUME TypeOK, NEW h \in Handlers, End(h)
  PROVE  /\ lock' \in [SessionIds -> Handlers \cup {None}]
         /\ pc' \in [Handlers -> {"idle", "load", "rotate", "expire", "revoke",
                                  "reuse", "scan"}]
         /\ req' \in [Handlers -> Request \cup {NotAsked}]
         /\ pending' \in [Handlers -> SUBSET SessionIds]
BY DEF TypeOK, End

\* Every step keeps the type invariant, given what the locks guarantee.
LEMMA TypeStep == TypeOK /\ LockInv /\ ReadStaysTrue /\ [Next]_vars => TypeOK'
<1> USE NoneAssumption DEF TypeOK, Request, history
<1> SUFFICES ASSUME TypeOK, LockInv, ReadStaysTrue, [Next]_vars PROVE TypeOK'
  OBVIOUS
<1>1. ASSUME NEW u \in Users, IssueToken(u) PROVE TypeOK'
  BY <1>1, NewRowFields DEF IssueToken, FreshIds
<1>2. ASSUME NEW s \in SessionIds, Lapse(s) PROVE TypeOK'
  BY <1>2, LapsedFields DEF Lapse, Live, Exists
<1>3. ASSUME NEW h \in Handlers, Present(h) PROVE TypeOK'
  BY <1>3 DEF Present, table
<1>4. ASSUME NEW h \in Handlers, LoadCurrent(h) PROVE TypeOK'
  <2>1. req[h] \in Request
    BY <1>4 DEF LoadCurrent, LockInv
  <2>2. QED
    BY <1>4, <2>1 DEF LoadCurrent, table, End, Verdict
<1>5. ASSUME NEW h \in Handlers, CommitRotate(h) PROVE TypeOK'
  <2>1. req[h].id \in SessionIds /\ Exists(req[h].id)
    BY <1>5 DEF CommitRotate, LockInv, ReadStaysTrue
  <2>2. rows[req[h].id] \in Row
    BY <2>1 DEF Exists
  <2>3. \A t \in SessionIds : /\ Retired(rows[req[h].id], t) \in Row
                              /\ NewRow(rows[req[h].id].user,
                                        rows[req[h].id].family) \in Row
    BY <2>2, RowFields, RetiredFields, NewRowFields
  <2>4. rows' \in [SessionIds -> Row \cup {None}]
    BY <1>5, <2>1, <2>3 DEF CommitRotate, FreshIds
  <2>5. overtaken' \subseteq SessionIds
    <3>1. rows[req[h].id].family \in SessionIds
      BY <2>2, RowFields
    <3>2. QED
      BY <1>5, <3>1 DEF CommitRotate
  <2>6. QED
    BY <1>5, <2>4, <2>5, EndType DEF CommitRotate
<1>6. ASSUME NEW h \in Handlers, CommitRevoke(h) PROVE TypeOK'
  <2>1. req[h].id \in SessionIds /\ Exists(req[h].id)
    BY <1>6 DEF CommitRevoke, LockInv, ReadStaysTrue
  <2>2. rows' \in [SessionIds -> Row \cup {None}]
    BY <1>6, <2>1, RevokedFields DEF CommitRevoke, Exists
  <2>3. QED
    BY <1>6, <2>2, EndType DEF CommitRevoke
<1>7. ASSUME NEW h \in Handlers, StartFamilyUpdate(h) PROVE TypeOK'
  BY <1>7 DEF StartFamilyUpdate, FamilyRows, table
<1>8. ASSUME NEW h \in Handlers, LockFamilyRow(h) PROVE TypeOK'
  BY <1>8 DEF LockFamilyRow, table
<1>9. ASSUME NEW h \in Handlers, CommitReuse(h) PROVE TypeOK'
  <2>1. req[h].id \in SessionIds /\ Exists(req[h].id)
    BY <1>9 DEF CommitReuse, LockInv, ReadStaysTrue
  <2>2. \A s \in SessionIds : lock[s] = h =>
          rows[s] \in Row /\ Revoked(rows[s]) \in Row
    <3>1. \A s \in SessionIds : lock[s] = h => rows[s] \in Row
      BY DEF LockInv, Exists
    <3>2. QED
      BY <3>1, RevokedFields
  <2>3. rows' \in [SessionIds -> Row \cup {None}]
    BY <1>9, <2>2 DEF CommitReuse
  <2>4. rows[req[h].id].family \in SessionIds
    BY <2>1, RowFields DEF Exists
  <2>5. QED
    BY <1>9, <2>3, <2>4, EndType DEF CommitReuse
<1>10. ASSUME NEW h \in Handlers, AbortDeadlock(h) \/ Abort(h) PROVE TypeOK'
  BY <1>10 DEF AbortDeadlock, Abort, End, table
<1>11. CASE UNCHANGED vars
  BY <1>11 DEF vars
<1>12. QED
  BY <1>1, <1>2, <1>3, <1>4, <1>5, <1>6, <1>7, <1>8, <1>9, <1>10, <1>11
  DEF Next, Step
-----------------------------------------------------------------------------
\* A step that at most revokes rows or lets them expire.
OnlyDies ==
  \A s \in SessionIds :
    /\ Exists(s)' <=> Exists(s)
    /\ Exists(s) => /\ rows'[s].family = rows[s].family
                    /\ rows'[s].user = rows[s].user
                    /\ rows'[s].replacedBy = rows[s].replacedBy
                    /\ rows[s].revoked => rows'[s].revoked

\* Such a step keeps the structure of the table.
LEMMA OnlyDiesKeepsTable ==
  ASSUME TypeOK, TableInv, AtMostOneLive, FamilyIsChain, OnlyDies
  PROVE  TableInv' /\ AtMostOneLive' /\ FamilyIsChain'
<1> USE DEF OnlyDies
<1>1. \A s \in SessionIds : Exists(s) =>
        rows[s].family \in SessionIds /\ rows[s].replacedBy \in SessionIds \cup {None}
  BY DEF TypeOK, Row, Exists
<1>2. TableInv'
  BY <1>1 DEF TableInv
<1>3. AtMostOneLive'
  BY DEF AtMostOneLive, Live
<1>4. FamilyIsChain'
  BY DEF FamilyIsChain
<1>5. QED
  BY <1>2, <1>3, <1>4

\* An expiry takes a row to its end, and changes no other field.
LEMMA LapseOnlyDies ==
  ASSUME TypeOK, NEW s \in SessionIds, Lapse(s) PROVE OnlyDies
<1>1. rows[s] \in Row
  BY DEF Lapse, Live, Exists, TypeOK
<1>2. QED
  BY <1>1, LapsedFields, NoneAssumption DEF Lapse, Live, Exists, TypeOK, OnlyDies

\* An expired token or a logout revokes one row.
LEMMA RevokeOnlyDies ==
  ASSUME TypeOK, LockInv, ReadStaysTrue, NEW h \in Handlers, CommitRevoke(h)
  PROVE  OnlyDies
<1>1. req[h].id \in SessionIds /\ Exists(req[h].id)
  BY DEF CommitRevoke, LockInv, ReadStaysTrue, Request
<1>2. rows[req[h].id] \in Row
  BY <1>1 DEF Exists, TypeOK
<1>3. QED
  BY <1>1, <1>2, RevokedFields, NoneAssumption
  DEF CommitRevoke, Exists, TypeOK, OnlyDies

\* A detected reuse revokes the rows it has locked.
LEMMA ReuseOnlyDies ==
  ASSUME TypeOK, LockInv, NEW h \in Handlers, CommitReuse(h) PROVE OnlyDies
<1>1. \A s \in SessionIds : lock[s] = h => rows[s] \in Row
  BY NoneAssumption DEF LockInv, Exists, TypeOK
<1>2. QED
  BY <1>1, RevokedFields, NoneAssumption DEF CommitReuse, Exists, TypeOK, OnlyDies

\* Every step but a login and a rotation is of that kind.
LEMMA MostStepsOnlyKill ==
  ASSUME TypeOK, LockInv, ReadStaysTrue, [Next]_vars,
         ~ \E u \in Users : IssueToken(u),
         ~ \E h \in Handlers : CommitRotate(h)
  PROVE  OnlyDies
<1>1. CASE UNCHANGED rows
  BY <1>1 DEF OnlyDies, Exists
<1>2. QED
  BY <1>1, LapseOnlyDies, RevokeOnlyDies, ReuseOnlyDies
  DEF Next, Step, Present, LoadCurrent, StartFamilyUpdate, LockFamilyRow,
      AbortDeadlock, Abort, table, vars

\* A login adds a family of one row.
LEMMA IssueKeepsTable ==
  ASSUME TypeOK, TableInv, AtMostOneLive, FamilyIsChain,
         NEW u \in Users, IssueToken(u)
  PROVE  TableInv' /\ AtMostOneLive' /\ FamilyIsChain'
<1>1. PICK n \in SessionIds : ~Exists(n) /\ rows' = [rows EXCEPT ![n] = NewRow(u, n)]
  BY DEF IssueToken, FreshIds
<1>2. /\ rows'[n] = NewRow(u, n) /\ Exists(n)'
      /\ \A s \in SessionIds \ {n} : rows'[s] = rows[s] /\ (Exists(s)' <=> Exists(s))
  BY <1>1, NewRowFields DEF TypeOK, Exists
<1>3. /\ rows'[n].family = n /\ ~rows'[n].revoked /\ rows'[n].replacedBy = None
      /\ rows'[n].user = u
  BY <1>2, NewRowFields
<1>4. \A s \in SessionIds : Exists(s) =>
        /\ rows[s].family \in SessionIds /\ rows[s].family # n
        /\ rows[s].replacedBy \in SessionIds \cup {None} /\ rows[s].replacedBy # n
  BY <1>1, RowFields, NoneAssumption DEF TypeOK, TableInv, Exists
<1>5. TableInv'
  BY <1>2, <1>3, <1>4 DEF TableInv
<1>6. AtMostOneLive'
  BY <1>2, <1>3, <1>4 DEF AtMostOneLive, Live
<1>7. FamilyIsChain'
  BY <1>2, <1>3, <1>4, NoneAssumption DEF FamilyIsChain
<1>8. QED
  BY <1>5, <1>6, <1>7

\* What a rotation does to the table: the live row o makes place for row n.
Replaces(o, n) ==
  /\ Live(o) /\ ~Exists(n) /\ rows'[o] # None /\ rows'[n] # None
  /\ rows'[o].user = rows[o].user /\ rows'[o].family = rows[o].family
  /\ rows'[o].revoked /\ rows'[o].replacedBy = n
  /\ rows'[n].user = rows[o].user /\ rows'[n].family = rows[o].family
  /\ ~rows'[n].revoked /\ rows'[n].replacedBy = None
  /\ \A s \in SessionIds \ {o, n} : rows'[s] = rows[s]

\* A committed rotation does exactly that, to the row it was asked about.
LEMMA RotateEffect ==
  ASSUME TypeOK, LockInv, ReadStaysTrue, NEW h \in Handlers, CommitRotate(h)
  PROVE  \E o, n \in SessionIds : o = req[h].id /\ Replaces(o, n)
<1>1. PICK o \in SessionIds : o = req[h].id
  BY DEF CommitRotate, LockInv, Request
<1>2. Live(o) /\ rows[o] \in Row
  BY <1>1 DEF CommitRotate, LockInv, ReadStaysTrue, Request, Live, Exists, TypeOK
<1>3. rows[o].user \in Users /\ rows[o].family \in SessionIds
  BY <1>2, RowFields
<1>4. PICK n \in SessionIds :
        /\ ~Exists(n)
        /\ rows' = [rows EXCEPT ![o] = Retired(rows[o], n),
                               ![n] = NewRow(rows[o].user, rows[o].family)]
  BY <1>1 DEF CommitRotate, FreshIds
<1>5. /\ rows'[n] = NewRow(rows[o].user, rows[o].family)
      /\ rows'[o] = Retired(rows[o], n)
      /\ \A s \in SessionIds \ {o, n} : rows'[s] = rows[s]
  BY <1>2, <1>4 DEF TypeOK, Live
<1>6. /\ rows'[n] # None
      /\ rows'[n].user = rows[o].user /\ rows'[n].family = rows[o].family
      /\ ~rows'[n].revoked /\ rows'[n].replacedBy = None
  BY <1>3, <1>5, NewRowFields
<1>7. /\ rows'[o] # None
      /\ rows'[o].user = rows[o].user /\ rows'[o].family = rows[o].family
      /\ rows'[o].revoked /\ rows'[o].replacedBy = n
  BY <1>2, <1>5, RetiredFields
<1>8. QED
  BY <1>1, <1>2, <1>4, <1>5, <1>6, <1>7 DEF Replaces

\* A rotation moves the one live place of a family from a row to a new one.
LEMMA RotateKeepsTable ==
  ASSUME TypeOK, LockInv, ReadStaysTrue, TableInv, AtMostOneLive, FamilyIsChain,
         NEW h \in Handlers, CommitRotate(h)
  PROVE  TableInv' /\ AtMostOneLive' /\ FamilyIsChain'
<1>1. PICK o \in SessionIds, n \in SessionIds : Replaces(o, n)
  BY RotateEffect
<1>2. /\ Exists(n)' /\ Exists(o)' /\ o # n
      /\ \A s \in SessionIds \ {o, n} : Exists(s)' <=> Exists(s)
  BY <1>1 DEF Exists, Live, Replaces
<1>3. \A s \in SessionIds : Exists(s) =>
        /\ rows[s].family \in SessionIds /\ rows[s].family # n
        /\ rows[s].replacedBy \in SessionIds \cup {None} /\ rows[s].replacedBy # n
  BY <1>1, RowFields, NoneAssumption DEF TypeOK, TableInv, Exists, Replaces
<1>4. rows[o].replacedBy = None /\ ~rows[o].revoked
  BY <1>1 DEF TableInv, Live, Replaces
<1>5. TableInv'
  BY <1>1, <1>2, <1>3, NoneAssumption DEF TableInv, Replaces, Live
<1>6. AtMostOneLive'
  BY <1>1, <1>2 DEF AtMostOneLive, Live, Replaces
<1>7. FamilyIsChain'
  BY <1>1, <1>2, <1>3, <1>4, NoneAssumption DEF FamilyIsChain, Replaces, Live
<1>8. QED
  BY <1>5, <1>6, <1>7

\* Locks protect what was read: no step changes a row another one has locked.
LEMMA LockStep ==
  TypeOK /\ LockInv /\ ReadStaysTrue /\ [Next]_vars => LockInv' /\ ReadStaysTrue'
<1> SUFFICES ASSUME TypeOK, LockInv, ReadStaysTrue, [Next]_vars
             PROVE  LockInv' /\ ReadStaysTrue'
  OBVIOUS
<1>1. ASSUME NEW u \in Users, IssueToken(u) PROVE LockInv' /\ ReadStaysTrue'
  BY <1>1, NewRowFields, NoneAssumption
  DEF IssueToken, FreshIds, TypeOK, LockInv, ReadStaysTrue, Exists, Request
<1>2. ASSUME NEW s \in SessionIds, Lapse(s) PROVE LockInv' /\ ReadStaysTrue'
  BY <1>2, LapsedFields, NoneAssumption
  DEF Lapse, Live, TypeOK, LockInv, ReadStaysTrue, Exists, Request
<1>3. ASSUME NEW h \in Handlers, Present(h) PROVE LockInv' /\ ReadStaysTrue'
  BY <1>3 DEF Present, table, TypeOK, LockInv, ReadStaysTrue, Exists
<1>4. ASSUME NEW h \in Handlers, LoadCurrent(h) PROVE LockInv' /\ ReadStaysTrue'
  BY <1>4, NoneAssumption DEF LoadCurrent, RowAvailable, Verdict, End, table,
     TypeOK, LockInv, ReadStaysTrue, Exists, Request
<1>5. ASSUME NEW h \in Handlers, StartFamilyUpdate(h) \/ LockFamilyRow(h)
      PROVE  LockInv' /\ ReadStaysTrue'
  <2>1. CASE StartFamilyUpdate(h)
    BY <2>1 DEF StartFamilyUpdate, FamilyRows, table, TypeOK, LockInv,
       ReadStaysTrue, Exists
  <2>2. CASE LockFamilyRow(h)
    BY <2>2, NoneAssumption DEF LockFamilyRow, table, TypeOK, LockInv,
       ReadStaysTrue, Exists, Request
  <2>3. QED
    BY <1>5, <2>1, <2>2
<1>6. ASSUME NEW h \in Handlers, AbortDeadlock(h) \/ Abort(h)
      PROVE  LockInv' /\ ReadStaysTrue'
  BY <1>6, NoneAssumption DEF AbortDeadlock, Abort, End, table, TypeOK, LockInv,
     ReadStaysTrue, Exists, Request
<1>7. ASSUME NEW h \in Handlers, CommitRevoke(h) PROVE LockInv' /\ ReadStaysTrue'
  BY <1>7, RevokedFields, NoneAssumption
  DEF CommitRevoke, End, TypeOK, LockInv, ReadStaysTrue, Exists, Request
<1>8. ASSUME NEW h \in Handlers, CommitReuse(h) PROVE LockInv' /\ ReadStaysTrue'
  BY <1>8, RevokedFields, NoneAssumption
  DEF CommitReuse, End, TypeOK, LockInv, ReadStaysTrue, Exists, Request
<1>9. ASSUME NEW h \in Handlers, CommitRotate(h) PROVE LockInv' /\ ReadStaysTrue'
  <2>1. PICK o \in SessionIds, n \in SessionIds : o = req[h].id /\ Replaces(o, n)
    BY <1>9, RotateEffect
  <2>2. lock[o] = h /\ lock[n] = None
    BY <1>9, <2>1, NoneAssumption
    DEF CommitRotate, Replaces, LockInv, ReadStaysTrue, TypeOK
  <2>3. \A s \in SessionIds : Exists(s) => Exists(s)'
    BY <2>1 DEF Replaces, Exists
  <2>4. End(h)
    BY <1>9 DEF CommitRotate
  <2>5. LockInv'
    BY <2>3, <2>4, NoneAssumption DEF End, LockInv, TypeOK
  <2>6. ReadStaysTrue'
    BY <2>1, <2>2, <2>3, <2>4, NoneAssumption
    DEF End, LockInv, ReadStaysTrue, TypeOK, Replaces, Request
  <2>7. QED
    BY <2>5, <2>6
<1>10. CASE UNCHANGED vars
  BY <1>10 DEF vars, LockInv, ReadStaysTrue, Exists
<1>11. QED
  BY <1>1, <1>2, <1>3, <1>4, <1>5, <1>6, <1>7, <1>8, <1>9, <1>10 DEF Next, Step

\* No step moves a row to another family or user, or removes it.
LEMMA RowsStay ==
  ASSUME TypeOK, LockInv, ReadStaysTrue, [Next]_vars
  PROVE  \A s \in SessionIds : Exists(s) =>
           /\ Exists(s)' /\ rows'[s].family = rows[s].family
           /\ rows'[s].user = rows[s].user
<1>1. ASSUME NEW u \in Users, IssueToken(u), NEW s \in SessionIds, Exists(s)
      PROVE  rows'[s] = rows[s]
  BY <1>1 DEF IssueToken, FreshIds, TypeOK
<1>2. ASSUME NEW h \in Handlers, CommitRotate(h), NEW s \in SessionIds, Exists(s)
      PROVE  /\ rows'[s] # None /\ rows'[s].family = rows[s].family
             /\ rows'[s].user = rows[s].user
  <2>1. PICK o \in SessionIds, n \in SessionIds : Replaces(o, n)
    BY <1>2, RotateEffect
  <2>2. QED
    BY <1>2, <2>1 DEF Replaces, Exists
<1>3. QED
  BY <1>1, <1>2, MostStepsOnlyKill DEF OnlyDies, Exists

\* Locks stay within the family that the transaction works on.
LEMMA LocksStep ==
  ASSUME TypeOK, LockInv, LocksInv, ReadStaysTrue, [Next]_vars
  PROVE  LocksInv'
<1> USE NoneAssumption
<1> DEFINE Fam(s) == rows[s].family
<1>1. \A s \in SessionIds : Exists(s) => rows'[s].family = Fam(s)
  BY RowsStay
<1>2. CASE UNCHANGED <<lock, pc, req, pending>>
  BY <1>1, <1>2 DEF LocksInv, LockInv, ReadStaysTrue, TypeOK, Request
<1>3. ASSUME NEW h \in Handlers, Present(h) PROVE LocksInv'
  BY <1>3 DEF Present, table, LocksInv, TypeOK
<1>4. ASSUME NEW h \in Handlers, LoadCurrent(h) PROVE LocksInv'
  BY <1>4 DEF LoadCurrent, RowAvailable, Verdict, End, table, LocksInv, LockInv,
     TypeOK, Request
<1>5. ASSUME NEW h \in Handlers, StartFamilyUpdate(h) PROVE LocksInv'
  BY <1>5 DEF StartFamilyUpdate, FamilyRows, table, LocksInv, TypeOK
<1>6. ASSUME NEW h \in Handlers, LockFamilyRow(h) PROVE LocksInv'
  BY <1>6 DEF LockFamilyRow, table, LocksInv, TypeOK
<1>7. ASSUME NEW h \in Handlers, End(h) PROVE LocksInv'
  BY <1>1, <1>7 DEF End, LocksInv, LockInv, ReadStaysTrue, TypeOK, Request
<1>8. QED
  BY <1>2, <1>3, <1>4, <1>5, <1>6, <1>7
  DEF Next, Step, IssueToken, Lapse, CommitRotate, CommitRevoke, CommitReuse,
      AbortDeadlock, Abort, vars

\* The inductive invariant is inductive.
LEMMA IInvStep == IInv /\ [Next]_vars => IInv'
<1> SUFFICES ASSUME IInv, [Next]_vars PROVE IInv'
  OBVIOUS
<1>1. TypeOK' /\ LockInv' /\ LocksInv' /\ ReadStaysTrue'
  BY TypeStep, LockStep, LocksStep DEF IInv
<1>2. TableInv' /\ AtMostOneLive' /\ FamilyIsChain'
  BY IssueKeepsTable, RotateKeepsTable, MostStepsOnlyKill, OnlyDiesKeepsTable
  DEF IInv
<1>3. QED
  BY <1>1, <1>2 DEF IInv

\* The inductive invariant holds in every reachable state.
LEMMA Inductive == Spec => []IInv
BY InitIInv, IInvStep, PTL DEF Spec

\* The table and the state of every request on it stay well typed.
THEOREM TypeCorrect == Spec => []TypeOK
BY Inductive, PTL DEF IInv

\* The decision a transaction takes on its row is never stale at its commit.
THEOREM DecisionsAreFresh == Spec => []ReadStaysTrue
BY Inductive, PTL DEF IInv

\* A session family never forks, however many requests race on it.
THEOREM NoForkedFamily == Spec => []AtMostOneLive
BY Inductive, PTL DEF IInv

\* The rows of a family form one chain of recorded successors.
THEOREM FamiliesAreChains == Spec => []FamilyIsChain
BY Inductive, PTL DEF IInv
-----------------------------------------------------------------------------
\* While a family UPDATE is under way, a live row of its family is one that it
\* holds or will still lock, unless a rotation overtook it; and only families
\* that exist are announced.
ScanInv ==
  /\ \A f \in announced : Exists(f)
  /\ \A h \in Handlers, s \in SessionIds :
       /\ pc[h] = "scan" /\ Live(s) /\ rows[s].family = rows[req[h].id].family
       => s \in pending[h] \/ lock[s] = h \/ rows[s].family \in overtaken

\* A login: the family is new, so no UPDATE is about it and nobody heard of it.
LEMMA IssueKeepsScan ==
  ASSUME IInv, ScanInv, SurvivorsOvertookUpdate, NEW u \in Users, IssueToken(u)
  PROVE  ScanInv' /\ SurvivorsOvertookUpdate'
<1> USE DEF IInv
<1>1. PICK n \in SessionIds : ~Exists(n) /\ rows' = [rows EXCEPT ![n] = NewRow(u, n)]
  BY DEF IssueToken, FreshIds
<1>2. /\ rows'[n].family = n /\ rows'[n] # None
      /\ \A s \in SessionIds \ {n} : rows'[s] = rows[s]
  BY <1>1, NewRowFields DEF TypeOK
<1>3. UNCHANGED <<lock, pc, req, pending, announced, overtaken>>
  BY DEF IssueToken, history
<1>4. \A f \in announced : f \in SessionIds \ {n}
  BY <1>1 DEF ScanInv, TypeOK
<1>5. \A h \in Handlers : pc[h] = "scan" =>
        /\ req[h].id \in SessionIds \ {n}
        /\ rows[req[h].id].family \in SessionIds \ {n}
  <2> TAKE h \in Handlers
  <2> HAVE pc[h] = "scan"
  <2>1. req[h].id \in SessionIds /\ Exists(req[h].id)
    BY DEF LockInv, ReadStaysTrue, Request
  <2>2. rows[req[h].id].family \in SessionIds /\ Exists(rows[req[h].id].family)
    BY <2>1, RowFields DEF TableInv, TypeOK, Exists
  <2>3. QED
    BY <1>1, <2>1, <2>2
<1>6. ScanInv'
  BY <1>2, <1>3, <1>4, <1>5 DEF ScanInv, Live, Exists
<1>7. SurvivorsOvertookUpdate'
  BY <1>2, <1>3, <1>4 DEF SurvivorsOvertookUpdate, Live, Exists
<1>8. QED
  BY <1>6, <1>7

\* A rotation: if an UPDATE of the family is under way, it is overtaken now.
LEMMA RotateKeepsScan ==
  ASSUME IInv, ScanInv, SurvivorsOvertookUpdate, NEW h \in Handlers, CommitRotate(h)
  PROVE  ScanInv' /\ SurvivorsOvertookUpdate'
<1> USE DEF IInv
<1>1. PICK o \in SessionIds, n \in SessionIds : o = req[h].id /\ Replaces(o, n)
  BY RotateEffect
<1>2. Live(o) /\ ~Exists(n)
  BY <1>1 DEF Replaces
<1>4. /\ rows'[o] # None /\ rows'[o].family = rows[o].family /\ rows'[o].revoked
      /\ rows'[n] # None /\ rows'[n].family = rows[o].family
      /\ \A s \in SessionIds \ {o, n} : rows'[s] = rows[s]
  BY <1>1 DEF Replaces
<1>5. \A s \in SessionIds : Exists(s) => Exists(s)' /\ rows'[s].family = rows[s].family
  BY <1>2, <1>4 DEF Exists
<1>6. /\ UNCHANGED announced
      /\ overtaken' = overtaken \cup ({rows[o].family} \cap FamiliesInUpdate)
  BY <1>1 DEF CommitRotate
<1>7. SurvivorsOvertookUpdate'
  BY <1>2, <1>4, <1>6 DEF SurvivorsOvertookUpdate, Live, Exists
<1>8. ASSUME NEW g \in Handlers, NEW s \in SessionIds, pc'[g] = "scan", Live(s)',
             rows'[s].family = rows'[req'[g].id].family
      PROVE  s \in pending'[g] \/ lock'[s] = g \/ rows'[s].family \in overtaken'
  <2>1. /\ g # h /\ pc[g] = "scan" /\ req'[g] = req[g] /\ pending'[g] = pending[g]
        /\ lock[s] = g => lock'[s] = g
    BY <1>8 DEF CommitRotate, End, TypeOK
  <2>2. req[g].id \in SessionIds /\ Exists(req[g].id)
    BY <2>1 DEF LockInv, ReadStaysTrue, Request
  <2>3. rows'[s].family = rows[req[g].id].family
    BY <1>5, <1>8, <2>1, <2>2
  <2>4. CASE s = n
    BY <1>4, <1>6, <2>1, <2>3, <2>4 DEF FamiliesInUpdate
  <2>5. CASE s # n
    <3>1. Live(s) /\ rows[s].family = rows'[s].family
      BY <1>4, <1>8, <2>5 DEF Live, Exists
    <3>2. QED
      BY <1>6, <2>1, <2>3, <3>1 DEF ScanInv
  <2>6. QED
    BY <2>4, <2>5
<1>9. \A f \in announced' : Exists(f)'
  BY <1>5, <1>6 DEF ScanInv, TypeOK
<1>10. QED
  BY <1>7, <1>8, <1>9 DEF ScanInv

\* The steps that neither add a row nor end an UPDATE.
LEMMA OthersKeepScan ==
  ASSUME IInv, ScanInv, SurvivorsOvertookUpdate, OnlyDies, UNCHANGED history,
         \A g \in Handlers, s \in SessionIds : pc'[g] = "scan" =>
           \/ /\ pc[g] = "scan" /\ req'[g].id = req[g].id
              /\ s \in pending[g] \/ lock[s] = g => s \in pending'[g] \/ lock'[s] = g
           \/ /\ req'[g].id = req[g].id /\ req[g].id \in SessionIds
              /\ Exists(req[g].id)
              /\ Exists(s) /\ rows[s].family = rows[req[g].id].family =>
                   s \in pending'[g] \/ lock'[s] = g
  PROVE  ScanInv' /\ SurvivorsOvertookUpdate'
<1> USE DEF IInv, OnlyDies, history
<1>1. \A s \in SessionIds : Live(s)' => Live(s) /\ rows'[s].family = rows[s].family
  BY DEF Live, Exists
<1>2. SurvivorsOvertookUpdate'
  BY <1>1 DEF SurvivorsOvertookUpdate
<1>3. \A f \in announced' : Exists(f)'
  BY DEF ScanInv, TypeOK
<1>4. ASSUME NEW g \in Handlers, NEW s \in SessionIds, pc'[g] = "scan", Live(s)',
             rows'[s].family = rows'[req'[g].id].family
      PROVE  s \in pending'[g] \/ lock'[s] = g \/ rows'[s].family \in overtaken'
  <2>1. pc[g] = "scan" => req[g].id \in SessionIds /\ Exists(req[g].id)
    BY DEF LockInv, ReadStaysTrue, Request
  <2>2. rows[s].family = rows[req[g].id].family
    BY <1>1, <1>4, <2>1
  <2>3. QED
    BY <1>1, <1>4, <2>2 DEF ScanInv, Live
<1>5. QED
  BY <1>2, <1>3, <1>4 DEF ScanInv

\* The end of an UPDATE: whatever of the family it did not lock overtook it.
LEMMA ReuseKeepsScan ==
  ASSUME IInv, ScanInv, SurvivorsOvertookUpdate, NEW h \in Handlers, CommitReuse(h)
  PROVE  ScanInv' /\ SurvivorsOvertookUpdate'
<1> USE DEF IInv
<1>1. OnlyDies
  BY ReuseOnlyDies
<1>2. \A s \in SessionIds : lock[s] = h => rows[s] \in Row /\ rows'[s].revoked
  BY RevokedFields, NoneAssumption DEF CommitReuse, LockInv, Exists, TypeOK
<1>3. req[h].id \in SessionIds /\ Exists(req[h].id)
  BY DEF CommitReuse, LockInv, ReadStaysTrue, Request
<1>4. \A s \in SessionIds : Live(s)' =>
        Live(s) /\ rows'[s].family = rows[s].family /\ lock[s] # h
  BY <1>1, <1>2 DEF OnlyDies, Live, Exists
<1>5. /\ announced' = announced \cup {rows[req[h].id].family}
      /\ overtaken' = overtaken /\ pending[h] = {} /\ pc[h] = "scan"
  BY DEF CommitReuse
<1>6. SurvivorsOvertookUpdate'
  BY <1>4, <1>5 DEF SurvivorsOvertookUpdate, ScanInv
<1>7. \A f \in announced' : Exists(f)'
  <2>1. rows[req[h].id].family \in SessionIds /\ Exists(rows[req[h].id].family)
    BY <1>3, RowFields DEF TableInv, TypeOK, Exists
  <2>2. QED
    BY <1>1, <1>5, <2>1 DEF OnlyDies, ScanInv, TypeOK
<1>8. ASSUME NEW g \in Handlers, NEW s \in SessionIds, pc'[g] = "scan", Live(s)',
             rows'[s].family = rows'[req'[g].id].family
      PROVE  s \in pending'[g] \/ lock'[s] = g \/ rows'[s].family \in overtaken'
  <2>1. /\ g # h /\ pc[g] = "scan" /\ req'[g] = req[g] /\ pending'[g] = pending[g]
        /\ lock[s] = g => lock'[s] = g
    BY <1>8 DEF CommitReuse, End, TypeOK
  <2>2. req[g].id \in SessionIds /\ Exists(req[g].id)
    BY <2>1 DEF LockInv, ReadStaysTrue, Request
  <2>3. rows[s].family = rows[req[g].id].family
    BY <1>1, <1>4, <1>8, <2>1, <2>2 DEF OnlyDies
  <2>4. QED
    BY <1>4, <1>5, <1>8, <2>1, <2>3 DEF ScanInv
<1>9. QED
  BY <1>6, <1>7, <1>8 DEF ScanInv

\* What a step leaves of the progress of the family UPDATEs.
LEMMA ScanStep ==
  IInv /\ ScanInv /\ SurvivorsOvertookUpdate /\ [Next]_vars
    => ScanInv' /\ SurvivorsOvertookUpdate'
<1> SUFFICES ASSUME IInv, ScanInv, SurvivorsOvertookUpdate, [Next]_vars
             PROVE  ScanInv' /\ SurvivorsOvertookUpdate'
  OBVIOUS
<1> USE DEF IInv
<1>1. CASE UNCHANGED <<lock, pc, req, pending, history>> /\ OnlyDies
  BY <1>1, OthersKeepScan
<1>2. ASSUME NEW s \in SessionIds, Lapse(s) PROVE OnlyDies
  BY <1>2, LapseOnlyDies
<1>3. ASSUME UNCHANGED rows PROVE OnlyDies
  BY <1>3 DEF OnlyDies, Exists
<1>4. ASSUME NEW h \in Handlers, Present(h) PROVE ScanInv' /\ SurvivorsOvertookUpdate'
  BY <1>3, <1>4, OthersKeepScan DEF Present, table, TypeOK
<1>5. ASSUME NEW h \in Handlers, LoadCurrent(h)
      PROVE  ScanInv' /\ SurvivorsOvertookUpdate'
  <2>1. \A g \in Handlers, s \in SessionIds : pc'[g] = "scan" =>
          /\ pc[g] = "scan" /\ req'[g].id = req[g].id
          /\ s \in pending[g] \/ lock[s] = g => s \in pending'[g] \/ lock'[s] = g
    BY <1>5, NoneAssumption DEF LoadCurrent, RowAvailable, Verdict, End, TypeOK
  <2>2. QED
    BY <1>3, <1>5, <2>1, OthersKeepScan DEF LoadCurrent, table
<1>6. ASSUME NEW h \in Handlers, StartFamilyUpdate(h)
      PROVE  ScanInv' /\ SurvivorsOvertookUpdate'
  <2>1. req[h].id \in SessionIds /\ Exists(req[h].id)
    BY <1>6 DEF StartFamilyUpdate, LockInv, ReadStaysTrue, Request
  <2>2. QED
    BY <1>3, <1>6, <2>1, OthersKeepScan
    DEF StartFamilyUpdate, FamilyRows, table, TypeOK
<1>7. ASSUME NEW h \in Handlers, LockFamilyRow(h)
      PROVE  ScanInv' /\ SurvivorsOvertookUpdate'
  <2>1. \A g \in Handlers, s \in SessionIds : pc'[g] = "scan" =>
          /\ pc[g] = "scan" /\ req'[g].id = req[g].id
          /\ s \in pending[g] \/ lock[s] = g => s \in pending'[g] \/ lock'[s] = g
    BY <1>7, NoneAssumption DEF LockFamilyRow, table, TypeOK
  <2>2. QED
    BY <1>3, <1>7, <2>1, OthersKeepScan DEF LockFamilyRow, table
<1>8. ASSUME NEW h \in Handlers, End(h), OnlyDies, UNCHANGED history
      PROVE  ScanInv' /\ SurvivorsOvertookUpdate'
  <2>1. \A g \in Handlers, s \in SessionIds : pc'[g] = "scan" =>
          /\ pc[g] = "scan" /\ req'[g].id = req[g].id
          /\ s \in pending[g] \/ lock[s] = g => s \in pending'[g] \/ lock'[s] = g
    BY <1>8 DEF End, TypeOK
  <2>2. QED
    BY <1>8, <2>1, OthersKeepScan
<1>9. ASSUME NEW h \in Handlers, CommitRevoke(h)
      PROVE  ScanInv' /\ SurvivorsOvertookUpdate'
  BY <1>8, <1>9, RevokeOnlyDies DEF CommitRevoke
<1>10. ASSUME NEW h \in Handlers, AbortDeadlock(h) \/ Abort(h)
       PROVE  ScanInv' /\ SurvivorsOvertookUpdate'
  BY <1>3, <1>8, <1>10 DEF AbortDeadlock, Abort, table
<1>11. ASSUME NEW s \in SessionIds, Lapse(s)
       PROVE  ScanInv' /\ SurvivorsOvertookUpdate'
  BY <1>1, <1>2, <1>11 DEF Lapse
<1>12. CASE UNCHANGED vars
  BY <1>1, <1>3, <1>12 DEF vars
<1>13. QED
  BY <1>4, <1>5, <1>6, <1>7, <1>9, <1>10, <1>11, <1>12,
     IssueKeepsScan, RotateKeepsScan, ReuseKeepsScan
  DEF Next, Step

\* After a detected reuse nothing of the family is alive, but for a rotation
\* that committed while the rows of the family were being locked.
THEOREM ReuseEndsFamily == Spec => []SurvivorsOvertookUpdate
<1>1. Init => ScanInv /\ SurvivorsOvertookUpdate
  BY NoneAssumption DEF Init, ScanInv, SurvivorsOvertookUpdate, Live, Exists
<1>2. QED
  BY <1>1, ScanStep, Inductive, PTL DEF Spec
-----------------------------------------------------------------------------
\* A step of the table is a step of the promise, or none that it can see.
LEMMA StepImplements ==
  IInv /\ [Next]_vars => [Promise!Next]_(Promise!vars)
<1> SUFFICES ASSUME IInv, [Next]_vars PROVE [Promise!Next]_(Promise!vars)
  OBVIOUS
<1> USE DEF IInv
<1> DEFINE fam == [s \in SessionIds |-> IF Exists(s) THEN rows[s].family ELSE None]
           own == [s \in SessionIds |-> IF Exists(s) THEN rows[s].user ELSE None]
           liv == {s \in SessionIds : Live(s)}
<1>1. ASSUME NEW u \in Users, IssueToken(u) PROVE Promise!Next
  <2>1. PICK n \in SessionIds : ~Exists(n) /\ rows' = [rows EXCEPT ![n] = NewRow(u, n)]
    BY <1>1 DEF IssueToken, FreshIds
  <2>2. /\ rows'[n] # None /\ rows'[n].user = u /\ rows'[n].family = n
        /\ ~rows'[n].revoked
        /\ \A s \in SessionIds \ {n} : rows'[s] = rows[s]
    BY <2>1, NewRowFields DEF TypeOK
  <2>3. fam[n] = None
    BY <2>1
  <2>4. fam' = [fam EXCEPT ![n] = n] /\ own' = [own EXCEPT ![n] = u]
    BY <2>2 DEF Exists
  <2>5. liv' = liv \cup {n}
    BY <2>2 DEF Exists, Live
  <2>6. Promise!Open(n, u)
    BY <2>3, <2>4, <2>5 DEF Promise!Open
  <2>7. QED
    BY <2>6 DEF Promise!Next
<1>2. ASSUME NEW h \in Handlers, CommitRotate(h) PROVE Promise!Next
  <2>1. PICK o \in SessionIds, n \in SessionIds : Replaces(o, n)
    BY <1>2, RotateEffect
  <2>2. /\ o \in liv /\ fam[n] = None /\ fam[o] = rows[o].family
        /\ own[o] = rows[o].user /\ o # n
    BY <2>1 DEF Replaces, Live, Exists
  <2>3. fam' = [fam EXCEPT ![n] = fam[o]] /\ own' = [own EXCEPT ![n] = own[o]]
    <3>1. \A s \in SessionIds :
            fam'[s] = (IF s = n THEN fam[o] ELSE fam[s])
      BY <2>1, <2>2 DEF Replaces, Exists, Live
    <3>2. \A s \in SessionIds :
            own'[s] = (IF s = n THEN own[o] ELSE own[s])
      BY <2>1, <2>2 DEF Replaces, Exists, Live
    <3>3. QED
      BY <3>1, <3>2
  <2>4. liv' = (liv \ {o}) \cup {n}
    BY <2>1, <2>2 DEF Replaces, Exists, Live
  <2>5. Promise!Exchange(o, n)
    BY <2>2, <2>3, <2>4 DEF Promise!Exchange
  <2>6. QED
    BY <2>5 DEF Promise!Next
<1>3. ASSUME OnlyDies, NEW f \in SessionIds,
             \A s \in SessionIds : Live(s) /\ ~Live(s)' => rows[s].family = f
      PROVE  Promise!Next
  <2> DEFINE dead == {s \in SessionIds : Live(s) /\ ~Live(s)'}
  <2>1. fam' = fam /\ own' = own
    BY <1>3 DEF OnlyDies
  <2>2. liv' = liv \ dead
    BY <1>3 DEF OnlyDies, Live
  <2>3. \A s \in dead : fam[s] = f
    BY <1>3 DEF Live
  <2>4. Promise!Close(f, dead)
    BY <2>1, <2>2, <2>3 DEF Promise!Close
  <2>5. QED
    BY <2>4 DEF Promise!Next
<1>4. ASSUME NEW h \in Handlers, CommitRevoke(h) PROVE Promise!Next
  <2>1. req[h].id \in SessionIds /\ Exists(req[h].id)
    BY <1>4 DEF CommitRevoke, LockInv, ReadStaysTrue, Request
  <2>2. rows[req[h].id].family \in SessionIds
    BY <2>1, RowFields DEF Exists, TypeOK
  <2>3. \A s \in SessionIds \ {req[h].id} : rows'[s] = rows[s]
    BY <1>4, <2>1 DEF CommitRevoke, TypeOK
  <2>4. QED
    BY <1>3, <1>4, <2>2, <2>3, RevokeOnlyDies DEF Live, Exists
<1>5. ASSUME NEW h \in Handlers, CommitReuse(h) PROVE Promise!Next
  <2>1. req[h].id \in SessionIds /\ Exists(req[h].id)
    BY <1>5 DEF CommitReuse, LockInv, ReadStaysTrue, Request
  <2>2. rows[req[h].id].family \in SessionIds
    BY <2>1, RowFields DEF Exists, TypeOK
  <2>3. \A s \in SessionIds : lock[s] # h => rows'[s] = rows[s]
    BY <1>5 DEF CommitReuse
  <2>4. QED
    BY <1>3, <1>5, <2>2, <2>3, ReuseOnlyDies DEF LocksInv, Live, Exists
<1>6. ASSUME NEW s \in SessionIds, Lapse(s) PROVE UNCHANGED Promise!vars
  <2>1. rows[s] \in Row /\ OnlyDies
    BY <1>6, LapseOnlyDies DEF Lapse, Live, Exists, TypeOK
  <2>2. \A t \in SessionIds : Live(t)' <=> Live(t)
    BY <1>6, <2>1, LapsedFields DEF Lapse, Live, Exists, TypeOK
  <2>3. fam' = fam /\ own' = own /\ liv' = liv
    BY <2>1, <2>2 DEF OnlyDies
  <2>4. QED
    BY <2>3 DEF Promise!vars
<1>7. CASE UNCHANGED rows
  BY <1>7 DEF Promise!vars, Exists, Live
<1>8. QED
  BY <1>1, <1>2, <1>4, <1>5, <1>6, <1>7
  DEF Next, Step, Present, LoadCurrent, StartFamilyUpdate, LockFamilyRow,
      AbortDeadlock, Abort, table, vars

\* The refresh-session table implements the abstract session families.
THEOREM Refinement == Spec => ImplementsFamilies
<1>1. Init => Promise!Init
  BY DEF Init, Promise!Init, Exists, Live
<1>2. QED
  BY <1>1, StepImplements, Inductive, PTL
  DEF Spec, ImplementsFamilies, Promise!Spec
=============================================================================

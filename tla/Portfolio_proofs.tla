--------------------------- MODULE Portfolio_proofs ---------------------------
(* Theorems about Portfolio, for any sets of keys, days and handlers. *)
EXTENDS Portfolio, FiniteSetTheorems, TLAPS

(***************************************************************************)
(* The arithmetic of LeaseDates, for all dates.                            *)
(***************************************************************************)
\* Two valid ranges overlap, for the function of services/leases.py, exactly
\* when there is a day that both cover.
THEOREM OverlapMeansASharedDay ==
  ASSUME NEW a \in DateRange(Int), NEW b \in DateRange(Int)
  PROVE  date_ranges_overlap(a.starts, a.ends, b.starts, b.ends)
           <=> ShareADay(a, b, Int)
<1>1. /\ a.starts \in Int /\ b.starts \in Int
      /\ a.ends = None \/ (a.ends \in Int /\ a.starts <= a.ends)
      /\ b.ends = None \/ (b.ends \in Int /\ b.starts <= b.ends)
  BY NoneIsNoDate DEF DateRange
<1>2. ASSUME date_ranges_overlap(a.starts, a.ends, b.starts, b.ends)
      PROVE  ShareADay(a, b, Int)
  <2>1. CASE a.starts <= b.starts
    BY <1>1, <1>2, <2>1 DEF date_ranges_overlap, ShareADay, Covers
  <2>2. CASE ~(a.starts <= b.starts)
    BY <1>1, <1>2, <2>2 DEF date_ranges_overlap, ShareADay, Covers
  <2>3. QED
    BY <2>1, <2>2
<1>3. ASSUME ShareADay(a, b, Int)
      PROVE  date_ranges_overlap(a.starts, a.ends, b.starts, b.ends)
  BY <1>1, <1>3 DEF date_ranges_overlap, ShareADay, Covers
<1>4. QED
  BY <1>2, <1>3

\* The query of create_lease and the function it is tested by agree.
THEOREM QueryMeansOverlap ==
  ASSUME NEW a \in DateRange(Int), NEW b \in DateRange(Int)
  PROVE  query_matches(a, b.starts, b.ends)
           <=> date_ranges_overlap(a.starts, a.ends, b.starts, b.ends)
<1>1. /\ a.starts \in Int /\ b.starts \in Int
      /\ a.ends = None \/ a.ends \in Int
      /\ b.ends = None \/ b.ends \in Int
  BY DEF DateRange
<1>2. QED
  BY <1>1 DEF query_matches, date_ranges_overlap

\* The order of the two ranges does not matter.
THEOREM OverlapIsSymmetric ==
  ASSUME NEW a \in DateRange(Int), NEW b \in DateRange(Int)
  PROVE  date_ranges_overlap(a.starts, a.ends, b.starts, b.ends)
           <=> date_ranges_overlap(b.starts, b.ends, a.starts, a.ends)
BY DEF date_ranges_overlap
-----------------------------------------------------------------------------
(***************************************************************************)
(* The portfolio.                                                          *)
(***************************************************************************)
\* A request past its look-up names rows of its organization; one that passed
\* the check clashes with no lease it saw, and what was seen exists.
RequestInv ==
  \A h \in Handlers :
    /\ pc[h] # "idle" => asked[h] \in Lease
    /\ pc[h] \in {"check", "insert"} => Found(asked[h])
    /\ pc[h] # "insert" => saw[h] = {}
    /\ \A l \in saw[h] :
         /\ l \in Rows(leases)
         /\ leases[l].unit = asked[h].unit /\ leases[l].status = "active" =>
              ~date_ranges_overlap(leases[l].starts, leases[l].ends,
                                   asked[h].starts, asked[h].ends)

SeenExist == \A l \in LeaseIds : seenBy[l] \subseteq Rows(leases)

\* Leases that all share a day two by two, and the requests that are about to
\* add one more to them: active ones whose check was before all of them.
Pairwise(S) == \A k, l \in S : k # l => Clash(k, l)
Contenders(S) ==
  {h \in Handlers : /\ pc[h] = "insert" /\ asked[h].status = "active"
                    /\ saw[h] \cap S = {}}

\* Each lease of such a set has taken away one of the contenders it started with.
CountInv ==
  /\ IsFiniteSet(Rows(leases))
  /\ \A S \in SUBSET Rows(leases) :
       S # {} /\ Pairwise(S) =>
         Cardinality(S) + Cardinality(Contenders(S)) <= Cardinality(Handlers)

\* The inductive invariant.
IInv ==
  /\ TypeOK /\ RequestInv /\ SeenExist
  /\ OrganizationsStayApart /\ ClashesWereUnseen /\ CountInv

\* It holds of the empty portfolio.
LEMMA InitIInv == Init => IInv
BY FS_EmptySet
DEF Init, IInv, TypeOK, RequestInv, SeenExist, OrganizationsStayApart,
    ClashesWereUnseen, CountInv, Rows

\* The fields of a lease.
LEMMA LeaseFields ==
  ASSUME NEW x \in Lease
  PROVE  /\ x.org \in Orgs /\ x.unit \in UnitIds /\ x.tenant \in ProfileIds
         /\ x.status \in {"draft", "active"}
         /\ x.starts \in Int /\ (x.ends = None \/ x.ends \in Int) /\ x # None
<1>1. PICK o \in Orgs, u \in UnitIds, t \in ProfileIds, st \in {"draft", "active"},
           r \in DateRange(Days) :
        x = [org |-> o, unit |-> u, tenant |-> t, status |-> st,
             starts |-> r.starts, ends |-> r.ends]
  BY DEF Lease
<1>2. r.starts \in Days /\ r.ends \in Days \cup {None}
  BY DEF DateRange
<1>3. x # None
  BY NoneIsNoRow
<1>4. QED
  BY <1>1, <1>2, <1>3, DaysAreDates

\* Leases that share a day overlap, from whichever side one looks.
LEMMA SharedDayOverlaps ==
  ASSUME NEW x \in Lease, NEW y \in Lease, ShareADay(x, y, Days)
  PROVE  date_ranges_overlap(y.starts, y.ends, x.starts, x.ends)
<1>1. PICK day \in Days : Covers(x, day) /\ Covers(y, day)
  BY DEF ShareADay
<1>2. QED
  BY <1>1, LeaseFields, DaysAreDates, NoneIsNoDate DEF Covers, date_ranges_overlap

\* Every step keeps the type invariant.
LEMMA TypeStep == TypeOK /\ RequestInv /\ [Next]_vars => TypeOK'
<1> SUFFICES ASSUME TypeOK, RequestInv, [Next]_vars PROVE TypeOK'
  OBVIOUS
<1> USE DEF TypeOK
<1>1. ASSUME NEW o \in Orgs, CreateProperty(o) PROVE TypeOK'
  BY <1>1 DEF CreateProperty, Unused, requests
<1>2. ASSUME NEW o \in Orgs, CreateUnit(o) PROVE TypeOK'
  BY <1>2 DEF CreateUnit, Unused, requests, Unit
<1>3. ASSUME NEW o \in Orgs, CreateTenant(o) PROVE TypeOK'
  BY <1>3 DEF CreateTenant, Unused, requests
<1>4. ASSUME NEW h \in Handlers, AskForLease(h) PROVE TypeOK'
  BY <1>4 DEF AskForLease
<1>5. ASSUME NEW h \in Handlers, LookUp(h) PROVE TypeOK'
  BY <1>5 DEF LookUp, NextCheck, Answer
<1>6. ASSUME NEW h \in Handlers, CheckOverlap(h) PROVE TypeOK'
  BY <1>6 DEF CheckOverlap, Answer, Rows
<1>7. ASSUME NEW h \in Handlers, InsertLease(h) PROVE TypeOK'
  BY <1>7 DEF InsertLease, Answer, Unused, RequestInv
<1>8. ASSUME NEW h \in Handlers, Abort(h) PROVE TypeOK'
  BY <1>8 DEF Abort, Answer
<1>9. CASE UNCHANGED vars
  BY <1>9 DEF vars, requests
<1>10. QED
  BY <1>1, <1>2, <1>3, <1>4, <1>5, <1>6, <1>7, <1>8, <1>9 DEF Next

\* What was found stays found: rows are only ever added.
LEMMA RowsStay ==
  ASSUME TypeOK, [Next]_vars
  PROVE  /\ \A p \in PropertyIds : properties[p] # None => properties'[p] = properties[p]
         /\ \A u \in UnitIds : units[u] # None => units'[u] = units[u]
         /\ \A t \in ProfileIds : profiles[t] # None => profiles'[t] = profiles[t]
         /\ \A l \in LeaseIds : leases[l] # None =>
              leases'[l] = leases[l] /\ seenBy'[l] = seenBy[l]
<1>1. ASSUME NEW o \in Orgs, CreateProperty(o) \/ CreateUnit(o) \/ CreateTenant(o)
      PROVE  /\ \A p \in PropertyIds : properties[p] # None => properties'[p] = properties[p]
             /\ \A u \in UnitIds : units[u] # None => units'[u] = units[u]
             /\ \A t \in ProfileIds : profiles[t] # None => profiles'[t] = profiles[t]
             /\ leases' = leases /\ seenBy' = seenBy
  BY <1>1 DEF CreateProperty, CreateUnit, CreateTenant, Unused, TypeOK, requests
<1>2. ASSUME NEW h \in Handlers, InsertLease(h)
      PROVE  /\ UNCHANGED <<properties, units, profiles>>
             /\ \A l \in LeaseIds : leases[l] # None =>
                  leases'[l] = leases[l] /\ seenBy'[l] = seenBy[l]
  BY <1>2 DEF InsertLease, Unused, TypeOK
<1>3. ASSUME NEW h \in Handlers,
             AskForLease(h) \/ LookUp(h) \/ CheckOverlap(h) \/ Abort(h)
      PROVE  UNCHANGED <<properties, units, profiles, leases, seenBy>>
  BY <1>3 DEF AskForLease, LookUp, CheckOverlap, Abort
<1>4. QED
  BY <1>1, <1>2, <1>3 DEF Next, vars

\* The rows that exist go on existing, so a look-up that succeeded stays valid.
LEMMA FoundStays ==
  ASSUME TypeOK, [Next]_vars, NEW x \in Lease, Found(x) PROVE Found(x)'
BY RowsStay, LeaseFields, NoneIsNoRow DEF Found, TypeOK

\* Requests: what the check saw and rejected stays what it was.
LEMMA RequestStep ==
  ASSUME TypeOK, RequestInv, OrganizationsStayApart, [Next]_vars, TypeOK' PROVE RequestInv'
<1>1. \A l \in Rows(leases) : l \in Rows(leases)' /\ leases'[l] = leases[l]
  BY RowsStay DEF Rows, TypeOK
<1>2. CASE UNCHANGED requests
  BY <1>1, <1>2, FoundStays DEF RequestInv, requests, TypeOK
<1>3. ASSUME NEW h \in Handlers, AskForLease(h) PROVE RequestInv'
  BY <1>3, FoundStays DEF AskForLease, RequestInv, TypeOK, Rows
<1>4. ASSUME NEW h \in Handlers, LookUp(h) PROVE RequestInv'
  <2>1. \A x : Found(x)' <=> Found(x)
    BY <1>4 DEF LookUp, Found
  <2>2. Rows(leases)' = Rows(leases)
    BY <1>4 DEF LookUp
  <2>3. UNCHANGED leases
    BY <1>4 DEF LookUp
  <2>4. CASE Found(asked[h])
    BY <1>4, <2>1, <2>2, <2>3, <2>4 DEF LookUp, NextCheck, RequestInv, TypeOK
  <2>5. CASE ~Found(asked[h])
    BY <1>4, <2>1, <2>2, <2>3, <2>5 DEF LookUp, Answer, RequestInv, TypeOK
  <2>6. QED
    BY <2>4, <2>5
<1>5. ASSUME NEW h \in Handlers, CheckOverlap(h) PROVE RequestInv'
  <2>1. /\ \A x : Found(x)' <=> Found(x)
        /\ Rows(leases)' = Rows(leases) /\ UNCHANGED leases
    BY <1>5 DEF CheckOverlap, Found
  <2>2. CASE Hits(asked[h]) = {}
    <3>1. asked[h] \in Lease /\ Found(asked[h])
      BY <1>5 DEF CheckOverlap, RequestInv
    <3>2. ASSUME NEW l \in Rows(leases), leases[l].unit = asked[h].unit,
                 leases[l].status = "active"
          PROVE  ~date_ranges_overlap(leases[l].starts, leases[l].ends,
                                      asked[h].starts, asked[h].ends)
      <4>1. leases[l] \in Lease
        BY DEF Rows, TypeOK
      <4>2. leases[l].org = asked[h].org
        BY <3>1, <3>2 DEF OrganizationsStayApart, Found
      <4>3. ~query_matches(leases[l], asked[h].starts, asked[h].ends)
        BY <2>2, <3>2, <4>2 DEF Hits
      <4>4. QED
        BY <3>1, <4>1, <4>3, LeaseFields, NoneIsNoDate
        DEF query_matches, date_ranges_overlap
    <3>3. QED
      BY <1>5, <2>1, <2>2, <3>1, <3>2 DEF CheckOverlap, RequestInv, TypeOK
  <2>3. CASE Hits(asked[h]) # {}
    BY <1>5, <2>1, <2>3 DEF CheckOverlap, Answer, RequestInv, TypeOK
  <2>4. QED
    BY <2>2, <2>3
<1>6. ASSUME NEW h \in Handlers, Answer(h, "201") \/ Answer(h, "none")
      PROVE  RequestInv'
  <2>1. /\ saw'[h] = {} /\ pc'[h] = "idle"
        /\ \A g \in Handlers \ {h} :
             pc'[g] = pc[g] /\ asked'[g] = asked[g] /\ saw'[g] = saw[g]
    BY <1>6 DEF Answer, TypeOK
  <2>2. ASSUME NEW x \in Lease, Found(x) PROVE Found(x)'
    BY <2>2, FoundStays
  <2>3. QED
    BY <1>1, <2>1, <2>2 DEF RequestInv
<1>7. QED
  BY <1>2, <1>3, <1>4, <1>5, <1>6
  DEF Next, CreateProperty, CreateUnit, CreateTenant, InsertLease, Abort, vars

\* References across tables stay within an organization.
LEMMA ApartStep ==
  ASSUME TypeOK, RequestInv, OrganizationsStayApart, [Next]_vars, TypeOK'
  PROVE  OrganizationsStayApart'
<1>1. \A u \in Rows(units) : properties[units[u].property] # None
  BY NoneIsNoRow DEF OrganizationsStayApart, TypeOK, Rows, Unit
<1>2. \A l \in Rows(leases) : Found(leases[l]) /\ leases[l] \in Lease
  BY NoneIsNoRow, LeaseFields DEF OrganizationsStayApart, TypeOK, Rows, Found
<1>3. \A u \in Rows(units)' : properties'[units'[u].property] = units'[u].org
  <2>1. CASE UNCHANGED units
    BY <1>1, <2>1, RowsStay DEF OrganizationsStayApart, TypeOK, Rows, Unit
  <2>2. ASSUME NEW o \in Orgs, CreateUnit(o) PROVE <1>3
    BY <2>2 DEF CreateUnit, UnitAllowed, Unused, OrganizationsStayApart, TypeOK,
       Rows, requests
  <2>3. QED
    BY <2>1, <2>2
    DEF Next, CreateProperty, CreateTenant, AskForLease, LookUp, CheckOverlap,
        InsertLease, Abort, vars
<1>4. \A l \in Rows(leases)' : Found(leases[l])' /\ leases'[l] \in Lease
  <2>1. CASE UNCHANGED leases
    BY <1>2, <2>1, FoundStays DEF Rows
  <2>2. ASSUME NEW h \in Handlers, InsertLease(h) PROVE <1>4
    <3>1. asked[h] \in Lease /\ Found(asked[h])
      BY <2>2 DEF InsertLease, RequestInv
    <3>2. \A x : Found(x)' <=> Found(x)
      BY <2>2 DEF InsertLease, Found
    <3>3. QED
      BY <1>2, <2>2, <3>1, <3>2 DEF InsertLease, Unused, Rows, TypeOK
  <2>3. QED
    BY <2>1, <2>2
    DEF Next, CreateProperty, CreateUnit, CreateTenant, AskForLease, LookUp,
        CheckOverlap, Abort, vars
<1>5. QED
  BY <1>3, <1>4 DEF OrganizationsStayApart, Found

\* A new lease clashes with none that its check saw, and none saw it.
LEMMA ClashStep ==
  ASSUME TypeOK, RequestInv, SeenExist, ClashesWereUnseen, [Next]_vars, TypeOK'
  PROVE  SeenExist' /\ ClashesWereUnseen'
<1>1. CASE UNCHANGED <<leases, seenBy>>
  BY <1>1 DEF SeenExist, ClashesWereUnseen, Clash, Rows
<1>2. ASSUME NEW h \in Handlers, InsertLease(h) PROVE SeenExist' /\ ClashesWereUnseen'
  <2>1. PICK n \in LeaseIds : /\ leases[n] = None
                              /\ leases' = [leases EXCEPT ![n] = asked[h]]
                              /\ seenBy' = [seenBy EXCEPT ![n] = saw[h]]
    BY <1>2 DEF InsertLease, Unused, TypeOK
  <2>2. asked[h] \in Lease /\ asked[h] # None
    BY <1>2, LeaseFields DEF InsertLease, RequestInv
  <2>3. /\ leases'[n] = asked[h] /\ seenBy'[n] = saw[h] /\ n \notin Rows(leases)
        /\ Rows(leases)' = Rows(leases) \cup {n}
        /\ \A l \in LeaseIds \ {n} : leases'[l] = leases[l] /\ seenBy'[l] = seenBy[l]
    BY <2>1, <2>2 DEF TypeOK, Rows
  <2>4. SeenExist'
    BY <2>3 DEF SeenExist, RequestInv
  <2>5. ASSUME NEW k \in Rows(leases)', NEW l \in Rows(leases)', Clash(k, l)',
               l \in seenBy'[k]
        PROVE  FALSE
    <3>1. k \in LeaseIds /\ l \in LeaseIds
      BY DEF Rows, TypeOK
    <3>2. CASE k = n
      <4>1. l \in saw[h] /\ l # n
        BY <2>3, <2>5, <3>2 DEF Clash
      <4>2. leases[l].unit = asked[h].unit /\ leases[l].status = "active"
        BY <2>3, <2>5, <3>1, <3>2, <4>1 DEF Clash
      <4>3. ShareADay(asked[h], leases[l], Days)
        BY <2>3, <2>5, <3>1, <3>2, <4>1 DEF Clash
      <4>4. date_ranges_overlap(leases[l].starts, leases[l].ends,
                                asked[h].starts, asked[h].ends)
        <5>1. l \in Rows(leases) /\ leases[l] \in Lease
          BY <3>1, <4>1 DEF RequestInv, Rows, TypeOK
        <5>2. QED
          BY <2>2, <4>3, <5>1, SharedDayOverlaps
      <4>5. QED
        BY <4>1, <4>2, <4>4 DEF RequestInv
    <3>3. CASE k # n /\ l = n
      BY <2>3, <2>5, <3>1, <3>3 DEF SeenExist
    <3>4. CASE k # n /\ l # n
      BY <2>3, <2>5, <3>1, <3>4 DEF ClashesWereUnseen, Clash
    <3>5. QED
      BY <3>2, <3>3, <3>4
  <2>6. \A k, l \in Rows(leases)' : Clash(k, l)' => Clash(l, k)'
    BY DEF Clash, ShareADay
  <2>7. QED
    BY <2>4, <2>5, <2>6 DEF ClashesWereUnseen
<1>3. QED
  BY <1>1, <1>2
  DEF Next, CreateProperty, CreateUnit, CreateTenant, AskForLease, LookUp,
      CheckOverlap, Abort, vars

\* A set of contenders is a set of handlers, and it can only shrink.
LEMMA Fewer ==
  ASSUME NEW S, NEW T, S \subseteq T, T \subseteq Handlers
  PROVE  /\ IsFiniteSet(S) /\ Cardinality(S) \in Nat
         /\ Cardinality(T) \in Nat /\ Cardinality(S) <= Cardinality(T)
         /\ \A h \in T \ S : Cardinality(S) + 1 <= Cardinality(T)
<1>1. IsFiniteSet(T) /\ IsFiniteSet(S)
  BY HandlersAreFinite, FS_Subset
<1>2. Cardinality(S) \in Nat /\ Cardinality(T) \in Nat /\ Cardinality(S) <= Cardinality(T)
  BY <1>1, FS_Subset, FS_CardinalityType
<1>3. ASSUME NEW h \in T \ S PROVE Cardinality(S) # Cardinality(T)
  BY <1>1, <1>3, FS_Subset
<1>4. QED
  BY <1>1, <1>2, <1>3

\* While no lease is added, no request becomes a contender of leases that are
\* there: one that passes the check has seen them.
LEMMA ContendersShrink ==
  ASSUME TypeOK, [Next]_vars, UNCHANGED leases,
         NEW S \in SUBSET Rows(leases), S # {}
  PROVE  Contenders(S)' \subseteq Contenders(S)
<1> USE DEF TypeOK, Contenders
<1>1. CASE UNCHANGED requests
  BY <1>1 DEF requests
<1>2. ASSUME NEW h \in Handlers, AskForLease(h) PROVE Contenders(S)' \subseteq Contenders(S)
  BY <1>2 DEF AskForLease
<1>3. ASSUME NEW h \in Handlers, LookUp(h) PROVE Contenders(S)' \subseteq Contenders(S)
  BY <1>3 DEF LookUp, NextCheck, Answer
<1>4. ASSUME NEW h \in Handlers, CheckOverlap(h) PROVE Contenders(S)' \subseteq Contenders(S)
  BY <1>4 DEF CheckOverlap, Answer
<1>5. ASSUME NEW h \in Handlers, Answer(h, "201") \/ Answer(h, "none")
      PROVE  Contenders(S)' \subseteq Contenders(S)
  BY <1>5 DEF Answer
<1>6. QED
  BY <1>1, <1>2, <1>3, <1>4, <1>5
  DEF Next, CreateProperty, CreateUnit, CreateTenant, InsertLease, Abort, vars

\* The account of leases and contenders: a request that adds a lease to a set of
\* clashing ones was a contender of it and is none of the larger set.
LEMMA CountStep ==
  ASSUME TypeOK, RequestInv, CountInv, [Next]_vars, TypeOK' PROVE CountInv'
<1>1. CASE UNCHANGED leases
  <2>1. Rows(leases)' = Rows(leases) /\ \A S : Pairwise(S)' <=> Pairwise(S)
    BY <1>1 DEF Rows, Pairwise, Clash
  <2>2. ASSUME NEW S \in SUBSET Rows(leases), S # {}, Pairwise(S)
        PROVE  Cardinality(S) + Cardinality(Contenders(S)') <= Cardinality(Handlers)
    <3>1. IsFiniteSet(S) /\ Cardinality(S) \in Nat
      BY FS_Subset, FS_CardinalityType DEF CountInv
    <3>2. Contenders(S)' \subseteq Contenders(S) /\ Contenders(S) \subseteq Handlers
      BY <1>1, <2>2, ContendersShrink DEF Contenders
    <3>3. /\ Cardinality(Contenders(S)') \in Nat /\ Cardinality(Contenders(S)) \in Nat
          /\ Cardinality(Contenders(S)') <= Cardinality(Contenders(S))
      BY <3>2, Fewer
    <3>4. Cardinality(S) + Cardinality(Contenders(S)) <= Cardinality(Handlers)
      BY <2>2 DEF CountInv
    <3>5. Cardinality(Handlers) \in Nat
      BY HandlersAreFinite, FS_CardinalityType
    <3>6. QED
      BY <3>1, <3>3, <3>4, <3>5
  <2>3. QED
    BY <2>1, <2>2 DEF CountInv
<1>2. ASSUME NEW h \in Handlers, InsertLease(h) PROVE CountInv'
  <2>1. PICK n \in LeaseIds : leases[n] = None /\ leases' = [leases EXCEPT ![n] = asked[h]]
    BY <1>2 DEF InsertLease, Unused, TypeOK
  <2>2. asked[h] \in Lease /\ asked[h] # None /\ pc[h] = "insert"
    BY <1>2, LeaseFields DEF InsertLease, RequestInv
  <2>3. /\ leases'[n] = asked[h] /\ n \notin Rows(leases)
        /\ Rows(leases)' = Rows(leases) \cup {n}
        /\ \A l \in Rows(leases) : leases'[l] = leases[l] /\ leases[l] \in Lease
    BY <2>1, <2>2 DEF TypeOK, Rows
  <2>4. IsFiniteSet(Rows(leases)')
    BY <2>3, FS_AddElement DEF CountInv
  <2>5. \A S : Contenders(S)' \subseteq {g \in Contenders(S) : g # h}
    BY <1>2 DEF InsertLease, Answer, Contenders, TypeOK
  <2>6. Cardinality(Handlers) \in Nat
    BY HandlersAreFinite, FS_CardinalityType
  <2>7. ASSUME NEW S \in SUBSET Rows(leases)', S # {}, Pairwise(S)'
        PROVE  Cardinality(S) + Cardinality(Contenders(S)') <= Cardinality(Handlers)
    <3> DEFINE R == S \ {n}
    <3>1. R \subseteq Rows(leases) /\ IsFiniteSet(R) /\ Cardinality(R) \in Nat
      <4>1. R \subseteq Rows(leases)
        BY <2>3
      <4>2. QED
        BY <4>1, FS_Subset, FS_CardinalityType DEF CountInv
    <3>2. Pairwise(R)
      BY <2>3, <2>7, <3>1 DEF Pairwise, Clash
    <3>3. CASE n \notin S
      <4>1. R = S
        BY <3>3
      <4>2. Cardinality(S) + Cardinality(Contenders(S)) <= Cardinality(Handlers)
        BY <2>7, <3>1, <3>2, <4>1 DEF CountInv
      <4>3. /\ Cardinality(Contenders(S)') \in Nat /\ Cardinality(Contenders(S)) \in Nat
            /\ Cardinality(Contenders(S)') <= Cardinality(Contenders(S))
        <5>1. Contenders(S)' \subseteq Contenders(S) /\ Contenders(S) \subseteq Handlers
          BY <2>5 DEF Contenders
        <5>2. QED
          BY <5>1, Fewer
      <4>4. Cardinality(S) \in Nat
        BY <3>1, <4>1
      <4>5. QED
        BY <2>6, <4>2, <4>3, <4>4
    <3>4. CASE n \in S /\ R = {}
      <4>1. Cardinality(S) = 1
        <5>1. S = {n}
          BY <3>4
        <5>2. QED
          BY <5>1, FS_Singleton
      <4>2. /\ Cardinality(Contenders(S)') \in Nat
            /\ Cardinality(Contenders(S)') + 1 <= Cardinality(Handlers)
        <5>1. Contenders(S)' \subseteq Handlers /\ h \in Handlers \ Contenders(S)'
          BY <2>5 DEF Contenders
        <5>2. QED
          BY <5>1, Fewer
      <4>3. QED
        BY <2>6, <4>1, <4>2
    <3>5. CASE n \in S /\ R # {}
      <4>1. Cardinality(S) = Cardinality(R) + 1
        <5>1. S = R \cup {n} /\ n \notin R
          BY <3>5
        <5>2. QED
          BY <3>1, <5>1, FS_AddElement
      <4>2. \A l \in R : /\ leases[l].unit = asked[h].unit /\ leases[l].status = "active"
                         /\ asked[h].status = "active"
                         /\ ShareADay(asked[h], leases[l], Days)
        BY <2>3, <2>7, <3>1, <3>5 DEF Pairwise, Clash
      <4>3. \A l \in R : l \notin saw[h]
        <5> SUFFICES ASSUME NEW l \in R, l \in saw[h] PROVE FALSE
          OBVIOUS
        <5>1. leases[l] \in Lease
          BY <2>3, <3>1
        <5>2. date_ranges_overlap(leases[l].starts, leases[l].ends,
                                  asked[h].starts, asked[h].ends)
          BY <2>2, <4>2, <5>1, SharedDayOverlaps
        <5>3. QED
          BY <4>2, <5>2 DEF RequestInv
      <4>4. h \in Contenders(R)
        BY <2>2, <3>5, <4>2, <4>3 DEF Contenders
      <4>5. Contenders(S)' \subseteq Contenders(R) /\ h \notin Contenders(S)'
        BY <2>5 DEF Contenders
      <4>6. /\ Cardinality(Contenders(S)') \in Nat /\ Cardinality(Contenders(R)) \in Nat
            /\ Cardinality(Contenders(S)') + 1 <= Cardinality(Contenders(R))
        <5>1. Contenders(R) \subseteq Handlers /\ h \in Contenders(R) \ Contenders(S)'
          BY <4>4, <4>5 DEF Contenders
        <5>2. QED
          BY <4>5, <5>1, Fewer
      <4>7. Cardinality(R) + Cardinality(Contenders(R)) <= Cardinality(Handlers)
        BY <3>1, <3>2, <3>5 DEF CountInv
      <4>8. QED
        BY <2>6, <3>1, <4>1, <4>6, <4>7
    <3>6. QED
      BY <3>3, <3>4, <3>5
  <2>8. QED
    BY <2>4, <2>7 DEF CountInv
<1>3. QED
  BY <1>1, <1>2
  DEF Next, CreateProperty, CreateUnit, CreateTenant, AskForLease, LookUp,
      CheckOverlap, Abort, vars

\* The inductive invariant is inductive.
LEMMA IInvStep == IInv /\ [Next]_vars => IInv'
BY TypeStep, RequestStep, ApartStep, ClashStep, CountStep DEF IInv

\* The inductive invariant holds in every reachable state.
LEMMA Inductive == Spec => []IInv
BY InitIInv, IInvStep, PTL DEF Spec

\* The tables and the requests stay well typed.
THEOREM TypeCorrect == Spec => []TypeOK
BY Inductive, PTL DEF IInv

\* No unit, profile or lease ever refers into another organization.
THEOREM NoReferenceLeavesItsOrganization == Spec => []OrganizationsStayApart
BY Inductive, PTL DEF IInv

\* Active leases of a unit overlap only if neither check saw the other lease.
THEOREM OnlyUnseenLeasesClash == Spec => []ClashesWereUnseen
BY Inductive, PTL DEF IInv

\* However long the portfolio runs, no day of a unit is booked more often than
\* there can be POST /leases in flight at once.
THEOREM NoMoreThanInFlight == Spec => []OverbookingBounded
<1>1. IInv => OverbookingBounded
  <2> SUFFICES ASSUME IInv, NEW S \in SUBSET Rows(leases), Pairwise(S)
               PROVE  Cardinality(S) <= 1 \/ Cardinality(S) <= Cardinality(Handlers)
    BY DEF OverbookingBounded, Pairwise
  <2>1. CASE S = {}
    BY <2>1, FS_EmptySet
  <2>2. CASE S # {}
    <3>1. Cardinality(S) \in Nat
      BY FS_Subset, FS_CardinalityType DEF IInv, CountInv
    <3>2. Cardinality(Contenders(S)) \in Nat /\ Cardinality(Handlers) \in Nat
      BY Fewer DEF Contenders
    <3>3. Cardinality(S) + Cardinality(Contenders(S)) <= Cardinality(Handlers)
      BY <2>2 DEF IInv, CountInv
    <3>4. QED
      BY <3>1, <3>2, <3>3
  <2>3. QED
    BY <2>1, <2>2
<1>2. QED
  BY <1>1, Inductive, PTL

\* Double bookings come from requests in flight together and from nothing else:
\* where POST /leases are served one at a time, no two active leases of a unit
\* share a day.
THEOREM SerialRequestsNeverClash ==
  ASSUME Cardinality(Handlers) <= 1 PROVE Spec => []NoDoubleBooking
<1>1. IInv => NoDoubleBooking
  <2> SUFFICES ASSUME IInv, NEW k \in Rows(leases), NEW l \in Rows(leases), Clash(k, l)
               PROVE  FALSE
    BY DEF NoDoubleBooking
  <2>1. k # l /\ Clash(l, k)
    BY DEF Clash, ShareADay
  <2>2. {k, l} \in SUBSET Rows(leases) /\ {k, l} # {} /\ Pairwise({k, l})
    BY <2>1 DEF Pairwise
  <2>3. Cardinality({k, l}) = 2
    <3>1. IsFiniteSet({k}) /\ Cardinality({k}) = 1
      BY FS_Singleton
    <3>2. {k, l} = {k} \cup {l} /\ l \notin {k}
      BY <2>1
    <3>3. QED
      BY <3>1, <3>2, FS_AddElement
  <2>4. Cardinality({k, l}) + Cardinality(Contenders({k, l})) <= Cardinality(Handlers)
    BY <2>2 DEF IInv, CountInv
  <2>5. Cardinality(Contenders({k, l})) \in Nat /\ Cardinality(Handlers) \in Nat
    BY Fewer DEF Contenders
  <2>6. QED
    BY <2>3, <2>4, <2>5
<1>2. QED
  BY <1>1, Inductive, PTL
=============================================================================

------------------------------ MODULE Portfolio ------------------------------
(***************************************************************************)
(* Properties, units, tenant profiles and leases of the organizations:     *)
(* api/routes/properties.py and api/routes/leases.py.  Nothing here is     *)
(* ever deleted.  Creating a property, a unit or a profile depends only on *)
(* rows that stay, so each is one step; POST /leases reads the leases of   *)
(* the unit and inserts later, without a lock between, so it is three.     *)
(***************************************************************************)
EXTENDS LeaseDates, FiniteSets

CONSTANTS
  Orgs, Labels, Days,
  PropertyIds, UnitIds, ProfileIds, LeaseIds,   \* keys the database can assign
  Handlers                                      \* POST /leases in flight at once

VARIABLES
  properties,   \* PropertyIds -> the organization, or None
  units,        \* UnitIds -> unit row, or None
  profiles,     \* ProfileIds -> the organization, or None
  leases,       \* LeaseIds -> lease row, or None
  pc, asked,    \* per handler: the step and the lease row it is to create
  saw,          \* history, per handler: the leases its check could see
  seenBy,       \* history, per lease: those its check saw
  answer        \* per handler: status of the answer to the last request

requests == <<pc, asked, saw, answer>>
vars == <<properties, units, profiles, leases, requests, seenBy>>

\* Of the lease statuses only "active" matters here; "draft" stands for the rest.
Unit == [org : Orgs, property : PropertyIds, label : Labels]
Lease == {[org |-> o, unit |-> u, tenant |-> t, status |-> st,
           starts |-> r.starts, ends |-> r.ends] :
            o \in Orgs, u \in UnitIds, t \in ProfileIds,
            st \in {"draft", "active"}, r \in DateRange(Days)}
NoLease == [status |-> "none"]

ASSUME NoneIsNoRow == None \notin Orgs /\ None \notin Unit /\ None \notin Lease
ASSUME DaysAreDates == Days \subseteq Int
ASSUME HandlersAreFinite == IsFiniteSet(Handlers)

Rows(table) == {k \in DOMAIN table : table[k] # None}
Unused(table) == {k \in DOMAIN table : table[k] = None}

Init ==
  /\ properties = [p \in PropertyIds |-> None]
  /\ units = [u \in UnitIds |-> None]
  /\ profiles = [t \in ProfileIds |-> None]
  /\ leases = [l \in LeaseIds |-> None]
  /\ pc = [h \in Handlers |-> "idle"]
  /\ asked = [h \in Handlers |-> NoLease]
  /\ saw = [h \in Handlers |-> {}]
  /\ seenBy = [l \in LeaseIds |-> {}]
  /\ answer = [h \in Handlers |-> "none"]
-----------------------------------------------------------------------------
CreateProperty(o) ==
  /\ \E p \in Unused(properties) : properties' = [properties EXCEPT ![p] = o]
  /\ UNCHANGED <<units, profiles, leases, requests, seenBy>>

\* The property must be one of the organization (404 if not), the label new in
\* the property (the unique constraint of the table, else a rolled-back 500).
UnitAllowed(o, p, label) ==
  /\ properties[p] = o
  /\ ~ \E u \in Rows(units) : units[u].property = p /\ units[u].label = label

CreateUnit(o) ==
  /\ \E p \in PropertyIds, label \in Labels, u \in Unused(units) :
       /\ UnitAllowed(o, p, label)
       /\ units' = [units EXCEPT ![u] = [org |-> o, property |-> p, label |-> label]]
  /\ UNCHANGED <<properties, profiles, leases, requests, seenBy>>

CreateTenant(o) ==
  /\ \E t \in Unused(profiles) : profiles' = [profiles EXCEPT ![t] = o]
  /\ UNCHANGED <<properties, units, leases, requests, seenBy>>
-----------------------------------------------------------------------------
\* POST /leases, for any unit and tenant profile the caller names.
AskForLease(h) ==
  /\ pc[h] = "idle"
  /\ \E lease \in Lease : asked' = [asked EXCEPT ![h] = lease]
  /\ pc' = [pc EXCEPT ![h] = "lookup"]
  /\ answer' = [answer EXCEPT ![h] = "none"]
  /\ UNCHANGED <<properties, units, profiles, leases, saw, seenBy>>

Answer(h, status) ==
  /\ pc' = [pc EXCEPT ![h] = "idle"]
  /\ asked' = [asked EXCEPT ![h] = NoLease]
  /\ saw' = [saw EXCEPT ![h] = {}]
  /\ answer' = [answer EXCEPT ![h] = status]

\* The unit and the tenant profile, each looked up in the caller's organization.
FoundAnywhere(lease) ==
  units[lease.unit] # None /\ profiles[lease.tenant] # None
Found(lease) ==
  /\ units[lease.unit] # None /\ units[lease.unit].org = lease.org
  /\ profiles[lease.tenant] = lease.org

\* Only an active lease is checked against the others.
NextCheck(lease) == IF lease.status = "active" THEN "check" ELSE "insert"

LookUp(h) ==
  /\ pc[h] = "lookup"
  /\ IF Found(asked[h])
       THEN /\ pc' = [pc EXCEPT ![h] = NextCheck(asked[h])]
            /\ UNCHANGED <<asked, saw, answer>>
       ELSE Answer(h, "404")
  /\ UNCHANGED <<properties, units, profiles, leases, seenBy>>

\* overlapping_lease_query; has_overlapping_active_lease turns one hit into a
\* 409, and two or more into MultipleResultsFound, which nothing catches.
HitsOfFirstDayOnly(lease) ==
  {l \in Rows(leases) :
     /\ leases[l].org = lease.org /\ leases[l].unit = lease.unit
     /\ leases[l].status = "active"
     /\ query_matches(leases[l], lease.starts, lease.starts)}
Hits(lease) ==
  {l \in Rows(leases) :
     /\ leases[l].org = lease.org /\ leases[l].unit = lease.unit
     /\ leases[l].status = "active"
     /\ query_matches(leases[l], lease.starts, lease.ends)}

CheckOverlap(h) ==
  /\ pc[h] = "check"
  /\ LET hits == Hits(asked[h]) IN
       IF hits = {}
         THEN /\ pc' = [pc EXCEPT ![h] = "insert"]
              /\ saw' = [saw EXCEPT ![h] = Rows(leases)]
              /\ UNCHANGED <<asked, answer>>
         ELSE Answer(h, IF \E l \in hits : hits = {l} THEN "409" ELSE "500")
  /\ UNCHANGED <<properties, units, profiles, leases, seenBy>>

\* INSERT and commit, with the audit event.  Bound of the model: only while a
\* lease key is left; a request that finds none is one that is aborted.
InsertLease(h) ==
  /\ pc[h] = "insert"
  /\ \E l \in Unused(leases) : /\ leases' = [leases EXCEPT ![l] = asked[h]]
                               /\ seenBy' = [seenBy EXCEPT ![l] = saw[h]]
  /\ Answer(h, "201")
  /\ UNCHANGED <<properties, units, profiles>>

\* The connection or the process goes away before the commit.
Abort(h) ==
  /\ pc[h] # "idle"
  /\ Answer(h, "none")
  /\ UNCHANGED <<properties, units, profiles, leases, seenBy>>

Next ==
  \/ \E o \in Orgs : CreateProperty(o) \/ CreateUnit(o) \/ CreateTenant(o)
  \/ \E h \in Handlers : \/ AskForLease(h) \/ LookUp(h) \/ CheckOverlap(h)
                         \/ InsertLease(h) \/ Abort(h)

Spec == Init /\ [][Next]_vars
-----------------------------------------------------------------------------
\* Type invariant.
TypeOK ==
  /\ properties \in [PropertyIds -> Orgs \cup {None}]
  /\ units \in [UnitIds -> Unit \cup {None}]
  /\ profiles \in [ProfileIds -> Orgs \cup {None}]
  /\ leases \in [LeaseIds -> Lease \cup {None}]
  /\ pc \in [Handlers -> {"idle", "lookup", "check", "insert"}]
  /\ asked \in [Handlers -> Lease \cup {NoLease}]
  /\ saw \in [Handlers -> SUBSET LeaseIds]
  /\ seenBy \in [LeaseIds -> SUBSET LeaseIds]
  /\ answer \in [Handlers -> {"none", "201", "404", "409", "500"}]

Clash(k, l) ==
  /\ k # l
  /\ leases[k].unit = leases[l].unit
  /\ leases[k].status = "active" /\ leases[l].status = "active"
  /\ ShareADay(leases[k], leases[l], Days)

\* api-workflows.md: an active lease is rejected when its date range intersects
\* another active lease for the same unit.
NoDoubleBooking == \A k, l \in Rows(leases) : ~Clash(k, l)

\* What holds under concurrency: two active leases of a unit overlap only if
\* the check of neither request could see the lease of the other.
ClashesWereUnseen ==
  \A k, l \in Rows(leases) : Clash(k, l) => k \notin seenBy[l] /\ l \notin seenBy[k]

\* A day of a unit is booked at most as often as there are requests in flight.
OverbookingBounded ==
  \A S \in SUBSET Rows(leases) :
    (\A k, l \in S : k # l => Clash(k, l)) =>
      Cardinality(S) <= 1 \/ Cardinality(S) <= Cardinality(Handlers)

\* Nothing of one organization hangs on a row of another one, through any chain
\* of references, whatever ids the callers send.
OrganizationsStayApart ==
  /\ \A u \in Rows(units) : properties[units[u].property] = units[u].org
  /\ \A l \in Rows(leases) : /\ units[leases[l].unit] # None
                             /\ units[leases[l].unit].org = leases[l].org
                             /\ profiles[leases[l].tenant] = leases[l].org
=============================================================================

--------------------------- MODULE RefreshSessions ---------------------------
(***************************************************************************)
(* The refresh-session table and the requests that work on it:             *)
(* POST /auth/token, /auth/refresh and /auth/logout (api/routes/auth.py    *)
(* over services/sessions.py).  A request is one PostgreSQL transaction at *)
(* READ COMMITTED; between two awaits of one request any other may run.    *)
(* The secret of a token is abstracted to "genuine or not", the clock to   *)
(* the moment at which a row expires.                                      *)
(***************************************************************************)
EXTENDS Integers, FiniteSets

CONSTANTS
  SessionIds,   \* primary keys uuid4 can draw; a family is named by its first row
  Users,
  Handlers,     \* database transactions the API processes can have open at once
  None

VARIABLES
  rows,       \* the committed table: SessionIds -> row, or None
  lock,       \* lock[s]: the transaction that holds the row lock of s, or None
  pc,         \* pc[h]: where transaction h stands
  req,        \* req[h]: what it was asked
  pending,    \* pending[h]: rows its family UPDATE has still to lock
  announced,  \* history: families some client was told are revoked
  overtaken   \* history: families in which a rotation committed while the
              \* family UPDATE of another transaction was under way

history == <<announced, overtaken>>
table == <<rows, history>>
vars == <<rows, lock, pc, req, pending, history>>

Row == [user : Users, family : SessionIds, expired : BOOLEAN,
        revoked : BOOLEAN, replacedBy : SessionIds \cup {None}]

ASSUME NoneAssumption ==
  /\ None \notin SessionIds /\ None \notin Handlers
  /\ None \notin Users /\ None \notin Row

Request == [op : {"refresh", "logout"}, id : SessionIds, genuine : BOOLEAN]
NotAsked == [op |-> "none"]

Exists(s) == rows[s] # None
Live(s) == Exists(s) /\ ~rows[s].revoked
FreshIds == {s \in SessionIds : ~Exists(s)}

\* create_refresh_session: the row of a new credential of a family.
NewRowWithoutFamily(user, fam) ==
  [user |-> user, family |-> None, expired |-> FALSE, revoked |-> FALSE,
   replacedBy |-> None]
NewRow(user, fam) ==
  [user |-> user, family |-> fam, expired |-> FALSE, revoked |-> FALSE,
   replacedBy |-> None]
Revoked(row) == [row EXCEPT !.revoked = TRUE]
Lapsed(row) == [row EXCEPT !.expired = TRUE]

Init ==
  /\ rows = [s \in SessionIds |-> None]
  /\ lock = [s \in SessionIds |-> None]
  /\ pc = [h \in Handlers |-> "idle"]
  /\ req = [h \in Handlers |-> NotAsked]
  /\ pending = [h \in Handlers |-> {}]
  /\ announced = {}
  /\ overtaken = {}
-----------------------------------------------------------------------------
\* The transaction of h is over: its row locks go, the handler is free again.
End(h) ==
  /\ pc' = [pc EXCEPT ![h] = "idle"]
  /\ req' = [req EXCEPT ![h] = NotAsked]
  /\ pending' = [pending EXCEPT ![h] = {}]
  /\ lock' = [s \in SessionIds |-> IF lock[s] = h THEN None ELSE lock[s]]

\* Bound of the model: a rotation is asked for only while an id is left for it.
IdsLeft ==
  Cardinality(FreshIds) >
    Cardinality({h \in Handlers : \/ pc[h] = "rotate"
                                  \/ /\ pc[h] = "load"
                                     /\ req[h].op = "refresh"
                                     /\ Live(req[h].id)})

\* POST /auth/token with a right password: one INSERT, no lock to wait for.
IssueToken(u) ==
  /\ IdsLeft
  /\ \E s \in FreshIds : rows' = [rows EXCEPT ![s] = NewRow(u, s)]
  /\ UNCHANGED <<lock, pc, req, pending, history>>

\* A client presents a token, of which it may have only guessed the secret.
Present(h) ==
  /\ pc[h] = "idle"
  /\ \E r \in Request :
       /\ r.genuine => Exists(r.id)
       /\ (r.op = "refresh" /\ Live(r.id)) => IdsLeft
       /\ req' = [req EXCEPT ![h] = r]
  /\ pc' = [pc EXCEPT ![h] = "load"]
  /\ UNCHANGED <<table, lock, pending>>

\* The row lock of SELECT ... FOR UPDATE; a plain read would not wait for it.
RowAvailableToPlainRead(h, s) == TRUE
RowAvailable(h, s) == lock[s] = None

\* What is done with the row that was read.
VerdictIgnoresRevocation(r, row) ==
  IF r.op = "logout" THEN "revoke" ELSE IF row.expired THEN "expire" ELSE "rotate"
Verdict(r, row) ==
  IF r.op = "logout" THEN "revoke"
  ELSE IF row.revoked THEN "reuse"
  ELSE IF row.expired THEN "expire"
  ELSE "rotate"

\* session.get(RefreshSession, id, with_for_update=True), the checks after it.
\* An unknown id or a wrong secret ends the request without a write.
LoadCurrent(h) ==
  /\ pc[h] = "load"
  /\ RowAvailable(h, req[h].id)
  /\ IF Exists(req[h].id) /\ req[h].genuine
       THEN /\ lock' = [lock EXCEPT ![req[h].id] = h]
            /\ pc' = [pc EXCEPT ![h] = Verdict(req[h], rows[req[h].id])]
            /\ UNCHANGED <<req, pending>>
       ELSE End(h)
  /\ UNCHANGED table

\* The old row of a rotation, as its UPDATE leaves it.
RetiredStillValid(row, new) == [row EXCEPT !.replacedBy = new]
Retired(row, new) == [row EXCEPT !.revoked = TRUE, !.replacedBy = new]

FamiliesInUpdate ==
  {rows[req[g].id].family : g \in {k \in Handlers : pc[k] = "scan"}}

\* The UPDATE of the old row and the INSERT of its successor, one commit.
CommitRotate(h) ==
  /\ pc[h] = "rotate"
  /\ LET s == req[h].id IN
       /\ \E t \in FreshIds :
            rows' = [rows EXCEPT ![s] = Retired(@, t),
                                 ![t] = NewRow(rows[s].user, rows[s].family)]
       /\ overtaken' = overtaken \cup ({rows[s].family} \cap FamiliesInUpdate)
  /\ End(h)
  /\ UNCHANGED announced

\* An expired token, or a logout: the row alone is revoked.
CommitRevoke(h) ==
  /\ pc[h] \in {"expire", "revoke"}
  /\ rows' = [rows EXCEPT ![req[h].id] = Revoked(@)]
  /\ End(h)
  /\ UNCHANGED history
-----------------------------------------------------------------------------
(* UPDATE refresh_sessions SET revoked_at WHERE family_id = ...: the rows   *)
(* are those committed when the statement starts; it locks them one by one, *)
(* waiting for each lock, and changes them all at the commit.               *)

FamilyRowsOfLogout(h) == {}
FamilyRows(h) ==
  {s \in SessionIds :
     Exists(s) /\ rows[s].family = rows[req[h].id].family /\ lock[s] # h}

StartFamilyUpdate(h) ==
  /\ pc[h] = "reuse"
  /\ pending' = [pending EXCEPT ![h] = FamilyRows(h)]
  /\ pc' = [pc EXCEPT ![h] = "scan"]
  /\ UNCHANGED <<table, lock, req>>

LockFamilyRow(h) ==
  /\ pc[h] = "scan"
  /\ \E s \in pending[h] :
       /\ lock[s] = None
       /\ lock' = [lock EXCEPT ![s] = h]
       /\ pending' = [pending EXCEPT ![h] = @ \ {s}]
  /\ UNCHANGED <<table, pc, req>>

\* The commit; the client hears "Session reuse detected; family revoked".
CommitReuse(h) ==
  /\ pc[h] = "scan"
  /\ pending[h] = {}
  /\ rows' = [s \in SessionIds |->
                IF lock[s] = h THEN Revoked(rows[s]) ELSE rows[s]]
  /\ announced' = announced \cup {rows[req[h].id].family}
  /\ End(h)
  /\ UNCHANGED overtaken

\* Transactions that wait for each other: PostgreSQL aborts one of them and
\* the request is answered with a 500.
NeverDeadlocked(h) == FALSE
Deadlocked(h) ==
  \E D \in SUBSET Handlers :
    /\ h \in D
    /\ \A d \in D : /\ pc[d] = "scan"
                    /\ \E s \in pending[d] : lock[s] \in D \ {d}

AbortDeadlock(h) ==
  /\ Deadlocked(h)
  /\ End(h)
  /\ UNCHANGED table
-----------------------------------------------------------------------------
\* The connection, the process or the client goes away: get_db rolls back.
Abort(h) ==
  /\ pc[h] # "idle"
  /\ End(h)
  /\ UNCHANGED table

\* refresh_token_ttl_days have passed since the row was created.
Lapse(s) ==
  /\ Live(s)
  /\ rows' = [rows EXCEPT ![s] = Lapsed(@)]
  /\ UNCHANGED <<lock, pc, req, pending, history>>

Step(h) ==
  \/ LoadCurrent(h)
  \/ CommitRotate(h)
  \/ CommitRevoke(h)
  \/ StartFamilyUpdate(h)
  \/ LockFamilyRow(h)
  \/ CommitReuse(h)
  \/ AbortDeadlock(h)

Next ==
  \/ \E u \in Users : IssueToken(u)
  \/ \E s \in SessionIds : Lapse(s)
  \/ \E h \in Handlers : Present(h) \/ Step(h) \/ Abort(h)

Spec == Init /\ [][Next]_vars

\* PostgreSQL serves the waiters of a row lock in turn (SF); a transaction
\* that waits for nothing is run to its end by the event loop (WF).
Fairness ==
  \A h \in Handlers :
    /\ WF_vars(Step(h))
    /\ SF_vars(LoadCurrent(h))
    /\ SF_vars(LockFamilyRow(h))

FairSpec == Spec /\ Fairness
-----------------------------------------------------------------------------
\* Type invariant.
TypeOK ==
  /\ rows \in [SessionIds -> Row \cup {None}]
  /\ lock \in [SessionIds -> Handlers \cup {None}]
  /\ pc \in [Handlers -> {"idle", "load", "rotate", "expire", "revoke",
                          "reuse", "scan"}]
  /\ req \in [Handlers -> Request \cup {NotAsked}]
  /\ pending \in [Handlers -> SUBSET SessionIds]
  /\ announced \subseteq SessionIds /\ overtaken \subseteq SessionIds

\* What a transaction read and decided upon is still true when it commits: it
\* holds the row, the row to rotate is not revoked, the row found revoked is.
ReadStaysTrue ==
  \A h \in Handlers : pc[h] \notin {"idle", "load"} =>
    /\ lock[req[h].id] = h
    /\ Exists(req[h].id)
    /\ pc[h] = "rotate" => ~rows[req[h].id].revoked
    /\ pc[h] \in {"reuse", "scan"} => rows[req[h].id].revoked

\* However the requests interleave, a family never has two credentials that
\* can still be exchanged: rotate_refresh_token cannot fork a session.
AtMostOneLive ==
  \A s, t \in SessionIds :
    Live(s) /\ Live(t) /\ rows[s].family = rows[t].family => s = t

\* replaced_by_id links the rows of a family into one chain from its founder:
\* every other row is the recorded successor of exactly one revoked row, with
\* the same owner, so no rotation ever overwrites the record of another.
FamilyIsChain ==
  \A t \in SessionIds : Exists(t) =>
    IF rows[t].family = t
      THEN \A s \in SessionIds : Exists(s) => rows[s].replacedBy # t
      ELSE \E s \in SessionIds :
             /\ Exists(s) /\ rows[s].revoked /\ rows[s].user = rows[t].user
             /\ rows[s].family = rows[t].family
             /\ \A r \in SessionIds :
                  Exists(r) => (rows[r].replacedBy = t <=> r = s)

\* ADR 0004: once a client has been told that its family is revoked, nothing
\* of the family can be exchanged.
ReuseRevokesFamily ==
  \A s \in SessionIds : Live(s) => rows[s].family \notin announced

\* What the code guarantees of it: a family outlives the detection of a reuse
\* only if one of its rotations committed in the midst of the family UPDATE.
SurvivorsOvertookUpdate ==
  \A s \in SessionIds : Live(s) => rows[s].family \notin announced \ overtaken

\* Each request on a token is answered, whatever locks it meets on its way.
EveryRequestEnds == \A h \in Handlers : []<>(pc[h] = "idle")

Promise == INSTANCE SessionFamilies WITH
  family <- [s \in SessionIds |-> IF Exists(s) THEN rows[s].family ELSE None],
  owner  <- [s \in SessionIds |-> IF Exists(s) THEN rows[s].user ELSE None],
  live   <- {s \in SessionIds : Live(s)}

\* The table and its transactions implement SessionFamilies: each commit is
\* one exchange, opening or closing of a family, or no visible change.
ImplementsFamilies == Promise!Spec
=============================================================================

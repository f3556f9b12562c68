----------------------------- MODULE WorkOrders -----------------------------
(***************************************************************************)
(* The work orders of one organization: services/maintenance.py and        *)
(* POST and PATCH of api/routes/maintenance.py.  An update reads the row,  *)
(* changes the object it has in memory and writes the columns that it has  *)
(* changed, with no lock in between, so other updates may commit between.  *)
(* A request that is refused (404, 409, 400) changes nothing and is left   *)
(* out; so are title, priority and due date, which nothing depends on.     *)
(***************************************************************************)
CONSTANTS
  OrderIds,
  Members,      \* users with an active membership; none is ever taken away
  Outsiders,    \* users without one
  Handlers,     \* PATCH requests in flight at once
  None, Keep    \* no value; a field the request does not set

VARIABLES
  orders,       \* OrderIds -> row, or None
  request,      \* request[h]: the update h works on, or None
  loaded,       \* loaded[h]: the row h has read
  notified,     \* pairs <<order, user>> of the notifications there are
  assignedBy,   \* history, per order: who wrote its present assignee
  raced         \* history: orders changed between the read and the commit of
                \* an update

updates == <<request, loaded>>
history == <<assignedBy, raced>>
vars == <<orders, updates, notified, history>>

Status == {"open", "triaged", "in_progress", "resolved", "closed", "cancelled"}
Terminal == {"closed", "cancelled"}

\* resolved and closed tell whether resolved_at and closed_at are set.
Row == [status : Status, assignee : Members \cup {None},
        resolved : BOOLEAN, closed : BOOLEAN]

Update == [order : OrderIds, by : Members, status : Status \cup {None},
           assign : Members \cup Outsiders \cup {None, Keep}]

ASSUME NoneAssumption ==
  None \notin Row /\ None \notin Update /\ None \notin Members \cup Outsiders
ASSUME KeepAssumption == Keep \notin Members \cup Outsiders \cup {None}
ASSUME OutsidersAssumption == Members \cap Outsiders = {}

ALLOWED_TRANSITIONS ==
  [open        |-> {"triaged", "cancelled"},
   triaged     |-> {"in_progress", "cancelled"},
   in_progress |-> {"resolved", "cancelled"},
   resolved    |-> {"closed", "in_progress"},
   closed      |-> {},
   cancelled   |-> {}]

Init ==
  /\ orders = [o \in OrderIds |-> None]
  /\ request = [h \in Handlers |-> None]
  /\ loaded = [h \in Handlers |-> None]
  /\ notified = {}
  /\ assignedBy = [o \in OrderIds |-> None]
  /\ raced = {}
-----------------------------------------------------------------------------
\* An assignee must be an active member.
MayBeAssigned(who) == who \in Members \cup {None, Keep}

\* POST /work-orders: whoever is assigned is told, even if by himself.
CreateWorkOrder(o, by) ==
  /\ orders[o] = None
  /\ \E who \in Members \cup Outsiders \cup {None} :
       /\ MayBeAssigned(who)
       /\ orders' = [orders EXCEPT ![o] =
                       [status |-> "open", assignee |-> who,
                        resolved |-> FALSE, closed |-> FALSE]]
       /\ notified' = notified \cup ({<<o, who>>} \ {<<o, None>>})
       /\ assignedBy' = [assignedBy EXCEPT ![o] = by]
  /\ UNCHANGED <<updates, raced>>

\* transition_work_order, on the row in memory.
TransitionKeepsResolvedAt(row, target) ==
  [row EXCEPT !.status = target,
              !.resolved = @ \/ target = "resolved",
              !.closed = @ \/ target \in Terminal]
TransitionStampsClosedOnly(row, target) ==
  [row EXCEPT !.status = target,
              !.resolved = target = "resolved" \/ (@ /\ target # "in_progress"),
              !.closed = @ \/ target = "closed"]
transition_work_order(row, target) ==
  [row EXCEPT !.status = target,
              !.resolved = target = "resolved" \/ (@ /\ target # "in_progress"),
              !.closed = @ \/ target \in Terminal]

Moves(row, r) == r.status \notin {None, row.status}

\* find_work_order and the checks: the transition must be allowed from the
\* status that was read (409), the new assignee an active member (400).
LoadWorkOrder(h) ==
  /\ request[h] = None
  /\ \E r \in Update :
       /\ orders[r.order] # None
       /\ Moves(orders[r.order], r) =>
            r.status \in ALLOWED_TRANSITIONS[orders[r.order].status]
       /\ MayBeAssigned(r.assign)
       /\ request' = [request EXCEPT ![h] = r]
       /\ loaded' = [loaded EXCEPT ![h] = orders[r.order]]
  /\ UNCHANGED <<orders, notified, history>>

\* The object in memory when the session is flushed.
Edited(h) ==
  LET row == IF Moves(loaded[h], request[h])
               THEN transition_work_order(loaded[h], request[h].status)
               ELSE loaded[h]
  IN  IF request[h].assign = Keep THEN row
      ELSE [row EXCEPT !.assignee = request[h].assign]

\* A move into one of these states stamps the column with the time of now,
\* which is a change even if the column was set before.
Stamped(target) ==
  CASE target = "resolved" -> {"resolved"}
    [] target \in Terminal -> {"closed"}
    [] OTHER -> {}

\* The columns of the UPDATE statement: those whose value has changed.
Written(h) ==
  {c \in {"status", "assignee", "resolved", "closed"} :
     \/ Edited(h)[c] # loaded[h][c]
     \/ Moves(loaded[h], request[h]) /\ c \in Stamped(request[h].status)}

\* The row after the UPDATE; what is not written is as the last commit left it.
Saved(h) ==
  LET now == orders[request[h].order]
      Column(c) == IF c \in Written(h) THEN Edited(h)[c] ELSE now[c]
  IN  [status |-> Column("status"), assignee |-> Column("assignee"),
       resolved |-> Column("resolved"), closed |-> Column("closed")]

\* Who hears of the assignment: not the user who assigned himself.
TellsPreviousAssignee(h) ==
  {loaded[h].assignee} \ {None, request[h].by}
Recipients(h) == {request[h].assign} \ {None, Keep, request[h].by}

Finish(h) ==
  /\ request' = [request EXCEPT ![h] = None]
  /\ loaded' = [loaded EXCEPT ![h] = None]

\* The commit: UPDATE, notification and audit entry.
CommitUpdate(h) ==
  /\ request[h] # None
  /\ LET o == request[h].order IN
       /\ orders' = [orders EXCEPT ![o] = Saved(h)]
       /\ notified' = notified \cup {<<o, who>> : who \in Recipients(h)}
       /\ assignedBy' = [assignedBy EXCEPT ![o] =
                           IF "assignee" \in Written(h) THEN request[h].by ELSE @]
       /\ raced' = IF orders[o] = loaded[h] THEN raced ELSE raced \cup {o}
  /\ Finish(h)

\* The connection, the process or the client goes away before the commit.
AbortUpdate(h) ==
  /\ request[h] # None
  /\ Finish(h)
  /\ UNCHANGED <<orders, notified, history>>

Next ==
  \/ \E o \in OrderIds, by \in Members : CreateWorkOrder(o, by)
  \/ \E h \in Handlers : LoadWorkOrder(h) \/ CommitUpdate(h) \/ AbortUpdate(h)

Spec == Init /\ [][Next]_vars
-----------------------------------------------------------------------------
Placed == {o \in OrderIds : orders[o] # None}

\* Type invariant.
TypeOK ==
  /\ orders \in [OrderIds -> Row \cup {None}]
  /\ request \in [Handlers -> Update \cup {None}]
  /\ loaded \in [Handlers -> Row \cup {None}]
  /\ notified \subseteq OrderIds \X Members
  /\ assignedBy \in [OrderIds -> Members \cup {None}]
  /\ raced \subseteq OrderIds

\* resolved_at and closed_at say what the status says, through every reopening
\* and cancellation, of an order whose updates never overlapped.
StampsMatchStatus ==
  \A o \in Placed \ raced :
    /\ orders[o].resolved <=> orders[o].status \in {"resolved", "closed"}
    /\ orders[o].closed <=> orders[o].status \in Terminal

\* What is left of it when they do overlap: a stamp may be stale, but a resolved
\* order still has its resolved_at and a finished one its closed_at.
StampsNeverMissing ==
  \A o \in Placed :
    /\ orders[o].status = "resolved" => orders[o].resolved
    /\ orders[o].status \in Terminal => orders[o].closed

\* "Assignments create recipient notifications": whoever has an order assigned
\* has been told, unless it was he himself who took it.
AssigneeWasTold ==
  \A o \in Placed :
    orders[o].assignee # None =>
      <<o, orders[o].assignee>> \in notified \/ assignedBy[o] = orders[o].assignee

\* api-workflows.md: an order moves along the supported transitions only.
OnlySupportedMoves ==
  [][\A o \in Placed :
       orders'[o].status \in
         {orders[o].status} \cup ALLOWED_TRANSITIONS[orders[o].status]]_vars
=============================================================================

-------------------------- MODULE WorkOrders_proofs --------------------------
(* Theorems about WorkOrders, for any orders, members and handlers. *)
EXTENDS WorkOrders, TLAPS

\* What an update under way has passed: it works on a row that exists, its
\* assignee may be assigned, and its move starts from the status that was read.
UpdateInv ==
  \A h \in Handlers : request[h] # None =>
    /\ loaded[h] # None /\ orders[request[h].order] # None
    /\ MayBeAssigned(request[h].assign)
    /\ Moves(loaded[h], request[h]) =>
         request[h].status \in ALLOWED_TRANSITIONS[loaded[h].status]

\* The inductive invariant.
IInv ==
  TypeOK /\ UpdateInv /\ StampsMatchStatus /\ StampsNeverMissing /\ AssigneeWasTold

\* The stamps of a row say what its status says.
Matches(row) ==
  /\ row.resolved <=> row.status \in {"resolved", "closed"}
  /\ row.closed <=> row.status \in Terminal

\* No move starts from a finished order, and only resolved orders are closed.
LEMMA Moving ==
  ASSUME NEW from \in Status, NEW to \in Status, to \in ALLOWED_TRANSITIONS[from]
  PROVE  /\ from \notin Terminal
         /\ to = "closed" => from = "resolved"
         /\ to = "in_progress" => from \in {"triaged", "resolved"}
         /\ to = "triaged" => from = "open"
         /\ to = "cancelled" => from # "resolved"
         /\ to # "open"
BY DEF ALLOWED_TRANSITIONS, Status, Terminal

\* It holds before the first order.
LEMMA InitIInv == Init => IInv
BY DEF Init, IInv, TypeOK, UpdateInv, StampsMatchStatus, StampsNeverMissing,
       AssigneeWasTold, Placed

\* The shape of the row in memory and of the row after the UPDATE.
LEMMA RowsAreRows ==
  ASSUME TypeOK, UpdateInv, NEW h \in Handlers, request[h] # None
  PROVE  /\ loaded[h] \in Row /\ orders[request[h].order] \in Row /\ request[h] \in Update
         /\ Edited(h) \in Row /\ Saved(h) \in Row
<1>1. /\ loaded[h] \in Row /\ request[h] \in Update
      /\ orders[request[h].order] \in Row
  BY DEF TypeOK, UpdateInv, Update
<1>2. request[h].assign # Keep => request[h].assign \in Members \cup {None}
  BY DEF UpdateInv, MayBeAssigned
<1>3. Moves(loaded[h], request[h]) => request[h].status \in Status
  BY <1>1 DEF Moves, Update
<1>4. Edited(h) \in Row
  BY <1>1, <1>2, <1>3 DEF Edited, transition_work_order, Row
<1>5. Saved(h) \in Row
  BY <1>1, <1>4 DEF Saved, Row
<1>6. QED
  BY <1>1, <1>4, <1>5

\* An allowed move keeps the stamps of the row in memory right.
LEMMA EditedMatches ==
  ASSUME TypeOK, UpdateInv, NEW h \in Handlers, request[h] # None, Matches(loaded[h])
  PROVE  Matches(Edited(h))
<1>1. loaded[h] \in Row /\ request[h] \in Update
  BY RowsAreRows
<1>2. CASE Moves(loaded[h], request[h])
  <2>1. /\ loaded[h].status \in Status /\ request[h].status \in Status
        /\ request[h].status \in ALLOWED_TRANSITIONS[loaded[h].status]
    BY <1>1, <1>2 DEF Moves, Update, Row, UpdateInv
  <2> DEFINE target == request[h].status
             moved == transition_work_order(loaded[h], target)
  <2>2. /\ moved.status = target
        /\ moved.resolved = (target = "resolved" \/ (loaded[h].resolved /\ target # "in_progress"))
        /\ moved.closed = (loaded[h].closed \/ target \in Terminal)
    BY <1>1 DEF transition_work_order, Row
  <2>3. Matches(moved)
    BY <2>1, <2>2, Moving DEF Matches, Terminal, Status
  <2>4. QED
    BY <1>1, <1>2, <2>2, <2>3 DEF Edited, Matches, Row
<1>3. CASE ~Moves(loaded[h], request[h])
  BY <1>1, <1>3 DEF Edited, Matches, Row
<1>4. QED
  BY <1>2, <1>3

\* Nobody in between: the UPDATE leaves the row that was in memory.
LEMMA SavedIsEdited ==
  ASSUME TypeOK, UpdateInv, NEW h \in Handlers, request[h] # None,
         orders[request[h].order] = loaded[h]
  PROVE  Saved(h) = Edited(h)
<1>1. loaded[h] \in Row /\ Edited(h) \in Row
  BY RowsAreRows
<1>2. \A c \in {"status", "assignee", "resolved", "closed"} :
        c \notin Written(h) => Edited(h)[c] = orders[request[h].order][c]
  BY DEF Written
<1>3. QED
  BY <1>1, <1>2 DEF Saved, Row

\* Whoever came in between: a row that becomes resolved or finished is stamped,
\* as a move writes the status and its stamp together.
LEMMA SavedIsStamped ==
  ASSUME TypeOK, UpdateInv, NEW h \in Handlers, request[h] # None,
         orders[request[h].order].status = "resolved" => orders[request[h].order].resolved,
         orders[request[h].order].status \in Terminal => orders[request[h].order].closed
  PROVE  /\ Saved(h).status = "resolved" => Saved(h).resolved
         /\ Saved(h).status \in Terminal => Saved(h).closed
<1> DEFINE row == orders[request[h].order]
           target == request[h].status
<1>1. /\ loaded[h] \in Row /\ row \in Row /\ request[h] \in Update
      /\ Edited(h) \in Row
  BY RowsAreRows
<1>2. /\ Saved(h).status = IF "status" \in Written(h) THEN Edited(h).status ELSE row.status
      /\ Saved(h).resolved = IF "resolved" \in Written(h) THEN Edited(h).resolved
                             ELSE row.resolved
      /\ Saved(h).closed = IF "closed" \in Written(h) THEN Edited(h).closed ELSE row.closed
  BY DEF Saved
<1>3. CASE Moves(loaded[h], request[h])
  <2>1. /\ Edited(h).status = target /\ target # loaded[h].status
        /\ Edited(h).resolved = (target = "resolved" \/ (loaded[h].resolved /\ target # "in_progress"))
        /\ Edited(h).closed = (loaded[h].closed \/ target \in Terminal)
    BY <1>1, <1>3 DEF Edited, transition_work_order, Row, Moves
  <2>2. "status" \in Written(h)
    BY <2>1 DEF Written
  <2>3. /\ target = "resolved" => "resolved" \in Written(h)
        /\ target \in Terminal => "closed" \in Written(h)
    BY <1>3 DEF Written, Stamped, Terminal
  <2>4. QED
    BY <1>2, <2>1, <2>2, <2>3
<1>4. CASE ~Moves(loaded[h], request[h])
  <2>1. /\ Edited(h).status = loaded[h].status
        /\ Edited(h).resolved = loaded[h].resolved /\ Edited(h).closed = loaded[h].closed
    BY <1>1, <1>4 DEF Edited, Row
  <2>2. Written(h) \cap {"status", "resolved", "closed"} = {}
    BY <1>4, <2>1 DEF Written
  <2>3. QED
    BY <1>2, <2>2
<1>5. QED
  BY <1>3, <1>4

\* A new order is stamped by nothing and its assignee is told.
LEMMA CreateStep ==
  ASSUME IInv, NEW o \in OrderIds, NEW by \in Members, CreateWorkOrder(o, by)
  PROVE  IInv'
<1> USE DEF IInv
<1>1. PICK who \in Members \cup {None} :
        /\ orders' = [orders EXCEPT ![o] = [status |-> "open", assignee |-> who,
                                           resolved |-> FALSE, closed |-> FALSE]]
        /\ notified' = notified \cup ({<<o, who>>} \ {<<o, None>>})
  BY KeepAssumption DEF CreateWorkOrder, MayBeAssigned
<1> DEFINE new == [status |-> "open", assignee |-> who, resolved |-> FALSE, closed |-> FALSE]
<1>2. new \in Row
  BY DEF Row, Status
<1>3. orders[o] = None /\ new # None
  BY <1>2, NoneAssumption DEF CreateWorkOrder
<1>4. TypeOK'
  <2>1. orders' \in [OrderIds -> Row \cup {None}]
    BY <1>1, <1>2 DEF TypeOK
  <2>2. notified' \subseteq OrderIds \X Members
    BY <1>1 DEF TypeOK
  <2>3. QED
    BY <2>1, <2>2 DEF TypeOK, CreateWorkOrder, updates
<1>5. UpdateInv'
  BY <1>1, <1>3 DEF UpdateInv, CreateWorkOrder, updates, TypeOK
<1>6. StampsMatchStatus'
  BY <1>1 DEF StampsMatchStatus, Placed, CreateWorkOrder, TypeOK, Terminal
<1>7. StampsNeverMissing'
  BY <1>1 DEF StampsNeverMissing, Placed, TypeOK, Terminal
<1>8. AssigneeWasTold'
  <2> SUFFICES ASSUME NEW p \in OrderIds, orders'[p] # None, orders'[p].assignee # None
               PROVE  \/ <<p, orders'[p].assignee>> \in notified'
                      \/ assignedBy'[p] = orders'[p].assignee
    BY DEF AssigneeWasTold, Placed
  <2>1. CASE p = o
    BY <1>1, <2>1 DEF TypeOK
  <2>2. CASE p # o
    BY <1>1, <2>2 DEF TypeOK, CreateWorkOrder, AssigneeWasTold, Placed
  <2>3. QED
    BY <2>1, <2>2
<1>9. QED
  BY <1>4, <1>5, <1>6, <1>7, <1>8

\* Reading the row and passing the checks establishes what UpdateInv says.
LEMMA LoadStep ==
  ASSUME IInv, NEW h \in Handlers, LoadWorkOrder(h) PROVE IInv'
<1> USE DEF IInv
<1>1. PICK r \in Update :
        /\ orders[r.order] # None
        /\ Moves(orders[r.order], r) =>
             r.status \in ALLOWED_TRANSITIONS[orders[r.order].status]
        /\ MayBeAssigned(r.assign)
        /\ request' = [request EXCEPT ![h] = r]
        /\ loaded' = [loaded EXCEPT ![h] = orders[r.order]]
  BY DEF LoadWorkOrder
<1>2. TypeOK'
  BY <1>1 DEF TypeOK, LoadWorkOrder, history, Update
<1>3. UpdateInv'
  <2> SUFFICES ASSUME NEW g \in Handlers, request'[g] # None
               PROVE  /\ loaded'[g] # None /\ orders'[request'[g].order] # None
                      /\ MayBeAssigned(request'[g].assign)
                      /\ Moves(loaded'[g], request'[g]) =>
                           request'[g].status \in ALLOWED_TRANSITIONS[loaded'[g].status]
    BY DEF UpdateInv, MayBeAssigned, Moves, ALLOWED_TRANSITIONS
  <2>1. CASE g = h
    BY <1>1, <2>1 DEF TypeOK, LoadWorkOrder
  <2>2. CASE g # h
    <3>1. request'[g] = request[g] /\ loaded'[g] = loaded[g] /\ orders' = orders
      BY <1>1, <2>2 DEF TypeOK, LoadWorkOrder
    <3>2. QED
      BY <3>1 DEF UpdateInv
  <2>3. QED
    BY <2>1, <2>2
<1>4. (StampsMatchStatus /\ StampsNeverMissing /\ AssigneeWasTold)'
  BY DEF StampsMatchStatus, StampsNeverMissing, AssigneeWasTold, Placed, LoadWorkOrder,
         history
<1>5. QED
  BY <1>2, <1>3, <1>4

\* The commit of an update.
LEMMA CommitStep ==
  ASSUME IInv, NEW h \in Handlers, CommitUpdate(h) PROVE IInv'
<1> USE DEF IInv
<1> DEFINE o == request[h].order
<1>1. /\ request[h] # None /\ request[h] \in Update /\ o \in OrderIds
      /\ loaded[h] \in Row /\ orders[o] \in Row /\ Saved(h) \in Row
  BY RowsAreRows DEF CommitUpdate, Update
<1>2. /\ orders' = [orders EXCEPT ![o] = Saved(h)]
      /\ orders'[o] = Saved(h) /\ Saved(h) # None /\ orders[o] # None
      /\ \A p \in OrderIds \ {o} : orders'[p] = orders[p]
  BY <1>1, NoneAssumption DEF CommitUpdate, TypeOK
<1>3. Recipients(h) \subseteq Members
  <2>1. MayBeAssigned(request[h].assign)
    BY <1>1 DEF UpdateInv
  <2>2. QED
    BY <2>1 DEF Recipients, MayBeAssigned
<1>4. TypeOK'
  BY <1>1, <1>2, <1>3 DEF TypeOK, CommitUpdate, Finish, Update
<1>5. UpdateInv'
  <2> SUFFICES ASSUME NEW g \in Handlers, request'[g] # None
               PROVE  /\ loaded'[g] # None /\ orders'[request'[g].order] # None
                      /\ MayBeAssigned(request'[g].assign)
                      /\ Moves(loaded'[g], request'[g]) =>
                           request'[g].status \in ALLOWED_TRANSITIONS[loaded'[g].status]
    BY DEF UpdateInv, MayBeAssigned, Moves, ALLOWED_TRANSITIONS
  <2>1. g # h /\ request'[g] = request[g] /\ loaded'[g] = loaded[g]
    BY DEF CommitUpdate, Finish, TypeOK
  <2>2. request[g].order \in OrderIds
    BY <2>1 DEF TypeOK, Update
  <2>3. orders[request[g].order] # None => orders'[request[g].order] # None
    BY <1>2, <2>2
  <2>4. QED
    BY <2>1, <2>3 DEF UpdateInv
<1>6. StampsMatchStatus'
  <2> SUFFICES ASSUME NEW p \in OrderIds, orders'[p] # None, p \notin raced'
               PROVE  Matches(orders'[p])
    BY DEF StampsMatchStatus, Placed, Matches, Terminal
  <2>0. p \notin raced
    BY DEF CommitUpdate
  <2>1. CASE p = o
    <3>1. orders[o] = loaded[h]
      BY <2>1 DEF CommitUpdate
    <3>2. Matches(loaded[h])
      BY <1>1, <1>2, <2>0, <2>1, <3>1 DEF StampsMatchStatus, Placed, Matches
    <3>3. QED
      BY <1>1, <1>2, <2>1, <3>1, <3>2, EditedMatches, SavedIsEdited
  <2>2. CASE p # o
    BY <1>2, <2>0, <2>2 DEF StampsMatchStatus, Placed, Matches
  <2>3. QED
    BY <2>1, <2>2
<1>7. StampsNeverMissing'
  <2> SUFFICES ASSUME NEW p \in OrderIds, orders'[p] # None
               PROVE  /\ orders'[p].status = "resolved" => orders'[p].resolved
                      /\ orders'[p].status \in Terminal => orders'[p].closed
    BY DEF StampsNeverMissing, Placed, Terminal
  <2>1. CASE p = o
    <3>1. /\ orders[o].status = "resolved" => orders[o].resolved
          /\ orders[o].status \in Terminal => orders[o].closed
      BY <1>1, <1>2 DEF StampsNeverMissing, Placed
    <3>2. QED
      BY <1>1, <1>2, <2>1, <3>1, SavedIsStamped
  <2>2. CASE p # o
    BY <1>2, <2>2 DEF StampsNeverMissing, Placed
  <2>3. QED
    BY <2>1, <2>2
<1>8. AssigneeWasTold'
  <2> SUFFICES ASSUME NEW p \in OrderIds, orders'[p] # None, orders'[p].assignee # None
               PROVE  \/ <<p, orders'[p].assignee>> \in notified'
                      \/ assignedBy'[p] = orders'[p].assignee
    BY DEF AssigneeWasTold, Placed
  <2>0. notified \subseteq notified'
    BY DEF CommitUpdate
  <2>1. CASE p = o /\ "assignee" \in Written(h)
    <3>1. Saved(h).assignee = Edited(h).assignee /\ Edited(h).assignee # loaded[h].assignee
      BY <2>1 DEF Saved, Written, Stamped, Terminal
    <3>2. request[h].assign # Keep
      BY <1>1, <3>1 DEF Edited, transition_work_order, Row
    <3>3. Edited(h).assignee = request[h].assign
      BY <1>1, <3>2 DEF Edited, transition_work_order, Row
    <3>4. assignedBy'[o] = request[h].by
      BY <1>1, <2>1 DEF CommitUpdate, TypeOK
    <3>5. request[h].assign # request[h].by => <<o, request[h].assign>> \in notified'
      BY <1>2, <2>1, <3>1, <3>2, <3>3 DEF CommitUpdate, Recipients
    <3>6. QED
      BY <1>2, <2>1, <3>1, <3>3, <3>4, <3>5
  <2>2. CASE p = o /\ "assignee" \notin Written(h)
    <3>1. Saved(h).assignee = orders[o].assignee
      BY <2>2 DEF Saved
    <3>2. assignedBy'[o] = assignedBy[o]
      BY <1>1, <2>2 DEF CommitUpdate, TypeOK
    <3>3. QED
      BY <1>1, <1>2, <2>0, <2>2, <3>1, <3>2 DEF AssigneeWasTold, Placed
  <2>3. CASE p # o
    <3>1. assignedBy'[p] = assignedBy[p]
      BY <1>1, <2>3 DEF CommitUpdate, TypeOK
    <3>2. QED
      BY <1>2, <2>0, <2>3, <3>1 DEF AssigneeWasTold, Placed
  <2>4. QED
    BY <2>1, <2>2, <2>3
<1>9. QED
  BY <1>4, <1>5, <1>6, <1>7, <1>8

\* A request that goes away leaves everything as it was.
LEMMA AbortStep ==
  ASSUME IInv, NEW h \in Handlers, AbortUpdate(h) PROVE IInv'
<1> USE DEF IInv
<1>1. TypeOK'
  BY DEF TypeOK, AbortUpdate, Finish, history
<1>2. UpdateInv'
  <2> SUFFICES ASSUME NEW g \in Handlers, request'[g] # None
               PROVE  /\ loaded'[g] # None /\ orders'[request'[g].order] # None
                      /\ MayBeAssigned(request'[g].assign)
                      /\ Moves(loaded'[g], request'[g]) =>
                           request'[g].status \in ALLOWED_TRANSITIONS[loaded'[g].status]
    BY DEF UpdateInv, MayBeAssigned, Moves, ALLOWED_TRANSITIONS
  <2>1. request'[g] = request[g] /\ loaded'[g] = loaded[g] /\ orders' = orders
    BY DEF AbortUpdate, Finish, TypeOK
  <2>2. QED
    BY <2>1 DEF UpdateInv
<1>3. (StampsMatchStatus /\ StampsNeverMissing /\ AssigneeWasTold)'
  BY DEF StampsMatchStatus, StampsNeverMissing, AssigneeWasTold, Placed, AbortUpdate,
         history
<1>4. QED
  BY <1>1, <1>2, <1>3

\* The invariant is inductive.
LEMMA NextIInv == IInv /\ [Next]_vars => IInv'
<1> SUFFICES ASSUME IInv, [Next]_vars PROVE IInv'
  OBVIOUS
<1>1. CASE UNCHANGED vars
  BY <1>1 DEF IInv, TypeOK, UpdateInv, StampsMatchStatus, StampsNeverMissing,
              AssigneeWasTold, Placed, vars, updates, history
<1>2. CASE Next
  BY <1>2, CreateStep, LoadStep, CommitStep, AbortStep DEF Next
<1>3. QED
  BY <1>1, <1>2

\* It holds throughout.
LEMMA Invariance == Spec => []IInv
BY InitIInv, NextIInv, PTL DEF Spec

\* Rows and updates keep their types: in particular nobody but a member is ever
\* the assignee of an order or told of one, for any orders and handlers.
THEOREM TypeCorrect == Spec => []TypeOK
BY Invariance, PTL DEF IInv

\* resolved_at and closed_at say what the status says, of an order whose updates
\* never overlapped.
THEOREM StampsFollowStatus == Spec => []StampsMatchStatus
BY Invariance, PTL DEF IInv

\* However updates overlap, a resolved or finished order has its stamp.
THEOREM StampsStay == Spec => []StampsNeverMissing
BY Invariance, PTL DEF IInv

\* Whoever has an order assigned has been told, or took it himself.
THEOREM AssignmentsAreAnnounced == Spec => []AssigneeWasTold
BY Invariance, PTL DEF IInv
-----------------------------------------------------------------------------
(***************************************************************************)
(* The moves of an order.                                                  *)
(***************************************************************************)
Supported(from, to) == to \in {from} \cup ALLOWED_TRANSITIONS[from]

\* An unsupported move is the commit of an update whose row was overtaken: the
\* status it was checked against had changed since, or another column had.
UnsupportedMovesAreStale ==
  [][\A o \in Placed :
       \/ Supported(orders[o].status, orders'[o].status)
       \/ \E h \in Handlers : /\ request[h] # None /\ request[h].order = o
                             /\ loaded[h] # orders[o] /\ request'[h] = None]_vars

\* An update whose row is as it was read moves the order as its check allowed.
LEMMA FreshMove ==
  ASSUME TypeOK, UpdateInv, NEW h \in Handlers, request[h] # None,
         orders[request[h].order] = loaded[h]
  PROVE  Supported(loaded[h].status, Saved(h).status)
<1>1. loaded[h] \in Row /\ request[h] \in Update
  BY RowsAreRows
<1>2. Saved(h) = Edited(h)
  BY SavedIsEdited
<1>3. CASE Moves(loaded[h], request[h])
  <2>1. Edited(h).status = request[h].status
    BY <1>1, <1>3 DEF Edited, transition_work_order, Row
  <2>2. QED
    BY <1>2, <1>3, <2>1 DEF UpdateInv, Supported
<1>4. CASE ~Moves(loaded[h], request[h])
  <2>1. Edited(h).status = loaded[h].status
    BY <1>1, <1>4 DEF Edited, Row
  <2>2. QED
    BY <1>2, <2>1 DEF Supported
<1>5. QED
  BY <1>3, <1>4

\* What a step does to the status of an order that is there.
LEMMA MoveStep ==
  ASSUME IInv, [Next]_vars, NEW o \in Placed
  PROVE  \/ Supported(orders[o].status, orders'[o].status)
         \/ \E h \in Handlers : /\ request[h] # None /\ request[h].order = o
                               /\ loaded[h] # orders[o] /\ request'[h] = None
<1> DEFINE Overtaken(h) == /\ request[h] # None /\ request[h].order = o
                           /\ loaded[h] # orders[o] /\ request'[h] = None
<1>1. o \in OrderIds /\ orders[o] # None
  BY DEF Placed
<1>2. CASE orders'[o] = orders[o]
  BY <1>2 DEF Supported
<1>3. ASSUME NEW p \in OrderIds, NEW by \in Members, CreateWorkOrder(p, by)
      PROVE  orders'[o] = orders[o]
  BY <1>1, <1>3 DEF CreateWorkOrder, IInv, TypeOK
<1>4. ASSUME NEW h \in Handlers, LoadWorkOrder(h) \/ AbortUpdate(h)
      PROVE  orders'[o] = orders[o]
  BY <1>4 DEF LoadWorkOrder, AbortUpdate
<1>5. ASSUME NEW h \in Handlers, CommitUpdate(h)
      PROVE  \/ Supported(orders[o].status, orders'[o].status)
             \/ Overtaken(h)
  <2>1. CASE request[h].order # o
    <3>1. orders'[o] = orders[o]
      BY <1>1, <1>5, <2>1 DEF CommitUpdate, IInv, TypeOK
    <3>2. QED
      BY <3>1 DEF Supported
  <2>2. CASE request[h].order = o /\ orders[o] # loaded[h]
    BY <1>5, <2>2 DEF CommitUpdate, Finish, IInv, TypeOK
  <2>3. CASE request[h].order = o /\ orders[o] = loaded[h]
    <3>1. Supported(loaded[h].status, Saved(h).status)
      BY <1>5, <2>3, FreshMove DEF CommitUpdate, IInv
    <3>2. orders'[o] = Saved(h)
      BY <1>1, <1>5, <2>3 DEF CommitUpdate, IInv, TypeOK
    <3>3. QED
      BY <2>3, <3>1, <3>2
  <2>4. QED
    BY <2>1, <2>2, <2>3
<1>6. QED
  BY <1>2, <1>3, <1>4, <1>5 DEF Next, vars

\* Only an update that was overtaken between its check and its commit makes a
\* move that ALLOWED_TRANSITIONS does not have.
THEOREM OnlyStaleUpdatesMisbehave == Spec => UnsupportedMovesAreStale
<1>1. IInv /\ [Next]_vars =>
        [\A o \in Placed :
           \/ Supported(orders[o].status, orders'[o].status)
           \/ \E h \in Handlers : /\ request[h] # None /\ request[h].order = o
                                 /\ loaded[h] # orders[o] /\ request'[h] = None]_vars
  BY MoveStep
<1>2. QED
  BY <1>1, Invariance, PTL DEF Spec, UnsupportedMovesAreStale

\* The row an update has read is the row there is.
UpToDate == \A h \in Handlers : request[h] # None => loaded[h] = orders[request[h].order]

\* With one request at a time it stays so: nobody is there to overtake it.
LEMMA UpToDateStep ==
  ASSUME IInv, UpToDate, [Next]_vars, \A g, h \in Handlers : g = h
  PROVE  UpToDate'
<1> USE DEF IInv, UpToDate
<1>1. CASE UNCHANGED vars
  BY <1>1 DEF vars, updates
<1>2. ASSUME NEW o \in OrderIds, NEW by \in Members, CreateWorkOrder(o, by)
      PROVE  UpToDate'
  <2>1. \A h \in Handlers : request[h] # None =>
          request[h].order \in OrderIds \ {o}
    BY <1>2 DEF CreateWorkOrder, UpdateInv, TypeOK, Update
  <2>2. QED
    BY <1>2, <2>1 DEF CreateWorkOrder, TypeOK, updates
<1>3. ASSUME NEW h \in Handlers, LoadWorkOrder(h) PROVE UpToDate'
  BY <1>3 DEF LoadWorkOrder, TypeOK
<1>4. ASSUME NEW h \in Handlers, CommitUpdate(h) \/ AbortUpdate(h) PROVE UpToDate'
  <2>1. request'[h] = None
    BY <1>4 DEF CommitUpdate, AbortUpdate, Finish, TypeOK
  <2>2. QED
    BY <2>1
<1>5. QED
  BY <1>1, <1>2, <1>3, <1>4 DEF Next

\* Where PATCH /work-orders are served one at a time, every order moves along
\* the supported transitions: the moves that are not come from overlap alone.
THEOREM SerialUpdatesMoveAsSupported ==
  ASSUME \A g, h \in Handlers : g = h PROVE Spec => OnlySupportedMoves
<1>1. Init => UpToDate
  BY DEF Init, UpToDate
<1>2. IInv /\ UpToDate /\ [Next]_vars => UpToDate'
  BY UpToDateStep
<1>3. IInv /\ UpToDate /\ [Next]_vars =>
        [\A o \in Placed : orders'[o].status \in
            {orders[o].status} \cup ALLOWED_TRANSITIONS[orders[o].status]]_vars
  BY MoveStep DEF UpToDate, Supported
<1>4. QED
  BY <1>1, <1>2, <1>3, Invariance, PTL DEF Spec, OnlySupportedMoves
=============================================================================

------------------------ MODULE BillingWebhooks_proofs ------------------------
(***************************************************************************)
(* Theorems about BillingWebhooks, for any events, bodies and deliveries,  *)
(* as the part Billing of MCIndependentParts.                              *)
(***************************************************************************)
EXTENDS MCIndependentParts, TLAPS

\* The transactions that have inserted a receipt and not committed it.
Open(d) == stage[d] \in {"read", "commit"}

\* What a delivery under way has passed: its receipt is the only one with the
\* event id, committed or not, and the subscription it has read is still there.
DeliveryInv ==
  \A d \in Deliveries :
    /\ stage[d] # "idle" => message[d] # None
    /\ stage[d] # "commit" => found[d] = None
    /\ Open(d) => receipts[message[d].id] = None
    /\ \A c \in Deliveries \ {d} : Open(c) /\ Open(d) => message[c].id # message[d].id
    /\ stage[d] = "read" => message[d].kind # "other"
    /\ stage[d] = "commit" => message[d].kind # "invalid"
    /\ stage[d] = "commit" /\ found[d] # None => subscriptions[message[d].org] # None

\* The inductive invariant.
BillingInv ==
  /\ Billing!TypeOK /\ DeliveryInv
  /\ Billing!OncePerEvent /\ Billing!AcceptedIsRecorded
  /\ Billing!StateOfOneEvent /\ Billing!ColumnsOfEvents

\* It holds before the first delivery.
LEMMA BillingInit == Billing!Init => BillingInv
<1> SUFFICES ASSUME Billing!Init PROVE BillingInv
  OBVIOUS
<1>1. \A o \in Orgs : Billing!Applied(o) = {}
  BY DEF Billing!Init, Billing!Applied
<1>2. QED
  BY <1>1 DEF Billing!Init, BillingInv, Billing!TypeOK, DeliveryInv, Open,
              Billing!OncePerEvent, Billing!AcceptedIsRecorded,
              Billing!StateOfOneEvent, Billing!ColumnsOfEvents

\* The body of a delivery under way.
LEMMA Bodies ==
  ASSUME Billing!TypeOK, DeliveryInv, NEW d \in Deliveries, stage[d] # "idle"
  PROVE  /\ message[d] \in Messages /\ message[d].id \in EventIds
         /\ message[d].org \in Orgs /\ message[d].state \in Billing!Subscription
         /\ message[d].kind \in {"subscription", "other", "invalid"}
<1>1. message[d] \in Messages
  BY DEF Billing!TypeOK, DeliveryInv
<1>2. QED
  BY <1>1, MessagesAssumption DEF Billing!Message

\* A step that touches no table keeps what is said about tables.
LEMMA TablesKept ==
  ASSUME Billing!OncePerEvent, Billing!StateOfOneEvent, Billing!ColumnsOfEvents,
         UNCHANGED <<Billing!tables, raced>>
  PROVE  Billing!OncePerEvent' /\ Billing!StateOfOneEvent' /\ Billing!ColumnsOfEvents'
<1>1. \A o \in Orgs : Billing!Applied(o)' = Billing!Applied(o)
  BY DEF Billing!tables, Billing!Applied
<1>2. QED
  BY <1>1 DEF Billing!tables, Billing!OncePerEvent, Billing!StateOfOneEvent,
              Billing!ColumnsOfEvents

\* What End leaves alone.
LEMMA DeliveryEnded ==
  ASSUME Billing!TypeOK, NEW d \in Deliveries, Billing!End(d)
  PROVE  /\ stage'[d] = "idle" /\ found'[d] = None
         /\ \A c \in Deliveries \ {d} :
              stage'[c] = stage[c] /\ message'[c] = message[c] /\ found'[c] = found[c]
         /\ stage' \in [Deliveries -> {"idle", "lookup", "insert", "read", "commit"}]
         /\ message' \in [Deliveries -> Messages \cup {None}]
         /\ found' \in [Deliveries -> Billing!Subscription \cup {None}]
BY DEF Billing!End, Billing!TypeOK

\* A delivery that ends without a commit.
LEMMA LeaveStep ==
  ASSUME BillingInv, NEW d \in Deliveries, Billing!End(d), UNCHANGED <<Billing!tables, raced>>,
         \/ accepted' = accepted
         \/ /\ stage[d] # "idle" /\ Billing!IsReplay(message[d])
            /\ accepted' = accepted \cup {message[d]}
  PROVE  BillingInv'
<1> USE DEF BillingInv
<1>1. accepted' \subseteq Messages
  BY Bodies DEF Billing!TypeOK
<1>2. Billing!TypeOK'
  BY <1>1, DeliveryEnded DEF Billing!TypeOK, Billing!tables
<1>3. DeliveryInv'
  BY DeliveryEnded DEF DeliveryInv, Open, Billing!tables
<1>4. Billing!AcceptedIsRecorded'
  BY DEF Billing!AcceptedIsRecorded, Billing!IsReplay, Billing!tables
<1>5. QED
  BY <1>2, <1>3, <1>4, TablesKept

\* A delivery that goes one step further without a commit.
LEMMA AdvanceStep ==
  ASSUME BillingInv, NEW d \in Deliveries, UNCHANGED <<Billing!tables, accepted, raced>>,
         Billing!TypeOK',
         \A c \in Deliveries \ {d} :
           stage'[c] = stage[c] /\ message'[c] = message[c] /\ found'[c] = found[c],
         message'[d] # None,
         Open(d)' => /\ receipts[message'[d].id] = None
                     /\ \A c \in Deliveries \ {d} : Open(c) => message[c].id # message'[d].id,
         stage'[d] = "read" => message'[d].kind # "other",
         stage'[d] # "commit" => found'[d] = None,
         stage'[d] = "commit" => /\ message'[d].kind # "invalid"
                                 /\ found'[d] # None =>
                                      subscriptions[message'[d].org] # None
  PROVE  BillingInv'
<1> USE DEF BillingInv
<1>1. DeliveryInv'
  BY DEF DeliveryInv, Open, Billing!tables
<1>2. Billing!AcceptedIsRecorded'
  BY DEF Billing!AcceptedIsRecorded, Billing!tables
<1>3. QED
  BY <1>1, <1>2, TablesKept

\* A request comes in.
LEMMA DeliverStep ==
  ASSUME BillingInv, NEW d \in Deliveries, Billing!Deliver(d) PROVE BillingInv'
<1>1. PICK m \in Messages : message' = [message EXCEPT ![d] = m]
  BY DEF Billing!Deliver
<1>2. m # None
  BY MessagesAssumption, NoneIsNoMessage
<1>3. /\ Billing!TypeOK' /\ stage'[d] = "lookup" /\ message'[d] = m
      /\ \A c \in Deliveries \ {d} :
           stage'[c] = stage[c] /\ message'[c] = message[c] /\ found'[c] = found[c]
      /\ found'[d] = None
  BY <1>1 DEF BillingInv, Billing!TypeOK, Billing!Deliver, Billing!tables, DeliveryInv
<1>4. UNCHANGED <<Billing!tables, accepted, raced>>
  BY DEF Billing!Deliver
<1>5. QED
  BY <1>2, <1>3, <1>4, AdvanceStep DEF Open

\* It finds a receipt and ends, or finds none.
LEMMA LookUpStep ==
  ASSUME BillingInv, NEW d \in Deliveries, Billing!LookUpReceipt(d) PROVE BillingInv'
<1>1. CASE receipts[message[d].id] # None
  BY <1>1, LeaveStep DEF Billing!LookUpReceipt, Billing!AnswerReplay
<1>2. CASE receipts[message[d].id] = None
  <2>1. /\ Billing!TypeOK' /\ stage'[d] = "insert" /\ message'[d] = message[d]
        /\ \A c \in Deliveries \ {d} :
             stage'[c] = stage[c] /\ message'[c] = message[c] /\ found'[c] = found[c]
        /\ UNCHANGED <<Billing!tables, accepted, raced>> /\ found'[d] = None
    BY <1>2 DEF BillingInv, Billing!TypeOK, Billing!LookUpReceipt, Billing!tables, DeliveryInv
  <2>2. message[d] # None
    BY DEF BillingInv, DeliveryInv, Billing!LookUpReceipt
  <2>3. QED
    BY <2>1, <2>2, AdvanceStep DEF Open
<1>3. QED
  BY <1>1, <1>2

\* It inserts its receipt where no other delivery has one with the id.
LEMMA InsertStep ==
  ASSUME BillingInv, NEW d \in Deliveries, Billing!InsertReceipt(d) PROVE BillingInv'
<1>1. CASE receipts[message[d].id] # None
  BY <1>1, LeaveStep DEF Billing!InsertReceipt, Billing!AnswerReplay
<1>2. CASE receipts[message[d].id] = None
  <2>1. /\ Billing!TypeOK' /\ message'[d] = message[d] /\ found' = found
        /\ stage'[d] = IF message[d].kind = "other" THEN "commit" ELSE "read"
        /\ \A c \in Deliveries \ {d} : stage'[c] = stage[c] /\ message'[c] = message[c]
        /\ UNCHANGED <<Billing!tables, accepted, raced>>
    BY <1>2 DEF BillingInv, Billing!TypeOK, Billing!InsertReceipt, Billing!tables
  <2>2. message[d] # None
    BY DEF BillingInv, DeliveryInv, Billing!InsertReceipt
  <2>3. \A c \in Deliveries \ {d} : Open(c) => message[c].id # message[d].id
    BY DEF Billing!InsertReceipt, Billing!IndexFree, Open
  <2>4. found'[d] = None
    BY <2>1 DEF BillingInv, DeliveryInv, Billing!InsertReceipt
  <2>5. QED
    BY <1>2, <2>1, <2>2, <2>3, <2>4, AdvanceStep DEF Open
<1>3. QED
  BY <1>1, <1>2

\* It reads the subscription, or ends because the body is invalid.
LEMMA ReadStep ==
  ASSUME BillingInv, NEW d \in Deliveries, Billing!ReadSubscription(d) PROVE BillingInv'
<1>1. CASE message[d].kind = "invalid"
  BY <1>1, LeaveStep DEF Billing!ReadSubscription
<1>2. CASE message[d].kind # "invalid"
  <2>1. /\ message[d] # None /\ message[d].org \in Orgs /\ receipts[message[d].id] = None
        /\ \A c \in Deliveries \ {d} : Open(c) => message[c].id # message[d].id
    BY Bodies DEF BillingInv, DeliveryInv, Billing!ReadSubscription, Open
  <2>2. /\ Billing!TypeOK' /\ message'[d] = message[d] /\ stage'[d] = "commit"
        /\ found'[d] = subscriptions[message[d].org]
        /\ \A c \in Deliveries \ {d} :
             stage'[c] = stage[c] /\ message'[c] = message[c] /\ found'[c] = found[c]
        /\ UNCHANGED <<Billing!tables, accepted, raced>>
    BY <1>2, <2>1 DEF BillingInv, Billing!TypeOK, Billing!ReadSubscription, Billing!tables
  <2>3. QED
    BY <1>2, <2>1, <2>2, AdvanceStep
<1>3. QED
  BY <1>1, <1>2

\* What the commit of a subscription event writes.
LEMMA Written ==
  ASSUME NEW row \in Billing!Subscription, NEW read \in Billing!Subscription,
         NEW new \in Billing!Subscription
  PROVE  /\ Billing!Updated(row, read, new) \in Billing!Subscription
         /\ Billing!Updated(row, read, new).plan \in {row.plan, new.plan}
         /\ Billing!Updated(row, read, new).status \in {row.status, new.status}
         /\ Billing!Updated(read, read, new) = new
BY DEF Billing!Updated, Billing!Subscription

\* The commit of receipt, subscription and outbox event.
LEMMA CommitDeliveryStep ==
  ASSUME BillingInv, NEW d \in Deliveries, Billing!CommitDelivery(d) PROVE BillingInv'
<1> USE DEF BillingInv
<1>0. PICK m \in Messages : m = message[d]
  BY Bodies DEF Billing!CommitDelivery
<1> DEFINE o == m.org
<1>1. /\ stage[d] = "commit" /\ m = message[d] /\ m.id \in EventIds /\ o \in Orgs
      /\ m.state \in Billing!Subscription /\ m.kind \in {"subscription", "other"}
      /\ receipts[m.id] = None /\ m # None
      /\ found[d] # None => subscriptions[o] # None
  BY <1>0, Bodies DEF Billing!CommitDelivery, DeliveryInv, Open
<1>2. /\ Billing!End(d) /\ accepted' = accepted \cup {m}
      /\ receipts' = [receipts EXCEPT ![m.id] = m]
      /\ receipts'[m.id] = m
      /\ \A e \in EventIds \ {m.id} : receipts'[e] = receipts[e]
  BY <1>1 DEF Billing!CommitDelivery, Billing!Recorded, Billing!TypeOK
<1>3. \A e \in EventIds : receipts[e] # None => receipts'[e] = receipts[e]
  BY <1>1, <1>2
<1>4. Billing!AcceptedIsRecorded'
  <2> SUFFICES ASSUME NEW a \in accepted \cup {m} PROVE receipts'[a.id] = a
    BY <1>2 DEF Billing!AcceptedIsRecorded
  <2>1. CASE a \in accepted
    <3>1. receipts[a.id] = a /\ a.id \in EventIds /\ a # None
      BY <2>1, MessagesAssumption, NoneIsNoMessage
         DEF Billing!AcceptedIsRecorded, Billing!TypeOK, Billing!Message
    <3>2. QED
      BY <1>3, <3>1
  <2>2. QED
    BY <1>2, <2>1
<1>5. \A p \in Orgs : Billing!Applied(p) \subseteq Billing!Applied(p)'
  BY <1>3 DEF Billing!Applied
<1>6. CASE m.kind = "other"
  <2>1. UNCHANGED <<subscriptions, outbox, raced>>
    BY <1>1, <1>6 DEF Billing!CommitDelivery
  <2>2. \A p \in Orgs : Billing!Applied(p)' = Billing!Applied(p)
    BY <1>2, <1>3, <1>6 DEF Billing!Applied
  <2>3. Billing!TypeOK'
    BY <1>1, <1>2, <2>1, DeliveryEnded DEF Billing!TypeOK
  <2>4. DeliveryInv'
    BY <1>1, <1>2, <2>1, DeliveryEnded DEF DeliveryInv, Open
  <2>5. Billing!OncePerEvent'
    BY <1>1, <1>2, <1>6, <2>1 DEF Billing!OncePerEvent
  <2>6. Billing!StateOfOneEvent' /\ Billing!ColumnsOfEvents'
    BY <2>1, <2>2 DEF Billing!StateOfOneEvent, Billing!ColumnsOfEvents
  <2>7. QED
    BY <1>4, <2>3, <2>4, <2>5, <2>6
<1>7. CASE m.kind = "subscription"
  <2> DEFINE new == IF found[d] = None THEN m.state
                    ELSE Billing!Updated(subscriptions[o], found[d], m.state)
  <2>1. /\ ~Billing!RacesFirstInsert(d)
        /\ subscriptions' = [subscriptions EXCEPT ![o] = new]
        /\ outbox' = [outbox EXCEPT ![m.id] = outbox[m.id] + 1]
        /\ raced' = IF subscriptions[o] = found[d] THEN raced ELSE raced \cup {o}
    BY <1>1, <1>7 DEF Billing!CommitDelivery
  <2>2. /\ found[d] # None => /\ found[d] \in Billing!Subscription
                              /\ subscriptions[o] \in Billing!Subscription
        /\ found[d] = None => subscriptions[o] = None
    BY <1>1, <2>1 DEF Billing!TypeOK, Billing!RacesFirstInsert
  <2>3. new \in Billing!Subscription
    BY <1>1, <2>2, Written
  <2>4. /\ subscriptions'[o] = new /\ new # None
        /\ \A p \in Orgs \ {o} : subscriptions'[p] = subscriptions[p]
    BY <1>1, <2>1, <2>3, NoneIsNoMessage DEF Billing!TypeOK
  <2>5. m.state \in Billing!Applied(o)'
    BY <1>1, <1>2, <1>7 DEF Billing!Applied
  <2>6. \A p \in Orgs \ {o} : Billing!Applied(p)' = Billing!Applied(p)
    BY <1>2, <1>3 DEF Billing!Applied
  <2>7. Billing!TypeOK'
    <3>1. subscriptions' \in [Orgs -> Billing!Subscription \cup {None}]
      BY <1>1, <2>1, <2>3 DEF Billing!TypeOK
    <3>2. receipts' \in [EventIds -> Messages \cup {None}] /\ accepted' \subseteq Messages
      BY <1>1, <1>2 DEF Billing!TypeOK
    <3>3. outbox' \in [EventIds -> Nat] /\ raced' \subseteq Orgs
      BY <1>1, <2>1 DEF Billing!TypeOK
    <3>4. QED
      BY <1>2, <3>1, <3>2, <3>3, DeliveryEnded DEF Billing!TypeOK
  <2>8. DeliveryInv'
    <3> SUFFICES ASSUME NEW c \in Deliveries
                 PROVE  /\ stage'[c] # "idle" => message'[c] # None
                        /\ stage'[c] # "commit" => found'[c] = None
                        /\ Open(c)' => receipts'[message'[c].id] = None
                        /\ \A b \in Deliveries \ {c} :
                             Open(b)' /\ Open(c)' => message'[b].id # message'[c].id
                        /\ stage'[c] = "read" => message'[c].kind # "other"
                        /\ stage'[c] = "commit" => message'[c].kind # "invalid"
                        /\ stage'[c] = "commit" /\ found'[c] # None =>
                             subscriptions'[message'[c].org] # None
      BY DEF DeliveryInv, Open
    <3>1. CASE c = d
      BY <1>2, <3>1, DeliveryEnded DEF Open
    <3>2. CASE c # d
      <4>1. /\ stage'[c] = stage[c] /\ message'[c] = message[c] /\ found'[c] = found[c]
            /\ Open(c)' = Open(c)
        BY <1>2, <3>2, DeliveryEnded DEF Open
      <4>2. \A b \in Deliveries \ {c} :
              Open(b)' /\ Open(c)' => message'[b].id # message'[c].id
        BY <1>2, <4>1, DeliveryEnded DEF DeliveryInv, Open
      <4>3. Open(c) => receipts'[message[c].id] = None
        <5>1. Open(c) => message[c].id # m.id /\ message[c].id \in EventIds
          BY <1>1, <3>2, Bodies DEF DeliveryInv, Open
        <5>2. QED
          BY <1>2, <5>1 DEF DeliveryInv
      <4>4. stage[c] = "commit" /\ found[c] # None => subscriptions'[message[c].org] # None
        <5>1. stage[c] = "commit" => message[c].org \in Orgs
          BY Bodies
        <5>2. QED
          BY <2>4, <5>1 DEF DeliveryInv
      <4>5. QED
        BY <4>1, <4>2, <4>3, <4>4 DEF DeliveryInv
    <3>3. QED
      BY <3>1, <3>2
  <2>9. Billing!OncePerEvent'
    <3> SUFFICES ASSUME NEW e \in EventIds
                 PROVE  outbox'[e] = IF receipts'[e] # None /\ receipts'[e].kind = "subscription"
                                     THEN 1 ELSE 0
      BY DEF Billing!OncePerEvent
    <3>1. CASE e = m.id
      <4>1. outbox[e] = 0
        BY <1>1, <3>1 DEF Billing!OncePerEvent
      <4>2. QED
        BY <1>1, <1>2, <1>7, <2>1, <3>1, <4>1 DEF Billing!TypeOK
    <3>2. CASE e # m.id
      BY <1>2, <2>1, <3>2 DEF Billing!OncePerEvent, Billing!TypeOK
    <3>3. QED
      BY <3>1, <3>2
  <2>10. Billing!StateOfOneEvent'
    <3> SUFFICES ASSUME NEW p \in Orgs, p \notin raced', subscriptions'[p] # None
                 PROVE  subscriptions'[p] \in Billing!Applied(p)'
      BY DEF Billing!StateOfOneEvent
    <3>0. p \notin raced
      BY <2>1
    <3>1. CASE p = o
      <4>1. subscriptions[o] = found[d]
        BY <2>1, <3>1
      <4>2. new = m.state
        BY <1>1, <2>2, <4>1, Written
      <4>3. QED
        BY <2>4, <2>5, <3>1, <4>2
    <3>2. CASE p # o
      BY <2>4, <2>6, <3>0, <3>2 DEF Billing!StateOfOneEvent
    <3>3. QED
      BY <3>1, <3>2
  <2>11. Billing!ColumnsOfEvents'
    <3> SUFFICES ASSUME NEW p \in Orgs
                 PROVE  IF Billing!Applied(p)' = {} THEN subscriptions'[p] = None
                        ELSE /\ subscriptions'[p] # None
                             /\ \E x \in Billing!Applied(p)' : subscriptions'[p].plan = x.plan
                             /\ \E x \in Billing!Applied(p)' : subscriptions'[p].status = x.status
      BY DEF Billing!ColumnsOfEvents
    <3>1. CASE p = o
      <4>1. Billing!Applied(o)' # {}
        BY <2>5
      <4>2. subscriptions[o] # None =>
              /\ \E x \in Billing!Applied(o) : subscriptions[o].plan = x.plan
              /\ \E x \in Billing!Applied(o) : subscriptions[o].status = x.status
        BY <1>1 DEF Billing!ColumnsOfEvents
      <4>3. CASE found[d] = None
        BY <2>4, <2>5, <3>1, <4>1, <4>3
      <4>4. CASE found[d] # None
        <5>1. /\ new.plan \in {subscriptions[o].plan, m.state.plan}
              /\ new.status \in {subscriptions[o].status, m.state.status}
          BY <1>1, <2>2, <4>4, Written
        <5>2. subscriptions[o] # None
          BY <1>1, <4>4
        <5>3. QED
          BY <1>1, <1>5, <2>4, <2>5, <3>1, <4>1, <4>2, <5>1, <5>2
      <4>5. QED
        BY <4>3, <4>4
    <3>2. CASE p # o
      BY <2>4, <2>6, <3>2 DEF Billing!ColumnsOfEvents
    <3>3. QED
      BY <3>1, <3>2
  <2>12. QED
    BY <1>4, <2>7, <2>8, <2>9, <2>10, <2>11
<1>8. QED
  BY <1>1, <1>6, <1>7

\* The invariant is inductive.
LEMMA BillingStep == BillingInv /\ [Billing!Next]_billingVars => BillingInv'
<1> SUFFICES ASSUME BillingInv, [Billing!Next]_billingVars PROVE BillingInv'
  OBVIOUS
<1>1. CASE UNCHANGED billingVars
  <2>1. UNCHANGED <<Billing!tables, raced>> /\ UNCHANGED <<stage, message, found, accepted>>
    BY <1>1 DEF billingVars, Billing!tables
  <2>2. Billing!TypeOK' /\ DeliveryInv' /\ Billing!AcceptedIsRecorded'
    BY <2>1 DEF BillingInv, Billing!TypeOK, DeliveryInv, Open, Billing!AcceptedIsRecorded,
                Billing!tables
  <2>3. QED
    BY <2>1, <2>2, TablesKept DEF BillingInv
<1>2. ASSUME NEW d \in Deliveries, Billing!FailFirstInsert(d) \/ Billing!Abort(d)
      PROVE  BillingInv'
  BY <1>2, LeaveStep DEF Billing!FailFirstInsert, Billing!Abort
<1>3. CASE Billing!Next
  BY <1>2, <1>3, DeliverStep, LookUpStep, InsertStep, ReadStep, CommitDeliveryStep
     DEF Billing!Next
<1>4. QED
  BY <1>1, <1>3

\* The webhooks of a run of the parts are those of BillingWebhooks.
LEMMA BillingInvariance == PartsSpec => []BillingInv
<1>1. PartsInit => BillingInv
  BY BillingInit DEF PartsInit
<1>2. [PartsNext]_partsVars => [Billing!Next]_billingVars
  BY DEF PartsNext, partsVars
<1>3. QED
  BY <1>1, <1>2, BillingStep, PTL DEF PartsSpec

\* ADR 0005: an event has its one outbox row exactly when it has a receipt,
\* however often and however concurrently it is delivered.
THEOREM NoEventTwice == PartsSpec => []OncePerEvent
BY BillingInvariance, PTL DEF BillingInv, OncePerEvent

\* A 202 means that the receipt is for exactly this body.
THEOREM AnswersAreTrue == PartsSpec => []AcceptedIsRecorded
BY BillingInvariance, PTL DEF BillingInv, AcceptedIsRecorded

\* A subscription that no two deliveries overlapped in changing is what one
\* event said of it.
THEOREM OneEventSpeaks == PartsSpec => []StateOfOneEvent
BY BillingInvariance, PTL DEF BillingInv, StateOfOneEvent

\* Every column of a subscription is what some event said.
THEOREM ColumnsAreSpoken == PartsSpec => []ColumnsOfEvents
BY BillingInvariance, PTL DEF BillingInv, ColumnsOfEvents
=============================================================================

-------------------------- MODULE BillingWebhooks --------------------------
(***************************************************************************)
(* POST /billing/webhooks/demo: process_subscription_event of              *)
(* services/billing.py and the route that calls it.  The provider may      *)
(* deliver any of its messages at any time, more than once and several at  *)
(* once; the signature has been verified.  A delivery is one transaction,  *)
(* which flushes the receipt of the event first and reads and writes the   *)
(* subscription of the organization after it.                              *)
(***************************************************************************)
EXTENDS Integers

CONSTANTS
  EventIds, Orgs, Plans, Statuses,
  Messages,     \* the request bodies the provider sends
  Deliveries,   \* requests in flight at once
  None

\* kind is "subscription" for the three subscription events, "other" for the
\* event types that are recorded only, "invalid" for a subscription event whose
\* plan, status or period end cannot be read.
Subscription == [plan : Plans, status : Statuses]
Message == [id : EventIds, kind : {"subscription", "other", "invalid"},
            org : Orgs, state : Subscription]

VARIABLES
  receipts,       \* receipts[e]: the message the committed receipt digests, or None
  subscriptions,  \* subscriptions[o]: the row of the organization, or None
  outbox,         \* outbox[e]: billing.subscription_changed rows for the event e
  pc, message,    \* per delivery: the step, and the body it came with
  found,          \* found[d]: the subscription row d has read
  answered,       \* history: messages that were answered with 202
  raced           \* history: organizations whose subscription changed between
                  \* the read and the commit of a delivery

tables == <<receipts, subscriptions, outbox>>
vars == <<tables, pc, message, found, answered, raced>>

Init ==
  /\ receipts = [e \in EventIds |-> None]
  /\ subscriptions = [o \in Orgs |-> None]
  /\ outbox = [e \in EventIds |-> 0]
  /\ pc = [d \in Deliveries |-> "idle"]
  /\ message = [d \in Deliveries |-> None]
  /\ found = [d \in Deliveries |-> None]
  /\ answered = {}
  /\ raced = {}
-----------------------------------------------------------------------------
Deliver(d) ==
  /\ pc[d] = "idle"
  /\ \E m \in Messages : message' = [message EXCEPT ![d] = m]
  /\ pc' = [pc EXCEPT ![d] = "lookup"]
  /\ UNCHANGED <<tables, found, answered, raced>>

End(d) ==
  /\ pc' = [pc EXCEPT ![d] = "idle"]
  /\ message' = [message EXCEPT ![d] = None]
  /\ found' = [found EXCEPT ![d] = None]

\* The answer to an event that has a receipt: 202 to an identical replay, 409
\* to another body under the same id.
AcceptsAnyReplay(m) == TRUE
IsReplay(m) == receipts[m.id] = m

AnswerReplay(d) ==
  /\ answered' = IF IsReplay(message[d]) THEN answered \cup {message[d]} ELSE answered
  /\ End(d)

\* The first SELECT on webhook_receipts.
LookUpReceipt(d) ==
  /\ pc[d] = "lookup"
  /\ IF receipts[message[d].id] # None
       THEN AnswerReplay(d)
       ELSE /\ pc' = [pc EXCEPT ![d] = "insert"]
            /\ UNCHANGED <<message, found, answered>>
  /\ UNCHANGED <<tables, raced>>

\* The unique index on provider_event_id: an INSERT waits while another
\* transaction that inserted the same id is open, and fails once it committed.
InsertUnchecked(d) == TRUE
IndexFree(d) ==
  \A c \in Deliveries \ {d} :
    pc[c] \in {"read", "commit"} => message[c].id # message[d].id

\* The flush of the receipt, with the recovery from its IntegrityError: roll
\* back, read the receipt of the other delivery.
InsertReceipt(d) ==
  /\ pc[d] = "insert"
  /\ IndexFree(d)
  /\ IF receipts[message[d].id] # None
       THEN AnswerReplay(d)
       ELSE /\ pc' = [pc EXCEPT ![d] = IF message[d].kind = "other" THEN "commit"
                                       ELSE "read"]
            /\ UNCHANGED <<message, found, answered>>
  /\ UNCHANGED <<tables, raced>>

\* The SELECT on subscriptions.  A message that turns out to be invalid, here
\* or while its fields are set, is a 400 and takes its receipt back.
ReadSubscription(d) ==
  /\ pc[d] = "read"
  /\ IF message[d].kind = "invalid"
       THEN End(d)
       ELSE /\ found' = [found EXCEPT ![d] = subscriptions[message[d].org]]
            /\ pc' = [pc EXCEPT ![d] = "commit"]
            /\ UNCHANGED message
  /\ UNCHANGED <<tables, answered, raced>>

\* The UPDATE names the columns whose new value differs from the one read.
UpdatedPlanOnly(row, read, new) == [row EXCEPT !.plan = new.plan]
Updated(row, read, new) ==
  [plan   |-> IF new.plan = read.plan THEN row.plan ELSE new.plan,
   status |-> IF new.status = read.status THEN row.status ELSE new.status]

\* Two first subscriptions of an organization: the second INSERT fails on the
\* unique index, and nothing catches that error (500, all rolled back).
RacesFirstInsert(d) ==
  found[d] = None /\ subscriptions[message[d].org] # None

\* The receipt as it is committed.
ForgetsReceipt(d) == receipts
Recorded(d) == [receipts EXCEPT ![message[d].id] = message[d]]

\* The commit of receipt, subscription and outbox event.
CommitDelivery(d) ==
  /\ pc[d] = "commit"
  /\ IF message[d].kind = "other"
       THEN UNCHANGED <<subscriptions, outbox, raced>>
       ELSE /\ ~RacesFirstInsert(d)
            /\ subscriptions' =
                 [subscriptions EXCEPT ![message[d].org] =
                    IF found[d] = None THEN message[d].state
                    ELSE Updated(@, found[d], message[d].state)]
            /\ outbox' = [outbox EXCEPT ![message[d].id] = @ + 1]
            /\ raced' = IF subscriptions[message[d].org] = found[d] THEN raced
                        ELSE raced \cup {message[d].org}
  /\ receipts' = Recorded(d)
  /\ answered' = answered \cup {message[d]}
  /\ End(d)

FailFirstInsert(d) ==
  /\ pc[d] = "commit"
  /\ message[d].kind = "subscription"
  /\ RacesFirstInsert(d)
  /\ End(d)
  /\ UNCHANGED <<tables, answered, raced>>

\* The connection, the process or the client goes away before the commit.
Abort(d) ==
  /\ pc[d] # "idle"
  /\ End(d)
  /\ UNCHANGED <<tables, answered, raced>>

Next ==
  \E d \in Deliveries :
    \/ Deliver(d) \/ LookUpReceipt(d) \/ InsertReceipt(d)
    \/ ReadSubscription(d) \/ CommitDelivery(d) \/ FailFirstInsert(d)
    \/ Abort(d)

Spec == Init /\ [][Next]_vars
-----------------------------------------------------------------------------
\* Type invariant.
TypeOK ==
  /\ receipts \in [EventIds -> Messages \cup {None}]
  /\ subscriptions \in [Orgs -> Subscription \cup {None}]
  /\ outbox \in [EventIds -> Nat]
  /\ pc \in [Deliveries -> {"idle", "lookup", "insert", "read", "commit"}]
  /\ message \in [Deliveries -> Messages \cup {None}]
  /\ found \in [Deliveries -> Subscription \cup {None}]
  /\ answered \subseteq Messages /\ raced \subseteq Orgs

\* ADR 0005: retries cannot duplicate outbox messages.  An event has its one
\* outbox row exactly when it has a receipt, if it is about a subscription.
OncePerEvent ==
  \A e \in EventIds :
    outbox[e] = IF receipts[e] # None /\ receipts[e].kind = "subscription" THEN 1 ELSE 0

\* ADR 0005: an event id stands for one content.  A 202 means that the receipt
\* is for exactly this body, so of two bodies under one id one is refused.
AcceptedIsRecorded == \A m \in answered : receipts[m.id] = m

Applied(o) ==
  {receipts[e].state : e \in {x \in EventIds :
     receipts[x] # None /\ receipts[x].kind = "subscription" /\ receipts[x].org = o}}

\* The subscription of an organization is what one event said of it, as long as
\* no two deliveries overlapped in changing it.
StateOfOneEvent ==
  \A o \in Orgs \ raced : subscriptions[o] # None => subscriptions[o] \in Applied(o)

\* What is left of it when they do: every column is what some event
\* said, and there is a row exactly when there was an event.
ColumnsOfEvents ==
  \A o \in Orgs :
    IF Applied(o) = {} THEN subscriptions[o] = None
    ELSE /\ subscriptions[o] # None
         /\ subscriptions[o].plan \in {s.plan : s \in Applied(o)}
         /\ subscriptions[o].status \in {s.status : s \in Applied(o)}
=============================================================================

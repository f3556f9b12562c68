-------------------------- MODULE MCIndependentParts --------------------------
(***************************************************************************)
(* Six components that share nothing, for TLC in one run: the pool with    *)
(* its tenant settings, the billing webhooks, the documents, the counters  *)
(* of the limiter, the documents page of the workspace and the             *)
(* registrations.  A behaviour runs one of them and leaves the others in   *)
(* their initial state, which loses nothing: no step of one reads or       *)
(* writes what another one keeps.                                          *)
(***************************************************************************)
EXTENDS TenantContext

CONSTANTS
  EventIds, Plans, Statuses, Messages, Deliveries,   \* BillingWebhooks
  Ids, Handlers,                                     \* Documents
  Limit, Window, Timeout, Clients,                   \* RateLimit
  Calls,                                             \* WebPages
  Emails, Cases, People, Forms                       \* Accounts

ASSUME NoneIsNoDocument == None \notin Ids
ASSUME LimitAssumption == Limit \in Nat \ {0} /\ Window \in Nat \ {0}
ASSUME TimeoutAssumption == Timeout \in 0 .. Window
ASSUME CasesAssumption == "lower" \in Cases

VARIABLES
  part,     \* the component that runs
  receipts, subscriptions, outbox, stage, message, found, accepted, raced,
  rows, temporary, content, used, pc, doc, crashed, unanswered,
  offset, count, ttl, waiting, spent, quiet,
  selected, mounted, documents, properties, propertyId, call, has, uploads,
  switched, overtaken, failed,
  users, form, sessions, answered, lockedOut

Billing == INSTANCE BillingWebhooks WITH pc <- stage, answered <- accepted
Files == INSTANCE Documents
Limiter == INSTANCE RateLimit WITH Requests <- Clients
Page == INSTANCE WebPages
Registry == INSTANCE Accounts

ASSUME MessagesAssumption == Messages \subseteq Billing!Message
ASSUME NoneIsNoMessage == None \notin Billing!Message /\ None \notin Billing!Subscription

billingVars == <<receipts, subscriptions, outbox, stage, message, found, accepted, raced>>
filesVars == <<rows, temporary, content, used, pc, doc, crashed, unanswered>>
limiterVars == <<offset, count, ttl, waiting, spent, quiet>>
pageVars == <<selected, mounted, documents, properties, propertyId, call, has,
              uploads, switched, overtaken, failed>>
registryVars == <<users, form, sessions, answered, lockedOut>>
partsVars ==
  <<part, vars, billingVars, filesVars, limiterVars, pageVars, registryVars>>

\* Three subscription events that change one or both columns, a second body
\* under the id of the first, an event of another type and an invalid one that
\* its sender corrects later.
Body(id, kind, plan, status) ==
  [id |-> id, kind |-> kind, org |-> CHOOSE o \in Orgs : TRUE,
   state |-> [plan |-> plan, status |-> status]]

BodiesSent ==
  {Body(1, "subscription", "starter", "active"),
   Body(1, "subscription", "scale", "cancelled"),
   Body(2, "subscription", "scale", "active"),
   Body(2, "other", "scale", "active"),
   Body(3, "subscription", "starter", "cancelled"),
   Body(3, "invalid", "starter", "cancelled")}

\* The page of a component that does not run shows one fixed organization.
PartsInit ==
  /\ part \in {"tenants", "billing", "files", "limiter", "page", "registry"}
  /\ Init /\ Billing!Init /\ Files!Init /\ Limiter!Init /\ Page!Init /\ Registry!Init
  /\ part = "page" \/ selected = CHOOSE o \in Orgs : TRUE

PartsNext ==
  /\ UNCHANGED part
  /\ \/ /\ part = "tenants" /\ Next
        /\ UNCHANGED <<billingVars, filesVars, limiterVars, pageVars, registryVars>>
     \/ /\ part = "billing" /\ Billing!Next
        /\ UNCHANGED <<vars, filesVars, limiterVars, pageVars, registryVars>>
     \/ /\ part = "files" /\ Files!Next
        /\ UNCHANGED <<vars, billingVars, limiterVars, pageVars, registryVars>>
     \/ /\ part = "limiter" /\ Limiter!Next
        /\ UNCHANGED <<vars, billingVars, filesVars, pageVars, registryVars>>
     \/ /\ part = "page" /\ Page!Next
        /\ UNCHANGED <<vars, billingVars, filesVars, limiterVars, registryVars>>
     \/ /\ part = "registry" /\ Registry!Next
        /\ UNCHANGED <<vars, billingVars, filesVars, limiterVars, pageVars>>

PartsSpec == PartsInit /\ [][PartsNext]_partsVars
-----------------------------------------------------------------------------
\* The type invariants of the six.
PartsTypeOK ==
  /\ TypeOK /\ Billing!TypeOK /\ Files!TypeOK
  /\ Limiter!TypeOK /\ Page!TypeOK /\ Registry!TypeOK

\* An event has its one outbox row exactly when it has a receipt
\* (BillingWebhooks).
OncePerEvent == Billing!OncePerEvent

\* A 202 means that the receipt is for exactly this body (BillingWebhooks).
AcceptedIsRecorded == Billing!AcceptedIsRecorded

\* A subscription is what one event said of it, unless deliveries overlapped in
\* changing it (BillingWebhooks).
StateOfOneEvent == Billing!StateOfOneEvent

\* Even then every column is what some event said (BillingWebhooks).
ColumnsOfEvents == Billing!ColumnsOfEvents

\* A document that can be found can be downloaded, whatever fails or crashes,
\* unless a commit that raised took effect (Documents).
RowHasContent == Files!RowHasContent

\* A file that no row and no request knows of is there only after a crash or a
\* commit that raised and took effect (Documents).
NoOrphans == Files!NoOrphans

\* Whatever came within the length of a window, at most twice the limit gets
\* past the counter (RateLimit).
BurstBounded == Limiter!BurstBounded

\* Who waits as long as the 429 says finds no count left (RateLimit).
RetryAfterSuffices == Limiter!RetryAfterSuffices

\* What the documents page lists when it waits for nothing belongs to the
\* selected organization, unless a switch overtook a call or a load failed
\* (WebPages).
ShownIsSelected == Page!ShownIsSelected

\* A document is filed under a property of its own organization, unless the
\* organization was switched on the open page (WebPages).
UploadsNameOwnProperty == Page!UploadsNameOwnProperty

\* Of the people who register one email at most one gets it, and he can sign in
\* however he types it (Accounts).
EmailHasOneOwner == Registry!EmailHasOneOwner
=============================================================================

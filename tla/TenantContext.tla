--------------------------- MODULE TenantContext ---------------------------
(***************************************************************************)
(* Row-level security under a pool of connections.  The policies of the    *)
(* migrations admit the rows of the organization named by a setting of the *)
(* connection; a request sets it inside its transaction, and a transaction *)
(* takes whatever connection of the pool is free.  A handler is here the   *)
(* sequence of what it does to its transaction: the tables its statements  *)
(* read or write, set_config, commit and rollback.  It may stop anywhere:  *)
(* an early return, a refusal or an error all close the session.           *)
(***************************************************************************)
EXTENDS Sequences, Naturals

CONSTANTS
  Orgs, Connections, Requests,
  None         \* no organization, no connection

ASSUME NoneIsNobody == None \notin Orgs /\ None \notin Connections

VARIABLES
  setting,     \* per connection: app.current_organization_id, None if not set
  conn,        \* per request: the connection of its transaction, None between two
  org,         \* per request: the organization it acts for, or None
  todo         \* per request: what is left of its handler

vars == <<setting, conn, org, todo>>

\* TENANT_TABLES of the two migrations; their policies cover reads and writes.
InitialTables ==
  {"properties", "units", "tenant_profiles", "leases", "invitations", "audit_logs"}
OperationsTables ==
  {"subscriptions", "work_orders", "work_order_comments", "documents", "notifications"}
EventsProtected == InitialTables \cup OperationsTables \cup {"outbox_events"}
Protected == InitialTables \cup OperationsTables
OtherTables ==
  {"users", "organizations", "memberships", "outbox_events", "refresh_sessions",
   "webhook_receipts"}
Statements == Protected \cup OtherTables \cup {"set_config", "commit", "rollback"}
-----------------------------------------------------------------------------
(***************************************************************************)
(* The handlers, the first statements of most being those of               *)
(* get_current_user and get_tenant_context.  What a unit of work adds is   *)
(* written at the flush or commit that follows it; conditional statements  *)
(* are all there.                                                          *)
(***************************************************************************)
get_tenant_context == <<"users", "memberships", "set_config">>
InTenant(body) == get_tenant_context \o body

create_property == InTenant(<<"properties", "audit_logs", "commit">>)
list_properties == InTenant(<<"properties">>)
create_unit == InTenant(<<"properties", "units", "commit">>)
list_units == InTenant(<<"units">>)
create_tenant == InTenant(<<"tenant_profiles", "commit">>)
list_tenants == InTenant(<<"tenant_profiles">>)
create_lease ==
  InTenant(<<"units", "tenant_profiles", "leases", "leases", "audit_logs", "commit">>)
list_leases == InTenant(<<"leases">>)

create_work_order ==
  InTenant(<<"properties", "units", "memberships", "work_orders", "notifications",
             "audit_logs", "commit">>)
list_work_orders == InTenant(<<"work_orders">>)
update_work_order ==
  InTenant(<<"work_orders", "memberships", "work_orders", "audit_logs",
             "notifications", "commit">>)
add_work_order_comment ==
  InTenant(<<"work_orders", "work_order_comments", "commit">>)
list_work_order_comments == InTenant(<<"work_orders", "work_order_comments">>)

upload_document == InTenant(<<"documents", "audit_logs", "commit">>)
list_documents == InTenant(<<"documents">>)
download_document == InTenant(<<"documents">>)
delete_document == InTenant(<<"documents", "audit_logs", "documents", "commit">>)

list_notifications == InTenant(<<"notifications">>)
unread_notification_count == InTenant(<<"notifications">>)
mark_notification_read == InTenant(<<"notifications", "notifications", "commit">>)

dashboard_summary ==
  InTenant(<<"properties", "units", "leases", "work_orders", "notifications",
             "subscriptions">>)
list_audit_logs == InTenant(<<"audit_logs">>)
read_subscription == InTenant(<<"subscriptions">>)
list_members == InTenant(<<"memberships", "users">>)
invite_member == InTenant(<<"invitations", "outbox_events", "audit_logs", "commit">>)

\* The organization of these two comes from a signed invitation or event.
accept_invitation ==
  <<"users", "set_config", "invitations", "memberships", "memberships", "invitations",
    "outbox_events", "commit">>
process_subscription_event ==
  <<"webhook_receipts", "organizations", "webhook_receipts", "set_config",
    "subscriptions", "subscriptions", "outbox_events", "webhook_receipts", "commit">>
process_other_event ==
  <<"webhook_receipts", "organizations", "webhook_receipts", "webhook_receipts", "commit">>
process_concurrent_event ==
  <<"webhook_receipts", "organizations", "webhook_receipts", "rollback",
    "webhook_receipts">>

\* These act for no organization.
register == <<"users", "users", "commit", "users">>
issue_token == <<"users", "refresh_sessions", "commit">>
rotate_refresh_token ==
  <<"refresh_sessions", "refresh_sessions", "refresh_sessions", "commit">>
revoke_refresh_token == <<"refresh_sessions", "refresh_sessions", "commit">>
read_current_user == <<"users">>
create_organization ==
  <<"users", "organizations", "memberships", "commit", "organizations">>
list_organizations == <<"users", "organizations", "memberships">>
publish_outbox_events == <<"outbox_events", "outbox_events", "commit">>

OfOrganization ==
  {create_property, list_properties, create_unit, list_units, create_tenant,
   list_tenants, create_lease, list_leases, create_work_order, list_work_orders,
   update_work_order, add_work_order_comment, list_work_order_comments,
   upload_document, list_documents, download_document, delete_document,
   list_notifications, unread_notification_count, mark_notification_read,
   dashboard_summary, list_audit_logs, read_subscription, list_members, invite_member,
   accept_invitation, process_subscription_event, process_other_event,
   process_concurrent_event}
OfNobody ==
  {register, issue_token, rotate_refresh_token, revoke_refresh_token,
   read_current_user, create_organization, list_organizations, publish_outbox_events}
-----------------------------------------------------------------------------
Init ==
  /\ setting = [c \in Connections |-> None]
  /\ conn = [r \in Requests |-> None]
  /\ org = [r \in Requests |-> None]
  /\ todo = [r \in Requests |-> <<>>]

Start(r) ==
  /\ todo[r] = <<>> /\ conn[r] = None
  /\ \/ \E o \in Orgs, handler \in OfOrganization :
          org' = [org EXCEPT ![r] = o] /\ todo' = [todo EXCEPT ![r] = handler]
     \/ \E handler \in OfNobody :
          org' = [org EXCEPT ![r] = None] /\ todo' = [todo EXCEPT ![r] = handler]
  /\ UNCHANGED <<setting, conn>>

\* The first statement of a transaction takes a free connection of the pool.
Begin(r) ==
  /\ todo[r] # <<>> /\ conn[r] = None
  /\ \E c \in Connections :
       /\ \A other \in Requests : conn[other] # c
       /\ conn' = [conn EXCEPT ![r] = c]
  /\ UNCHANGED <<setting, org, todo>>

Does(r, statement) ==
  /\ conn[r] # None /\ todo[r] # <<>> /\ Head(todo[r]) = statement
  /\ todo' = [todo EXCEPT ![r] = Tail(@)]

\* set_config(name, value, true): for the rest of the transaction.
SetContext(r) ==
  /\ Does(r, "set_config")
  /\ setting' = [setting EXCEPT ![conn[r]] = org[r]]
  /\ UNCHANGED <<conn, org>>

Query(r) ==
  /\ \E table \in Protected \cup OtherTables : Does(r, table)
  /\ UNCHANGED <<setting, conn, org>>

\* A transaction ends: what was set for it alone is undone, and its connection
\* goes back to the pool.
SetForSession(value) == value
AfterTransaction(value) == None
EndTransaction(r) ==
  /\ setting' = [setting EXCEPT ![conn[r]] = AfterTransaction(@)]
  /\ conn' = [conn EXCEPT ![r] = None]

Commit(r) ==
  /\ Does(r, "commit") \/ Does(r, "rollback")
  /\ EndTransaction(r)
  /\ UNCHANGED org

\* get_db closes the session: the handler is done, has refused or has failed.
Close(r) ==
  /\ conn[r] # None
  /\ EndTransaction(r)
  /\ todo' = [todo EXCEPT ![r] = <<>>]
  /\ UNCHANGED org

Next ==
  \E r \in Requests :
    Start(r) \/ Begin(r) \/ SetContext(r) \/ Query(r) \/ Commit(r) \/ Close(r)

Spec == Init /\ [][Next]_vars
-----------------------------------------------------------------------------
\* USING and WITH CHECK of the policies: the rows a connection may see or write.
Admitted(c) == {o \in Orgs : setting[c] = o}

\* Type invariant.
TypeOK ==
  /\ setting \in [Connections -> Orgs \cup {None}]
  /\ conn \in [Requests -> Connections \cup {None}]
  /\ org \in [Requests -> Orgs \cup {None}]
  /\ todo \in [Requests -> Seq(Statements)]

\* ADR 0002: at any moment of a request, before and after it sets its context
\* and whichever connection it got, the policies by themselves keep the rows of
\* all other organizations from it; of a request without one, those of all.
OnlyOwnRows ==
  \A r \in Requests : conn[r] # None => Admitted(conn[r]) \subseteq {org[r]}

\* A statement on a table with a policy runs in a transaction that has set the
\* context: nothing a request needs is hidden from it or refused, not by a
\* commit before it, and not from the worker and the logins, which set none.
OwnRowsVisible ==
  \A r \in Requests :
    conn[r] # None /\ todo[r] # <<>> /\ Head(todo[r]) \in Protected
      => org[r] \in Admitted(conn[r])
=============================================================================

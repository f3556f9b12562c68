----------------------- MODULE IndependentParts_proofs -----------------------
(***************************************************************************)
(* Theorems about the components of MCIndependentParts, for any constants: *)
(* TenantContext first, then Documents, RateLimit, WebPages and Accounts,  *)
(* whose operators are those of the instances Files, Limiter, Page and     *)
(* Registry.  Each has an inductive invariant of its own.  Those about     *)
(* Billing are in BillingWebhooks_proofs.                                  *)
(***************************************************************************)
EXTENDS MCIndependentParts, BillingWebhooks_proofs, SequenceTheorems, FiniteSetTheorems, TLAPS

-----------------------------------------------------------------------------
(* TenantContext.                                                          *)

Ends == {"commit", "rollback"}

\* What is left of a handler, if the context of its transaction is set or not:
\* a statement on a table with a policy comes after set_config, and before the
\* first transaction ends.
Covered(s, isSet) ==
  \A i \in 1 .. Len(s) : s[i] \in Protected =>
    /\ \A k \in 1 .. i - 1 : s[k] \notin Ends
    /\ isSet \/ \E k \in 1 .. i - 1 : s[k] = "set_config"

Unguarded(s) == \A i \in 1 .. Len(s) : s[i] \notin Protected
OneTransaction(s) == \A i \in 1 .. Len(s) - 1 : s[i] \notin Ends

\* The first statements of a tenant's request.
LEMMA ContextProgram ==
  LET g == get_tenant_context
  IN  g \in Seq(Statements) /\ Len(g) = 3
      /\ g[1] = "users" /\ g[2] = "memberships" /\ g[3] = "set_config"
BY DEF get_tenant_context, Statements, OtherTables

\* No other statement is one on a table with a policy.
LEMMA FreeStatements ==
  (OtherTables \cup Ends \cup {"set_config"}) \cap Protected = {}
BY DEF OtherTables, Ends, Protected, InitialTables, OperationsTables

\* In a tenant's request a body of a single transaction is covered.
LEMMA InTenantCovered ==
  ASSUME NEW body \in Seq(Statements), OneTransaction(body)
  PROVE  InTenant(body) \in Seq(Statements) /\ Covered(InTenant(body), FALSE)
<1> DEFINE g == get_tenant_context
           s == InTenant(body)
<1>1. /\ g \in Seq(Statements) /\ Len(g) = 3
      /\ g[1] = "users" /\ g[2] = "memberships" /\ g[3] = "set_config"
  BY ContextProgram
<1>2. s \in Seq(Statements) /\ Len(s) = 3 + Len(body) /\ Len(body) \in Nat
  <2>1. Len(body) \in Nat
    BY LenProperties
  <2>2. g \o body \in Seq(Statements) /\ Len(g \o body) = Len(g) + Len(body)
    BY <1>1, ConcatProperties
  <2>3. QED
    BY <2>1, <2>2, <1>1 DEF InTenant
<1>3. \A i \in 1 .. Len(s) : s[i] = IF i <= 3 THEN g[i] ELSE body[i - 3]
  <2>1. \A i \in 1 .. Len(g) + Len(body) :
          (g \o body)[i] = IF i <= Len(g) THEN g[i] ELSE body[i - Len(g)]
    BY <1>1, ConcatProperties
  <2>2. QED
    BY <2>1, <1>1, <1>2 DEF InTenant
<1> HIDE DEF g, s
<1>4. ASSUME NEW i \in 1 .. Len(s), s[i] \in Protected
      PROVE  /\ \A k \in 1 .. i - 1 : s[k] \notin Ends
             /\ \E k \in 1 .. i - 1 : s[k] = "set_config"
  <2>1. i > 3
    <3>1. g[1] \notin Protected /\ g[2] \notin Protected /\ g[3] \notin Protected
      BY <1>1, FreeStatements DEF OtherTables
    <3>2. i \in Nat /\ (i <= 3 => i = 1 \/ i = 2 \/ i = 3)
      BY <1>2
    <3>3. QED
      BY <3>1, <3>2, <1>3, <1>4
  <2>2. s[3] = "set_config" /\ 3 \in 1 .. i - 1
    BY <2>1, <1>1, <1>2, <1>3
  <2>3. ASSUME NEW k \in 1 .. i - 1 PROVE s[k] \notin Ends
    <3>1. k \in 1 .. Len(s) /\ k < i /\ i <= 3 + Len(body)
      BY <1>2
    <3>2. CASE k <= 3
      <4>1. k = 1 \/ k = 2 \/ k = 3
        BY <3>2
      <4>2. QED
        BY <4>1, <3>1, <3>2, <1>1, <1>3 DEF Ends
    <3>3. CASE k > 3
      <4>1. k - 3 \in 1 .. Len(body) - 1 /\ s[k] = body[k - 3]
        BY <3>1, <3>3, <1>2, <1>3
      <4>2. QED
        BY <4>1 DEF OneTransaction
    <3>4. QED
      BY <3>2, <3>3
  <2>4. QED
    BY <2>2, <2>3
<1>5. QED
  BY <1>2, <1>4 DEF Covered, s

\* Such a body is a sequence of statements and ends its transaction last.
IsBody(body) == body \in Seq(Statements) /\ OneTransaction(body)

\* So is each of the requests of a tenant.
LEMMA TenantHandlers ==
  \A s \in {create_property, list_properties, create_unit, list_units,
            create_tenant, list_tenants, create_lease, list_leases,
            create_work_order, list_work_orders, update_work_order,
            add_work_order_comment, list_work_order_comments,
            upload_document, list_documents, download_document,
            delete_document, list_notifications,
            unread_notification_count, mark_notification_read,
            dashboard_summary, list_audit_logs, read_subscription,
            list_members, invite_member} :
    s \in Seq(Statements) /\ Covered(s, FALSE)
<1> USE DEF Statements, Protected, InitialTables, OperationsTables, OtherTables,
            Ends, OneTransaction, IsBody
<1>1. IsBody(<<"properties", "audit_logs", "commit">>)
  OBVIOUS
<1>2. IsBody(<<"properties">>)
  OBVIOUS
<1>3. IsBody(<<"properties", "units", "commit">>)
  OBVIOUS
<1>4. IsBody(<<"units">>)
  OBVIOUS
<1>5. IsBody(<<"tenant_profiles", "commit">>)
  OBVIOUS
<1>6. IsBody(<<"tenant_profiles">>)
  OBVIOUS
<1>7. IsBody(<<"units", "tenant_profiles", "leases", "leases", "audit_logs",
              "commit">>)
  OBVIOUS
<1>8. IsBody(<<"leases">>)
  OBVIOUS
<1>9. IsBody(<<"properties", "units", "memberships", "work_orders", "notifications",
              "audit_logs", "commit">>)
  OBVIOUS
<1>10. IsBody(<<"work_orders">>)
  OBVIOUS
<1>11. IsBody(<<"work_orders", "memberships", "work_orders", "audit_logs",
              "notifications", "commit">>)
  OBVIOUS
<1>12. IsBody(<<"work_orders", "work_order_comments", "commit">>)
  OBVIOUS
<1>13. IsBody(<<"work_orders", "work_order_comments">>)
  OBVIOUS
<1>14. IsBody(<<"documents", "audit_logs", "commit">>)
  OBVIOUS
<1>15. IsBody(<<"documents">>)
  OBVIOUS
<1>16. IsBody(<<"documents", "audit_logs", "documents", "commit">>)
  OBVIOUS
<1>17. IsBody(<<"notifications">>)
  OBVIOUS
<1>18. IsBody(<<"notifications", "notifications", "commit">>)
  OBVIOUS
<1>19. IsBody(<<"properties", "units", "leases", "work_orders", "notifications",
              "subscriptions">>)
  OBVIOUS
<1>20. IsBody(<<"audit_logs">>)
  OBVIOUS
<1>21. IsBody(<<"subscriptions">>)
  OBVIOUS
<1>22. IsBody(<<"memberships", "users">>)
  OBVIOUS
<1>23. IsBody(<<"invitations", "outbox_events", "audit_logs", "commit">>)
  OBVIOUS
<1> HIDE DEF Statements, Protected, InitialTables, OperationsTables, OtherTables,
             Ends, OneTransaction
<1> QED
  BY <1>1, <1>2, <1>3, <1>4, <1>5, <1>6, <1>7, <1>8, <1>9, <1>10, <1>11, <1>12,
     <1>13, <1>14, <1>15, <1>16, <1>17, <1>18, <1>19, <1>20, <1>21, <1>22,
     <1>23,
     InTenantCovered
  DEF create_property, list_properties, create_unit, list_units, create_tenant,
      list_tenants, create_lease, list_leases, create_work_order,
      list_work_orders, update_work_order, add_work_order_comment,
      list_work_order_comments, upload_document, list_documents,
      download_document, delete_document, list_notifications,
      unread_notification_count, mark_notification_read,
      dashboard_summary, list_audit_logs, read_subscription, list_members,
      invite_member

\* The requests that take their organization from a signed token or event.
LEMMA SignedHandlers ==
  \A s \in {accept_invitation, process_subscription_event, process_other_event,
            process_concurrent_event} :
    s \in Seq(Statements) /\ Covered(s, FALSE)
<1> USE DEF Covered, Statements, Protected, InitialTables, OperationsTables,
            OtherTables, Ends
<1>1. accept_invitation \in Seq(Statements) /\ Covered(accept_invitation, FALSE)
  BY DEF accept_invitation
<1>2. process_subscription_event \in Seq(Statements) /\ Covered(process_subscription_event, FALSE)
  BY DEF process_subscription_event
<1>3. process_other_event \in Seq(Statements) /\ Covered(process_other_event, FALSE)
  BY DEF process_other_event
<1>4. process_concurrent_event \in Seq(Statements) /\ Covered(process_concurrent_event, FALSE)
  BY DEF process_concurrent_event
<1>5. QED
  BY <1>1, <1>2, <1>3, <1>4

\* Without an organization no handler needs a table with a policy.
LEMMA NobodysHandlers ==
  \A s \in OfNobody : s \in Seq(Statements) /\ Unguarded(s)
<1> USE DEF Unguarded, Statements, Protected, InitialTables, OperationsTables,
            OtherTables
<1>1. register \in Seq(Statements) /\ Unguarded(register)
  BY DEF register
<1>2. issue_token \in Seq(Statements) /\ Unguarded(issue_token)
  BY DEF issue_token
<1>3. rotate_refresh_token \in Seq(Statements) /\ Unguarded(rotate_refresh_token)
  BY DEF rotate_refresh_token
<1>4. revoke_refresh_token \in Seq(Statements) /\ Unguarded(revoke_refresh_token)
  BY DEF revoke_refresh_token
<1>5. read_current_user \in Seq(Statements) /\ Unguarded(read_current_user)
  BY DEF read_current_user
<1>6. create_organization \in Seq(Statements) /\ Unguarded(create_organization)
  BY DEF create_organization
<1>7. list_organizations \in Seq(Statements) /\ Unguarded(list_organizations)
  BY DEF list_organizations
<1>8. publish_outbox_events \in Seq(Statements) /\ Unguarded(publish_outbox_events)
  BY DEF publish_outbox_events
<1>9. QED
  BY <1>1, <1>2, <1>3, <1>4, <1>5, <1>6, <1>7, <1>8 DEF OfNobody

\* Every handler of an organization is covered.
LEMMA OrganizationsHandlers ==
  \A s \in OfOrganization : s \in Seq(Statements) /\ Covered(s, FALSE)
BY TenantHandlers, SignedHandlers DEF OfOrganization

\* One statement less: what is left is covered again.
LEMMA CoveredTail ==
  ASSUME NEW s \in Seq(Statements), s # <<>>, NEW isSet \in BOOLEAN,
         Covered(s, isSet)
  PROVE  /\ Head(s) \in Protected => isSet
         /\ Head(s) = "set_config" => Covered(Tail(s), TRUE)
         /\ Head(s) \in Ends => Covered(Tail(s), FALSE)
         /\ Head(s) # "set_config" => Covered(Tail(s), isSet)
<1> DEFINE t == Tail(s)
<1>1. /\ Len(s) \in Nat \ {0} /\ Len(t) = Len(s) - 1 /\ t \in Seq(Statements)
      /\ s[1] = Head(s) /\ \A i \in 1 .. Len(t) : t[i] = s[i + 1]
  BY HeadTailProperties, EmptySeq
<1> HIDE DEF t
<1>2. Head(s) \in Protected => isSet
  BY <1>1 DEF Covered
<1>3. ASSUME NEW i \in 1 .. Len(t), t[i] \in Protected
      PROVE  /\ \A k \in 1 .. i - 1 : t[k] \notin Ends
             /\ Head(s) \notin Ends
             /\ isSet \/ Head(s) = "set_config"
                \/ \E k \in 1 .. i - 1 : t[k] = "set_config"
  <2>1. /\ i + 1 \in 1 .. Len(s) /\ s[i + 1] \in Protected
        /\ \A k \in 1 .. i - 1 :
             k \in 1 .. Len(t) /\ k + 1 \in 1 .. i /\ t[k] = s[k + 1]
        /\ (i + 1) - 1 = i /\ 1 \in 1 .. i
    BY <1>1, <1>3
  <2>2. /\ \A k \in 1 .. i : s[k] \notin Ends
        /\ isSet \/ \E k \in 1 .. i : s[k] = "set_config"
    BY <2>1 DEF Covered
  <2>3. ASSUME NEW k \in 1 .. i, s[k] = "set_config"
        PROVE  Head(s) = "set_config" \/ \E j \in 1 .. i - 1 : t[j] = "set_config"
    <3>1. CASE k = 1
      BY <3>1, <2>3, <1>1
    <3>2. CASE k # 1
      <4>1. k - 1 \in 1 .. i - 1 /\ (k - 1) + 1 = k
        BY <3>2
      <4>2. QED
        BY <4>1, <2>1, <2>3
    <3>3. QED
      BY <3>1, <3>2
  <2>4. QED
    BY <2>1, <2>2, <2>3, <1>1
<1>4. QED
  BY <1>2, <1>3 DEF Covered, t

\* One statement less is unguarded again.
LEMMA UnguardedTail ==
  ASSUME NEW s \in Seq(Statements), s # <<>>, Unguarded(s)
  PROVE  Head(s) \notin Protected /\ Unguarded(Tail(s))
BY HeadTailProperties, EmptySeq DEF Unguarded
-----------------------------------------------------------------------------
\* A connection serves one request; idle, it carries no organization; in use,
\* none but that of its request; and what its request has left is covered.
Exclusive ==
  \A r, q \in Requests : conn[r] # None /\ conn[r] = conn[q] => r = q
IdleClean ==
  \A c \in Connections : (\A r \in Requests : conn[r] # c) => setting[c] = None
OwnSetting == \A r \in Requests : conn[r] # None => setting[conn[r]] \in {None, org[r]}
IsSet(r) == conn[r] # None /\ setting[conn[r]] = org[r]
LeftCovered ==
  \A r \in Requests :
    IF org[r] = None THEN Unguarded(todo[r]) ELSE Covered(todo[r], IsSet(r))

\* The inductive invariant.
IInv == TypeOK /\ Exclusive /\ IdleClean /\ OwnSetting /\ LeftCovered

\* It holds of an idle pool.
LEMMA InitIInv == Init => IInv
<1> SUFFICES ASSUME Init PROVE IInv
  OBVIOUS
<1>1. <<>> \in Seq(Statements) /\ Unguarded(<<>>)
  BY EmptySeq DEF Unguarded
<1>2. QED
  BY <1>1 DEF Init, IInv, TypeOK, Exclusive, IdleClean, OwnSetting, LeftCovered

\* It entails the two properties.
LEMMA IInvImplies == IInv => OnlyOwnRows /\ OwnRowsVisible
<1> SUFFICES ASSUME IInv PROVE OnlyOwnRows /\ OwnRowsVisible
  OBVIOUS
<1>1. OnlyOwnRows
  BY NoneIsNobody DEF IInv, OwnSetting, OnlyOwnRows, Admitted
<1>2. ASSUME NEW r \in Requests, conn[r] # None, todo[r] # <<>>,
             Head(todo[r]) \in Protected
      PROVE  org[r] \in Admitted(conn[r])
  <2>1. todo[r] \in Seq(Statements) /\ org[r] \in Orgs \cup {None}
    BY DEF IInv, TypeOK
  <2>2. org[r] # None /\ Covered(todo[r], IsSet(r)) /\ IsSet(r) \in BOOLEAN
    BY <1>2, <2>1, UnguardedTail DEF IInv, LeftCovered, IsSet
  <2>3. IsSet(r)
    BY <1>2, <2>1, <2>2, CoveredTail
  <2>4. QED
    BY <2>1, <2>2, <2>3 DEF Admitted, IsSet
<1>3. QED
  BY <1>1, <1>2 DEF OwnRowsVisible

\* A request starts with a handler of its kind.
LEMMA StartStep == ASSUME IInv, NEW r \in Requests, Start(r) PROVE IInv'
<1> USE DEF IInv
<1>1. /\ conn[r] = None /\ setting' = setting /\ conn' = conn
      /\ \E o \in Orgs \cup {None}, handler \in Seq(Statements) :
           /\ org' = [org EXCEPT ![r] = o] /\ todo' = [todo EXCEPT ![r] = handler]
           /\ IF o = None THEN Unguarded(handler) ELSE Covered(handler, FALSE)
  BY OrganizationsHandlers, NobodysHandlers, NoneIsNobody DEF Start
<1>2. TypeOK'
  BY <1>1 DEF TypeOK
<1>3. Exclusive' /\ IdleClean' /\ OwnSetting'
  BY <1>1 DEF TypeOK, Exclusive, IdleClean, OwnSetting
<1>4. ASSUME NEW q \in Requests
      PROVE  IF org'[q] = None THEN Unguarded(todo'[q]) ELSE Covered(todo'[q], IsSet(q)')
  <2>1. CASE q = r
    BY <2>1, <1>1 DEF TypeOK, IsSet
  <2>2. CASE q # r
    <3>1. org'[q] = org[q] /\ todo'[q] = todo[q] /\ (IsSet(q)' <=> IsSet(q))
      BY <2>2, <1>1 DEF TypeOK, IsSet
    <3>2. QED
      BY <3>1 DEF LeftCovered, Covered
  <2>3. QED
    BY <2>1, <2>2
<1>5. QED
  BY <1>2, <1>3, <1>4 DEF LeftCovered

\* A transaction takes an idle connection, which carries no organization.
LEMMA BeginStep == ASSUME IInv, NEW r \in Requests, Begin(r) PROVE IInv'
<1> USE DEF IInv
<1>1. PICK c \in Connections :
        (\A other \in Requests : conn[other] # c) /\ conn' = [conn EXCEPT ![r] = c]
  BY DEF Begin
<1>2. conn[r] = None /\ setting' = setting /\ org' = org /\ todo' = todo
      /\ setting[c] = None /\ c # None
  BY <1>1, NoneIsNobody DEF Begin, IdleClean
<1>3. TypeOK'
  BY <1>1, <1>2 DEF TypeOK
<1>4. Exclusive' /\ OwnSetting'
  BY <1>1, <1>2 DEF TypeOK, Exclusive, OwnSetting
<1>5. ASSUME NEW d \in Connections, \A q \in Requests : conn'[q] # d
      PROVE  setting'[d] = None
  <2>1. \A q \in Requests : conn[q] # d
    BY <1>1, <1>2, <1>5, NoneIsNobody DEF TypeOK
  <2>2. QED
    BY <2>1, <1>2 DEF IdleClean
<1>6. ASSUME NEW q \in Requests, org[q] # None PROVE IsSet(q)' <=> IsSet(q)
  BY <1>1, <1>2, <1>6 DEF TypeOK, IsSet
<1>7. LeftCovered'
  BY <1>2, <1>6 DEF LeftCovered, Covered
<1>8. QED
  BY <1>3, <1>4, <1>5, <1>7 DEF IdleClean

\* A request sets the context, of its organization or of none, for itself.
LEMMA SetContextStep == ASSUME IInv, NEW r \in Requests, SetContext(r) PROVE IInv'
<1> USE DEF IInv
<1>1. /\ conn[r] \in Connections /\ todo[r] \in Seq(Statements) /\ todo[r] # <<>>
      /\ Head(todo[r]) = "set_config"
      /\ todo' = [todo EXCEPT ![r] = Tail(@)] /\ conn' = conn /\ org' = org
      /\ setting' = [setting EXCEPT ![conn[r]] = org[r]]
  BY DEF TypeOK, SetContext, Does
<1>2. TypeOK'
  <2>1. Tail(todo[r]) \in Seq(Statements)
    BY <1>1, HeadTailProperties
  <2>2. QED
    BY <1>1, <2>1 DEF TypeOK
<1>3. Exclusive' /\ IdleClean' /\ OwnSetting'
  BY <1>1 DEF TypeOK, Exclusive, IdleClean, OwnSetting
<1>4. ASSUME NEW q \in Requests
      PROVE  IF org[q] = None THEN Unguarded(todo'[q]) ELSE Covered(todo'[q], IsSet(q)')
  <2>1. CASE q = r
    <3>1. IsSet(r)' /\ IsSet(r) \in BOOLEAN /\ todo'[r] = Tail(todo[r])
      BY <1>1, NoneIsNobody DEF TypeOK, IsSet
    <3>2. CASE org[r] = None
      BY <3>1, <3>2, <2>1, <1>1, UnguardedTail DEF LeftCovered
    <3>3. CASE org[r] # None
      <4>1. Covered(Tail(todo[r]), TRUE)
        BY <3>1, <3>3, <1>1, CoveredTail DEF LeftCovered
      <4>2. QED
        BY <4>1, <3>1, <3>3, <2>1 DEF Covered
    <3>4. QED
      BY <3>2, <3>3
  <2>2. CASE q # r
    <3>1. todo'[q] = todo[q] /\ (IsSet(q)' <=> IsSet(q))
      BY <2>2, <1>1 DEF TypeOK, IsSet, Exclusive
    <3>2. QED
      BY <3>1 DEF LeftCovered, Covered
  <2>3. QED
    BY <2>1, <2>2
<1>5. QED
  BY <1>1, <1>2, <1>3, <1>4 DEF LeftCovered

\* A query changes nothing but what is left to do.
LEMMA QueryStep == ASSUME IInv, NEW r \in Requests, Query(r) PROVE IInv'
<1> USE DEF IInv
<1>1. /\ conn[r] \in Connections /\ todo[r] \in Seq(Statements) /\ todo[r] # <<>>
      /\ Head(todo[r]) # "set_config"
      /\ todo' = [todo EXCEPT ![r] = Tail(@)] /\ UNCHANGED <<conn, org, setting>>
  BY FreeStatements
  DEF TypeOK, Query, Does, OtherTables, Protected, InitialTables, OperationsTables
<1>2. TypeOK'
  <2>1. Tail(todo[r]) \in Seq(Statements)
    BY <1>1, HeadTailProperties
  <2>2. QED
    BY <1>1, <2>1 DEF TypeOK
<1>3. Exclusive' /\ IdleClean' /\ OwnSetting'
  BY <1>1 DEF Exclusive, IdleClean, OwnSetting
<1>4. ASSUME NEW q \in Requests
      PROVE  IF org[q] = None THEN Unguarded(todo'[q]) ELSE Covered(todo'[q], IsSet(q))
  <2>1. CASE q = r
    <3>1. IsSet(r) \in BOOLEAN /\ todo'[r] = Tail(todo[r])
      BY <1>1 DEF TypeOK, IsSet
    <3>2. CASE org[r] = None
      BY <3>1, <3>2, <2>1, <1>1, UnguardedTail DEF LeftCovered
    <3>3. CASE org[r] # None
      BY <3>1, <3>3, <2>1, <1>1, CoveredTail DEF LeftCovered
    <3>4. QED
      BY <3>2, <3>3
  <2>2. CASE q # r
    BY <2>2, <1>1 DEF TypeOK, LeftCovered
  <2>3. QED
    BY <2>1, <2>2
<1>5. IsSet(r)' = IsSet(r) /\ \A q \in Requests : IsSet(q)' = IsSet(q)
  BY <1>1 DEF IsSet
<1>6. QED
  BY <1>1, <1>2, <1>3, <1>4, <1>5 DEF LeftCovered

\* The end of a transaction clears its connection, which is then idle.
LEMMA EndStep ==
  ASSUME IInv, NEW r \in Requests, conn[r] # None, EndTransaction(r), org' = org,
         NEW rest \in Seq(Statements), todo' = [todo EXCEPT ![r] = rest],
         IF org[r] = None THEN Unguarded(rest) ELSE Covered(rest, FALSE)
  PROVE  IInv'
<1> USE DEF IInv
<1>1. /\ conn[r] \in Connections /\ conn' = [conn EXCEPT ![r] = None]
      /\ setting' = [setting EXCEPT ![conn[r]] = None]
  BY DEF TypeOK, EndTransaction, AfterTransaction
<1>2. TypeOK'
  BY <1>1 DEF TypeOK
<1>3. Exclusive' /\ OwnSetting'
  BY <1>1 DEF TypeOK, Exclusive, OwnSetting
<1>4. ASSUME NEW c \in Connections, \A q \in Requests : conn'[q] # c
      PROVE  setting'[c] = None
  <2>1. CASE c = conn[r]
    BY <2>1, <1>1 DEF TypeOK
  <2>2. CASE c # conn[r]
    <3>1. \A q \in Requests : conn[q] # c
      BY <2>2, <1>1, <1>4 DEF TypeOK
    <3>2. QED
      BY <3>1, <2>2, <1>1 DEF TypeOK, IdleClean
  <2>3. QED
    BY <2>1, <2>2
<1>5. ASSUME NEW q \in Requests
      PROVE  IF org[q] = None THEN Unguarded(todo'[q]) ELSE Covered(todo'[q], IsSet(q)')
  <2>1. CASE q = r
    <3>1. IsSet(r)' = FALSE /\ todo'[r] = rest
      BY <1>1 DEF TypeOK, IsSet
    <3>2. QED
      BY <3>1, <2>1
  <2>2. CASE q # r
    <3>1. todo'[q] = todo[q] /\ (IsSet(q)' <=> IsSet(q))
      BY <2>2, <1>1 DEF TypeOK, IsSet, Exclusive
    <3>2. QED
      BY <3>1 DEF LeftCovered, Covered
  <2>3. QED
    BY <2>1, <2>2
<1>6. QED
  BY <1>2, <1>3, <1>4, <1>5 DEF IdleClean, LeftCovered

\* After a commit or a rollback nothing is left that needs the context.
LEMMA CommitStep == ASSUME IInv, NEW r \in Requests, Commit(r) PROVE IInv'
<1>1. /\ conn[r] # None /\ todo[r] \in Seq(Statements) /\ todo[r] # <<>>
      /\ Head(todo[r]) \in Ends /\ todo' = [todo EXCEPT ![r] = Tail(@)]
      /\ EndTransaction(r) /\ org' = org
  BY DEF IInv, TypeOK, Commit, Does, Ends
<1>2. Tail(todo[r]) \in Seq(Statements) /\ IsSet(r) \in BOOLEAN
  BY <1>1, HeadTailProperties DEF IsSet
<1>3. IF org[r] = None THEN Unguarded(Tail(todo[r])) ELSE Covered(Tail(todo[r]), FALSE)
  BY <1>1, <1>2, CoveredTail, UnguardedTail DEF IInv, LeftCovered
<1>4. QED
  BY <1>1, <1>2, <1>3, EndStep

\* A closed session has nothing left to do.
LEMMA CloseStep == ASSUME IInv, NEW r \in Requests, Close(r) PROVE IInv'
<1>1. <<>> \in Seq(Statements) /\ Unguarded(<<>>) /\ Covered(<<>>, FALSE)
  BY EmptySeq DEF Unguarded, Covered
<1>2. QED
  BY <1>1, EndStep DEF Close
-----------------------------------------------------------------------------
\* Every step keeps the invariant.
LEMMA NextIInv == IInv /\ [Next]_vars => IInv'
<1> SUFFICES ASSUME IInv, [Next]_vars PROVE IInv'
  OBVIOUS
<1>1. CASE Next
  BY <1>1, StartStep, BeginStep, SetContextStep, QueryStep, CommitStep, CloseStep DEF Next
<1>2. CASE UNCHANGED vars
  <2>1. UNCHANGED <<setting, conn, org, todo>>
    BY <1>2 DEF vars
  <2>2. \A r \in Requests : IsSet(r)' = IsSet(r)
    BY <2>1 DEF IsSet
  <2>3. QED
    BY <2>1, <2>2 DEF IInv, TypeOK, Exclusive, IdleClean, OwnSetting, LeftCovered
<1>3. QED
  BY <1>1, <1>2

\* The invariant of the specification.
LEMMA Invariance == Spec => []IInv
BY InitIInv, NextIInv, PTL DEF Spec

\* Connections, requests and their programs keep their types.
THEOREM TypeCorrect == Spec => []TypeOK
<1>1. IInv => TypeOK
  BY DEF IInv
<1>2. QED
  BY <1>1, Invariance, PTL

\* The policies alone keep every request from other organizations' rows.
THEOREM PoliciesIsolate == Spec => []OnlyOwnRows
BY IInvImplies, Invariance, PTL

\* The policies hide nothing a handler needs, whatever connection it gets.
THEOREM NothingNeededIsHidden == Spec => []OwnRowsVisible
BY IInvImplies, Invariance, PTL
-----------------------------------------------------------------------------
(* Documents.                                                              *)

Writing(h) == pc[h] \in {"write", "insert"}

\* A request under way has a document that was drawn; an upload has it alone,
\* and its content is whole before its row is written.
RequestInv ==
  \A h \in Handlers :
    /\ pc[h] = "idle" <=> doc[h] = None
    /\ pc[h] # "idle" => doc[h] \in used
    /\ Writing(h) => /\ doc[h] \notin rows
                     /\ \A g \in Handlers \ {h} : doc[g] # doc[h]
    /\ pc[h] = "insert" => content[doc[h]] = "whole"
    /\ pc[h] = "unlink" => doc[h] \notin rows

\* The documents of which something may have been left behind.
Interrupted == crashed \cup unanswered

\* What else lies about without a row has a request that will clean it up.
CleanupInv ==
  \A d \in Ids \ Interrupted :
    /\ d \in temporary => \E h \in Handlers : doc[h] = d /\ pc[h] = "write"
    /\ content[d] # "none" /\ d \notin rows =>
         \E h \in Handlers : doc[h] = d /\ pc[h] \in {"insert", "unlink"}

\* What the three parts below are about, and the property they entail.
FilesInv ==
  /\ Files!TypeOK
  /\ rows \subseteq used
  /\ RequestInv
  /\ CleanupInv
  /\ RowHasContent

\* It holds of an empty directory and an empty table.
LEMMA FilesInit == Files!Init => FilesInv
BY NoneIsNoDocument DEF Files!Init, FilesInv, Files!TypeOK, RequestInv, CleanupInv, Interrupted,
   RowHasContent, Files!RowHasContent, Writing

\* A request that moves or ends, and no other one.
LEMMA GotoOne ==
  ASSUME Files!TypeOK, NEW h \in Handlers, NEW step, Files!Goto(h, step)
  PROVE  /\ pc'[h] = step /\ doc' = doc
         /\ \A g \in Handlers \ {h} : pc'[g] = pc[g]
BY DEF Files!TypeOK, Files!Goto

\* A request that ends has no document, and no other one moves.
LEMMA EndOne ==
  ASSUME Files!TypeOK, NEW h \in Handlers, Files!End(h)
  PROVE  /\ pc'[h] = "idle" /\ doc'[h] = None
         /\ \A g \in Handlers \ {h} : pc'[g] = pc[g] /\ doc'[g] = doc[g]
BY DEF Files!TypeOK, Files!End

\* A request that begins takes its document, and no other one moves.
LEMMA BeginOne ==
  ASSUME Files!TypeOK, NEW h \in Handlers, NEW d, NEW step, Files!Begin(h, d, step)
  PROVE  /\ pc[h] = "idle" /\ pc'[h] = step /\ doc'[h] = d
         /\ \A g \in Handlers \ {h} : pc'[g] = pc[g] /\ doc'[g] = doc[g]
BY DEF Files!TypeOK, Files!Begin

\* Every step keeps the types of rows, files and requests.
LEMMA FilesType == ASSUME FilesInv, Files!Next PROVE Files!TypeOK'
<1> USE DEF FilesInv
<1>1. PICK h \in Handlers :
        \/ Files!StartUpload(h) \/ Files!RejectUpload(h) \/ Files!FinishWrite(h)
        \/ Files!CommitUpload(h) \/ Files!FailUpload(h)
        \/ Files!FindToDelete(h) \/ Files!CommitDelete(h) \/ Files!FailDelete(h)
        \/ Files!Unlink(h) \/ Files!Crash(h)
  BY DEF Files!Next
<1>2. pc[h] # "idle" => doc[h] \in Ids
  BY DEF RequestInv, Files!TypeOK
<1>3. CASE Files!StartUpload(h)
  BY <1>3 DEF Files!StartUpload, Files!Begin, Files!lost, Files!TypeOK
<1>4. CASE Files!RejectUpload(h)
  BY <1>4 DEF Files!RejectUpload, Files!End, Files!Unlinked, Files!lost, Files!TypeOK
<1>5. CASE Files!FinishWrite(h)
  BY <1>2, <1>5 DEF Files!FinishWrite, Files!Goto, Files!Renamed, Files!lost, Files!TypeOK
<1>6. CASE Files!CommitUpload(h)
  BY <1>2, <1>6 DEF Files!CommitUpload, Files!End, Files!files, Files!lost, Files!TypeOK
<1>7. CASE Files!FailUpload(h)
  BY <1>2, <1>7 DEF Files!FailUpload, Files!End, Files!TypeOK
<1>8. CASE Files!FindToDelete(h)
  BY <1>8 DEF Files!FindToDelete, Files!Begin, Files!files, Files!lost, Files!TypeOK
<1>9. CASE Files!CommitDelete(h)
  BY <1>9 DEF Files!CommitDelete, Files!Goto, Files!AfterDelete, Files!files, Files!lost, Files!TypeOK
<1>10. CASE Files!FailDelete(h)
  BY <1>2, <1>10 DEF Files!FailDelete, Files!End, Files!files, Files!lost, Files!TypeOK
<1>11. CASE Files!Unlink(h)
  BY <1>2, <1>11 DEF Files!Unlink, Files!End, Files!lost, Files!TypeOK
<1>12. CASE Files!Crash(h)
  BY <1>2, <1>12 DEF Files!Crash, Files!End, Files!files, Files!lost, Files!TypeOK
<1>13. QED
  BY <1>1, <1>3, <1>4, <1>5, <1>6, <1>7, <1>8, <1>9, <1>10, <1>11, <1>12

\* An upload begins with an id nobody has, a deletion with one that has a row.
LEMMA FilesBegin ==
  ASSUME FilesInv, NEW h \in Handlers, Files!StartUpload(h) \/ Files!FindToDelete(h)
  PROVE  (rows \subseteq used)' /\ RequestInv' /\ CleanupInv' /\ RowHasContent'
<1> USE DEF FilesInv
<1>1. CASE Files!StartUpload(h)
  <2>1. PICK d \in Ids \ used : /\ Files!Begin(h, d, "write")
                                /\ used' = used \cup {d}
                                /\ temporary' = temporary \cup {d}
    BY <1>1 DEF Files!StartUpload
  <2>2. /\ pc[h] = "idle" /\ pc'[h] = "write" /\ doc'[h] = d
        /\ \A g \in Handlers \ {h} : pc'[g] = pc[g] /\ doc'[g] = doc[g]
    BY <2>1, BeginOne
  <2>3. UNCHANGED <<rows, content, crashed, unanswered>>
    BY <1>1 DEF Files!StartUpload, Files!lost
  <2>4. \A g \in Handlers \ {h} : doc[g] # d
    BY <2>1, NoneIsNoDocument DEF RequestInv
  <2>5. RequestInv'
    BY <2>1, <2>2, <2>3, <2>4, NoneIsNoDocument DEF RequestInv, Writing
  <2>6. CleanupInv'
    BY <2>1, <2>2, <2>3 DEF CleanupInv, Interrupted
  <2>7. QED
    BY <2>1, <2>3, <2>5, <2>6 DEF RowHasContent, Files!RowHasContent
<1>2. CASE Files!FindToDelete(h)
  <2>1. PICK d \in rows : Files!Begin(h, d, "delete")
    BY <1>2 DEF Files!FindToDelete
  <2>2. /\ pc[h] = "idle" /\ pc'[h] = "delete" /\ doc'[h] = d
        /\ \A g \in Handlers \ {h} : pc'[g] = pc[g] /\ doc'[g] = doc[g]
    BY <2>1, BeginOne
  <2>3. UNCHANGED <<rows, temporary, content, used, crashed, unanswered>>
    BY <1>2 DEF Files!FindToDelete, Files!files, Files!lost
  <2>4. RequestInv'
    BY <2>1, <2>2, <2>3, NoneIsNoDocument DEF RequestInv, Writing, Files!TypeOK
  <2>5. CleanupInv'
    BY <2>2, <2>3 DEF CleanupInv, Interrupted
  <2>6. QED
    BY <2>3, <2>4, <2>5 DEF RowHasContent, Files!RowHasContent
<1>3. QED
  BY <1>1, <1>2

\* The content is in place before the row.
LEMMA FilesFinishWrite ==
  ASSUME FilesInv, NEW h \in Handlers, Files!FinishWrite(h)
  PROVE  (rows \subseteq used)' /\ RequestInv' /\ CleanupInv' /\ RowHasContent'
<1> USE DEF FilesInv
<1> DEFINE d == doc[h]
<1>1. /\ pc[h] = "write" /\ pc'[h] = "insert" /\ doc' = doc
      /\ \A g \in Handlers \ {h} : pc'[g] = pc[g]
  BY GotoOne DEF Files!FinishWrite
<1>2. /\ d \in Ids /\ content'[d] = "whole" /\ temporary' = temporary \ {d}
      /\ \A e \in Ids \ {d} : content'[e] = content[e]
      /\ UNCHANGED <<rows, used, crashed, unanswered>>
  BY <1>1 DEF Files!FinishWrite, Files!Renamed, Files!lost, RequestInv, Files!TypeOK
<1>3. RequestInv'
  BY <1>1, <1>2 DEF RequestInv, Writing, Files!TypeOK
<1>4. CleanupInv'
  <2> SUFFICES ASSUME NEW e \in Ids \ Interrupted
               PROVE  /\ e \in temporary' => \E g \in Handlers : doc[g] = e /\ pc'[g] = "write"
                      /\ content'[e] # "none" /\ e \notin rows =>
                           \E g \in Handlers : doc[g] = e /\ pc'[g] \in {"insert", "unlink"}
    BY <1>1, <1>2 DEF CleanupInv, Interrupted
  <2>1. CASE e = d
    BY <1>1, <1>2, <2>1
  <2>2. CASE e # d
    BY <1>1, <1>2, <2>2 DEF CleanupInv, Interrupted
  <2>3. QED
    BY <2>1, <2>2
<1>5. RowHasContent'
  BY <1>2 DEF RowHasContent, Files!RowHasContent, Files!TypeOK
<1>6. QED
  BY <1>2, <1>3, <1>4, <1>5

\* What a request that ends leaves behind of its document: a row with its content
\* or no row, and nothing else, but for what was interrupted.
LEMMA FilesEnd ==
  ASSUME FilesInv, NEW h \in Handlers, pc[h] # "idle", Files!End(h), UNCHANGED used,
         rows' \subseteq rows \cup {doc[h]}, temporary' \subseteq temporary,
         crashed \subseteq crashed', unanswered \subseteq unanswered',
         \A d \in Ids \ {doc[h]} :
           /\ content'[d] = content[d] /\ (d \in rows' <=> d \in rows)
           /\ d \in temporary' <=> d \in temporary,
         \/ content'[doc[h]] = "whole" \/ doc[h] \notin rows' \/ doc[h] \in unanswered'
         \/ UNCHANGED <<rows, content>>,
         \/ doc[h] \notin temporary' /\ (content'[doc[h]] = "none" \/ doc[h] \in rows')
         \/ doc[h] \in Interrupted'
         \/ pc[h] = "delete" /\ UNCHANGED <<rows, temporary, content>>,
         rows' \subseteq rows \/ Writing(h)
  PROVE  (rows \subseteq used)' /\ RequestInv' /\ CleanupInv' /\ RowHasContent'
<1> USE DEF FilesInv
<1> DEFINE d == doc[h]
<1>1. /\ pc'[h] = "idle" /\ doc'[h] = None
      /\ \A g \in Handlers \ {h} : pc'[g] = pc[g] /\ doc'[g] = doc[g]
  BY EndOne
<1>2. d \in used /\ d \in Ids /\ \A g \in Handlers : pc[g] # "idle" => doc[g] # None
  BY NoneIsNoDocument DEF RequestInv, Files!TypeOK
<1>3. \A g \in Handlers \ {h} : Writing(g) => doc[g] # d
  BY DEF RequestInv
<1>4. RequestInv'
  <2> SUFFICES ASSUME NEW g \in Handlers \ {h}
               PROVE  /\ Writing(g) => /\ doc[g] \notin rows'
                                       /\ \A k \in Handlers \ {g} : doc'[k] # doc[g]
                      /\ pc[g] = "insert" => content'[doc[g]] = "whole"
                      /\ pc[g] = "unlink" => doc[g] \notin rows'
    BY <1>1 DEF RequestInv, Writing
  <2>1. pc[g] # "idle" => doc[g] \in Ids
    BY DEF RequestInv, Files!TypeOK
  <2>2. Writing(g) => doc[g] \notin rows' /\ \A k \in Handlers \ {g} : doc'[k] # doc[g]
    BY <1>1, <1>2, <1>3 DEF RequestInv, Writing
  <2>3. pc[g] = "insert" => content'[doc[g]] = "whole"
    BY <1>3, <2>1 DEF RequestInv, Writing
  <2>4. pc[g] = "unlink" => doc[g] \notin rows'
    BY DEF RequestInv
  <2>5. QED
    BY <2>2, <2>3, <2>4
<1>5. CleanupInv'
  <2> SUFFICES ASSUME NEW e \in Ids \ Interrupted'
               PROVE  /\ e \in temporary' => \E g \in Handlers : doc'[g] = e /\ pc'[g] = "write"
                      /\ content'[e] # "none" /\ e \notin rows' =>
                           \E g \in Handlers : doc'[g] = e /\ pc'[g] \in {"insert", "unlink"}
    BY DEF CleanupInv, Interrupted
  <2>1. e \notin Interrupted
    BY DEF Interrupted
  <2>2. CASE e # d
    <3>1. \A g \in Handlers : doc[g] = e => doc'[g] = e /\ pc'[g] = pc[g]
      BY <1>1, <2>2
    <3>2. QED
      BY <2>1, <2>2, <3>1 DEF CleanupInv, Interrupted
  <2>3. CASE e = d /\ pc[h] = "delete" /\ UNCHANGED <<rows, temporary, content>>
    <3>1. \A g \in Handlers : pc[g] \in {"write", "insert", "unlink"} =>
            doc'[g] = doc[g] /\ pc'[g] = pc[g]
      BY <1>1, <2>3
    <3>2. QED
      BY <2>1, <2>3, <3>1 DEF CleanupInv, Interrupted
  <2>4. CASE e = d /\ e \notin temporary' /\ (content'[e] = "none" \/ e \in rows')
    BY <2>4
  <2>5. QED
    BY <2>2, <2>3, <2>4
<1>6. RowHasContent'
  <2> SUFFICES ASSUME NEW e \in rows' \ unanswered' PROVE content'[e] = "whole"
    BY DEF RowHasContent, Files!RowHasContent
  <2>1. CASE e # d
    <3>1. e \in rows /\ e \in Ids /\ e \notin unanswered
      BY <2>1 DEF Files!TypeOK
    <3>2. QED
      BY <2>1, <3>1 DEF RowHasContent, Files!RowHasContent
  <2>2. CASE e = d
    <3>1. UNCHANGED <<rows, content>> => content'[e] = "whole"
      BY DEF RowHasContent, Files!RowHasContent
    <3>2. QED
      BY <2>2, <3>1
  <2>3. QED
    BY <2>1, <2>2
<1>7. (rows \subseteq used)'
  BY <1>2
<1>8. QED
  BY <1>4, <1>5, <1>6, <1>7

\* The row goes first; the request goes on to unlink the content.
LEMMA FilesCommitDelete ==
  ASSUME FilesInv, NEW h \in Handlers, Files!CommitDelete(h)
  PROVE  (rows \subseteq used)' /\ RequestInv' /\ CleanupInv' /\ RowHasContent'
<1> USE DEF FilesInv
<1>1. /\ pc[h] = "delete" /\ pc'[h] = "unlink" /\ doc' = doc
      /\ \A g \in Handlers \ {h} : pc'[g] = pc[g]
  BY GotoOne DEF Files!CommitDelete, Files!AfterDelete
<1>2. rows' = rows \ {doc[h]} /\ UNCHANGED <<temporary, content, used, crashed, unanswered>>
  BY DEF Files!CommitDelete, Files!files, Files!lost
<1>3. RequestInv'
  BY <1>1, <1>2 DEF RequestInv, Writing
<1>4. CleanupInv'
  <2> SUFFICES ASSUME NEW e \in Ids \ Interrupted
               PROVE  /\ e \in temporary => \E g \in Handlers : doc[g] = e /\ pc'[g] = "write"
                      /\ content[e] # "none" /\ e \notin rows' =>
                           \E g \in Handlers : doc[g] = e /\ pc'[g] \in {"insert", "unlink"}
    BY <1>1, <1>2 DEF CleanupInv, Interrupted
  <2>1. \A g \in Handlers : pc[g] \in {"write", "insert", "unlink"} => pc'[g] = pc[g]
    BY <1>1
  <2>2. e \in rows /\ e \notin rows' => doc[h] = e
    BY <1>2
  <2>3. QED
    BY <1>1, <2>1, <2>2 DEF CleanupInv, Interrupted
<1>5. QED
  BY <1>2, <1>3, <1>4 DEF RowHasContent, Files!RowHasContent

\* The uploads and deletions that end, each one way or the other.
LEMMA FilesEnds ==
  ASSUME FilesInv, NEW h \in Handlers,
         \/ Files!RejectUpload(h) \/ Files!CommitUpload(h) \/ Files!FailUpload(h)
         \/ Files!FailDelete(h) \/ Files!Unlink(h) \/ Files!Crash(h)
  PROVE  (rows \subseteq used)' /\ RequestInv' /\ CleanupInv' /\ RowHasContent'
<1> USE DEF FilesInv
<1> DEFINE d == doc[h]
<1>1. pc[h] # "idle" /\ Files!End(h) /\ UNCHANGED used
  BY DEF Files!RejectUpload, Files!CommitUpload, Files!FailUpload, Files!FailDelete,
     Files!Unlink, Files!Crash
<1>2. d \in Ids
  BY <1>1 DEF RequestInv, Files!TypeOK
<1>3. Writing(h) \/ pc[h] = "unlink" =>
        d \notin rows /\ (pc[h] # "write" => d \in Interrupted \/ d \notin temporary)
  BY <1>2 DEF RequestInv, CleanupInv, Interrupted, Writing
<1>4. CASE Files!RejectUpload(h)
  <2>1. pc[h] = "write" /\ temporary' = temporary \ {d} /\ UNCHANGED <<rows, content, crashed, unanswered>>
    BY <1>4 DEF Files!RejectUpload, Files!Unlinked, Files!lost
  <2>2. d \in Interrupted \/ content[d] = "none"
    BY <1>2, <1>3, <2>1 DEF RequestInv, CleanupInv, Interrupted, Writing
  <2>3. QED
    BY <1>1, <1>2, <1>3, <2>1, <2>2, FilesEnd DEF Writing, Interrupted
<1>5. CASE Files!CommitUpload(h)
  <2>1. pc[h] = "insert" /\ rows' = rows \cup {d} /\ UNCHANGED <<temporary, content, crashed, unanswered>>
    BY <1>5 DEF Files!CommitUpload, Files!files, Files!lost
  <2>2. content[d] = "whole"
    BY <2>1 DEF RequestInv
  <2>3. QED
    BY <1>1, <1>2, <1>3, <2>1, <2>2, FilesEnd DEF Writing, Interrupted
<1>6. CASE Files!FailUpload(h)
  <2>1. /\ pc[h] = "insert" /\ temporary' = temporary
        /\ \/ UNCHANGED <<rows, unanswered>>
           \/ rows' = rows \cup {d} /\ unanswered' = unanswered \cup {d}
        /\ crashed' = crashed
        /\ content'[d] = "none" /\ \A e \in Ids \ {d} : content'[e] = content[e]
    BY <1>2, <1>6 DEF Files!FailUpload, Files!TypeOK
  <2>2. QED
    BY <1>1, <1>2, <1>3, <2>1, FilesEnd DEF Writing, Interrupted
<1>7. CASE Files!FailDelete(h)
  <2>1. /\ pc[h] = "delete" /\ UNCHANGED <<temporary, content>>
        /\ \/ UNCHANGED <<rows, unanswered>>
           \/ rows' = rows \ {d} /\ unanswered' = unanswered \cup {d}
        /\ crashed' = crashed
    BY <1>7 DEF Files!FailDelete, Files!files
  <2>2. QED
    BY <1>1, <2>1, FilesEnd DEF Interrupted
<1>8. CASE Files!Unlink(h)
  <2>1. /\ pc[h] = "unlink" /\ UNCHANGED <<rows, temporary, crashed, unanswered>>
        /\ content'[d] = "none" /\ \A e \in Ids \ {d} : content'[e] = content[e]
    BY <1>2, <1>8 DEF Files!Unlink, Files!lost, Files!TypeOK
  <2>2. QED
    BY <1>1, <1>2, <1>3, <2>1, FilesEnd DEF Interrupted
<1>9. CASE Files!Crash(h)
  <2>1. crashed' = crashed \cup {d} /\ UNCHANGED <<rows, temporary, content, unanswered>>
    BY <1>9 DEF Files!Crash, Files!files
  <2>2. QED
    BY <1>1, <2>1, FilesEnd DEF Interrupted
<1>10. QED
  BY <1>4, <1>5, <1>6, <1>7, <1>8, <1>9

\* Every step of an upload, a deletion or a crash keeps the invariant.
LEMMA FilesStep == FilesInv /\ [Files!Next]_filesVars => FilesInv'
<1> SUFFICES ASSUME FilesInv, [Files!Next]_filesVars PROVE FilesInv'
  OBVIOUS
<1>1. CASE Files!Next
  <2>1. Files!TypeOK'
    BY <1>1, FilesType
  <2>2. (rows \subseteq used)' /\ RequestInv' /\ CleanupInv' /\ RowHasContent'
    BY <1>1, FilesBegin, FilesFinishWrite, FilesCommitDelete, FilesEnds DEF Files!Next
  <2>3. QED
    BY <2>1, <2>2 DEF FilesInv
<1>2. CASE UNCHANGED filesVars
  BY <1>2 DEF filesVars, FilesInv, Files!TypeOK, RequestInv, CleanupInv, Interrupted, Writing,
     RowHasContent, Files!RowHasContent
<1>3. QED
  BY <1>1, <1>2

\* The documents of a run of the parts are those of Documents.
LEMMA FilesInvariance == PartsSpec => []FilesInv
<1>1. PartsInit => FilesInv
  BY FilesInit DEF PartsInit
<1>2. [PartsNext]_partsVars => [Files!Next]_filesVars
  BY DEF PartsNext, partsVars
<1>3. QED
  BY <1>1, <1>2, FilesStep, PTL DEF PartsSpec

\* A document that can be found can be downloaded, whatever fails or crashes and
\* however deletions overlap, unless a commit that raised took effect.
THEOREM FoundMeansDownloadable == PartsSpec => []RowHasContent
<1>1. FilesInv => RowHasContent
  BY DEF FilesInv
<1>2. QED
  BY <1>1, FilesInvariance, PTL

\* No file is left without a row or a request, but by a crash or a commit that
\* raised and took effect.
THEOREM NothingLeftBehind == PartsSpec => []NoOrphans
<1>1. FilesInv => NoOrphans
  BY DEF FilesInv, CleanupInv, Interrupted, NoOrphans, Files!NoOrphans
<1>2. QED
  BY <1>1, FilesInvariance, PTL
-----------------------------------------------------------------------------
(* RateLimit.                                                              *)

\* A request that waits named the window it came in, and the present window has
\* counted nothing before it began.
LimiterInv ==
  /\ Limiter!TypeOK
  /\ \A r \in Clients : waiting[r].window = 1 => waiting[r].age > offset
  /\ count[0] > 0 => quiet <= offset

\* It holds before the first request.
LEMMA LimiterInit == Limiter!Init => LimiterInv
BY LimitAssumption, TimeoutAssumption
DEF Limiter!Init, LimiterInv, Limiter!TypeOK, Limiter!Windows, Limiter!Ages, Limiter!Idle,
    Limiter!Past

\* What is known of a request that waits.
LEMMA WaitingFields ==
  ASSUME Limiter!TypeOK, NEW r \in Clients
  PROVE  /\ waiting[r] # Limiter!Idle =>
              waiting[r].window \in {0, 1} /\ waiting[r].age \in 0 .. Timeout
         /\ waiting[r] = Limiter!Idle => waiting[r].window = 0 /\ waiting[r].age = -1
BY DEF Limiter!TypeOK, Limiter!Idle, Limiter!Windows, Limiter!Ages

\* A request that begins or ends sets quiet back.
LEMMA LimiterRequest ==
  ASSUME LimiterInv, NEW r \in Clients,
         Limiter!Arrive(r) \/ Limiter!Answer(r) \/ Limiter!FailOpen(r)
  PROVE  LimiterInv'
<1> USE LimitAssumption, TimeoutAssumption DEF LimiterInv
<1>1. UNCHANGED offset /\ quiet' = 0
  BY DEF Limiter!Arrive, Limiter!Answer, Limiter!FailOpen, Limiter!Leave
<1>2. count' \in [{0, 1} -> 0 .. Limit + 1] /\ ttl' \in [{0, 1} -> 0 .. Window + 1]
  <2>1. ASSUME NEW w \in {0, 1}, Limiter!Increment(w)
        PROVE  count' \in [{0, 1} -> 0 .. Limit + 1] /\ ttl' \in [{0, 1} -> 0 .. Window + 1]
    <3>1. Limiter!Counted(w) \in 0 .. Limit + 1
      BY DEF Limiter!Counted, Limiter!TypeOK, Limiter!Windows
    <3>2. QED
      BY <2>1, <3>1 DEF Limiter!Increment, Limiter!Lifetime, Limiter!TypeOK, Limiter!Windows
  <2>2. waiting[r] # Limiter!Idle => waiting[r].window \in {0, 1}
    BY WaitingFields
  <2>3. QED
    BY <2>1, <2>2 DEF Limiter!Arrive, Limiter!Answer, Limiter!FailOpen, Limiter!limiter,
       Limiter!TypeOK, Limiter!Windows
<1>3. /\ waiting'[r] \in {Limiter!Idle, [window |-> 0, age |-> 0]}
      /\ \A q \in Clients \ {r} : waiting'[q] = waiting[q]
      /\ waiting' \in [Clients -> [window : {0, 1}, age : 0 .. Timeout] \cup {Limiter!Idle}]
  BY DEF Limiter!Arrive, Limiter!Answer, Limiter!FailOpen, Limiter!Leave, Limiter!TypeOK,
     Limiter!Windows, Limiter!Ages
<1>4. spent' \subseteq [came : Limiter!Past, nth : 1 .. Limit + 1]
  <2>1. CASE Limiter!Answer(r)
    <3>1. waiting[r].age \in 0 .. Timeout
      BY <2>1, WaitingFields DEF Limiter!Answer
    <3>2. waiting[r].age \in Limiter!Past /\ waiting[r].window \in {0, 1}
      BY <2>1, <3>1, WaitingFields DEF Limiter!Past, Limiter!Answer
    <3>3. Limiter!Counted(waiting[r].window) \in 1 .. Limit + 1
      BY <3>2 DEF Limiter!Counted, Limiter!TypeOK, Limiter!Windows
    <3>4. Limiter!Spent(waiting[r].age, Limiter!Counted(waiting[r].window))
            \in [came : Limiter!Past, nth : 1 .. Limit + 1]
      BY <3>2, <3>3 DEF Limiter!Spent
    <3>5. QED
      BY <2>1, <3>4 DEF Limiter!Answer, Limiter!TypeOK
  <2>2. CASE Limiter!Arrive(r) \/ Limiter!FailOpen(r)
    BY <2>2 DEF Limiter!Arrive, Limiter!FailOpen, Limiter!TypeOK
  <2>3. QED
    BY <2>1, <2>2
<1>5. Limiter!TypeOK'
  BY <1>1, <1>2, <1>3, <1>4 DEF Limiter!TypeOK, Limiter!Windows, Limiter!Ages
<1>6. \A q \in Clients : waiting'[q].window = 1 => waiting'[q].age > offset'
  BY <1>1, <1>3 DEF Limiter!Idle
<1>7. QED
  BY <1>1, <1>5, <1>6 DEF Limiter!TypeOK

\* A second passes.  A request of the window before the present one is given up
\* before that window is two windows old.
LEMMA LimiterTick == ASSUME LimiterInv, Limiter!Tick PROVE LimiterInv'
<1> USE LimitAssumption, TimeoutAssumption DEF LimiterInv
<1> DEFINE turns == offset + 1 = Window
           left == [w \in {0, 1} |-> IF ttl[w] > 0 THEN ttl[w] - 1 ELSE 0]
           kept == [w \in {0, 1} |-> IF left[w] > 0 THEN count[w] ELSE 0]
<1>1. /\ offset' = IF turns THEN 0 ELSE offset + 1
      /\ count' = IF turns THEN Limiter!NewKey(kept) ELSE kept
      /\ ttl' = IF turns THEN Limiter!NewKey(left) ELSE left
      /\ \A r \in Clients : waiting[r].age < Timeout
      /\ spent' = {Limiter!Spent(s.came + 1, s.nth) :
                      s \in {x \in spent : x.came + 1 \in Limiter!Past}}
      /\ quiet' = IF quiet < Window THEN quiet + 1 ELSE Window
  BY DEF Limiter!Tick, Limiter!Windows
<1>2. \A r \in Clients :
        waiting'[r] = IF waiting[r] = Limiter!Idle THEN Limiter!Idle
                      ELSE [window |-> IF turns THEN waiting[r].window + 1
                                       ELSE waiting[r].window,
                            age |-> waiting[r].age + 1]
  BY DEF Limiter!Tick
<1>3. offset \in 0 .. Window - 1 /\ quiet \in 0 .. Window
  BY DEF Limiter!TypeOK
<1>4. offset' \in 0 .. Window - 1 /\ quiet' \in 0 .. Window
  BY <1>1, <1>3
<1>5. left \in [{0, 1} -> 0 .. Window + 1] /\ kept \in [{0, 1} -> 0 .. Limit + 1]
  BY DEF Limiter!TypeOK, Limiter!Windows
<1>6. count' \in [{0, 1} -> 0 .. Limit + 1] /\ ttl' \in [{0, 1} -> 0 .. Window + 1]
  BY <1>1, <1>5 DEF Limiter!NewKey, Limiter!Windows
<1>7. ASSUME NEW r \in Clients, waiting[r] # Limiter!Idle
      PROVE  /\ waiting'[r] \in [window : {0, 1}, age : 0 .. Timeout]
             /\ waiting'[r].window = 1 => waiting'[r].age > offset'
  <2>1. /\ waiting[r].window \in {0, 1} /\ waiting[r].age \in 0 .. Timeout
        /\ waiting[r].age < Timeout
        /\ waiting[r].window = 1 => waiting[r].age > offset
    BY <1>1, <1>7, WaitingFields
  <2>2. turns => waiting[r].window = 0
    BY <1>3, <2>1
  <2>3. /\ waiting'[r] = [window |-> IF turns THEN waiting[r].window + 1
                                     ELSE waiting[r].window,
                          age |-> waiting[r].age + 1]
    BY <1>2, <1>7
  <2>4. QED
    BY <1>1, <1>3, <2>1, <2>2, <2>3
<1>8. waiting' \in [Clients -> [window : {0, 1}, age : 0 .. Timeout] \cup {Limiter!Idle}]
  <2>1. waiting' = [r \in Clients |-> waiting'[r]]
    BY DEF Limiter!Tick
  <2>2. \A r \in Clients :
          waiting'[r] \in [window : {0, 1}, age : 0 .. Timeout] \cup {Limiter!Idle}
    BY <1>2, <1>7
  <2>3. QED
    BY <2>1, <2>2
<1>9. spent' \subseteq [came : Limiter!Past, nth : 1 .. Limit + 1]
  BY <1>1 DEF Limiter!Spent, Limiter!TypeOK
<1>10. \A r \in Clients : waiting'[r].window = 1 => waiting'[r].age > offset'
  <2>1. Limiter!Idle.window = 0
    BY DEF Limiter!Idle
  <2>2. \A r \in Clients : waiting[r] = Limiter!Idle => waiting'[r] = Limiter!Idle
    BY <1>2
  <2>3. QED
    BY <1>7, <2>1, <2>2
<1>11. count'[0] > 0 => quiet' <= offset'
  <2>1. CASE turns
    BY <1>1, <2>1 DEF Limiter!NewKey, Limiter!Windows
  <2>2. CASE ~turns
    <3>1. count'[0] > 0 => count[0] > 0
      BY <1>1, <2>2
    <3>2. QED
      BY <1>1, <1>3, <2>2, <3>1
  <2>3. QED
    BY <2>1, <2>2
<1>12. Limiter!TypeOK'
  BY <1>4, <1>6, <1>8, <1>9 DEF Limiter!TypeOK, Limiter!Windows, Limiter!Ages
<1>13. QED
  BY <1>10, <1>11, <1>12

\* It holds in every reachable state.
LEMMA LimiterInvariance == PartsSpec => []LimiterInv
<1>1. PartsInit => LimiterInv
  BY LimiterInit DEF PartsInit
<1>2. [PartsNext]_partsVars => [Limiter!Next]_limiterVars
  BY DEF PartsNext, partsVars
<1>3. ASSUME LimiterInv, [Limiter!Next]_limiterVars PROVE LimiterInv'
  <2>1. CASE Limiter!Next
    BY <1>3, <2>1, LimiterRequest, LimiterTick DEF Limiter!Next
  <2>2. CASE UNCHANGED limiterVars
    BY <1>3, <2>2 DEF limiterVars, LimiterInv, Limiter!TypeOK
  <2>3. QED
    BY <1>3, <2>1, <2>2
<1>4. QED
  BY <1>1, <1>2, <1>3, PTL DEF PartsSpec

(* How many requests a burst can bring in, with a command given up after at *)
(* most two ticks: one to connect to Redis and one to read its answer.      *)

\* How long ago the window began in which a request of that age came.
Began(age) ==
  IF age <= offset THEN offset
  ELSE IF age <= offset + Window THEN offset + Window
  ELSE IF age <= offset + 2 * Window THEN offset + 2 * Window
  ELSE offset + 3 * Window

\* Two requests with one number came in different windows, or one came in the
\* first tick of a window and the other one in its last.
OneNumber(x, y) ==
  x.nth = y.nth /\ Began(x.came) = Began(y.came) /\ x.came < y.came =>
    y.came = Began(y.came) /\ x.came = y.came - Window + 1

\* No number was given by a counter that may still be asked for the next one,
\* but for the first tick of a window whose counter has expired; a counter lives
\* for longer than a window after the requests that it has counted.
CountedBefore(x) ==
  /\ x.nth <= Limit
  /\ x.came <= offset => x.nth <= count[0] /\ ttl[0] >= Window + 1 - x.came
  /\ offset = 0 /\ x.came \in 1 .. Window =>
       x.nth <= count[1] /\ ttl[1] >= Window + 1 - x.came
  /\ offset = 1 /\ x.came \in 2 .. Window => x.nth <= count[1]

\* A request that names the present window came in it; the numbers are accounted for.
BurstInv ==
  /\ \A r \in Clients :
       waiting[r] # Limiter!Idle /\ waiting[r].window = 0 => waiting[r].age <= offset
  /\ \A x \in spent : CountedBefore(x)
  /\ \A x, y \in spent : OneNumber(x, y)

\* The types behind the arithmetic.
LEMMA LimiterTypes ==
  ASSUME Limiter!TypeOK
  PROVE  /\ offset \in 0 .. Window - 1
         /\ \A w \in {0, 1} : count[w] \in 0 .. Limit + 1 /\ ttl[w] \in 0 .. Window + 1
         /\ \A x \in spent : /\ x.came \in 0 .. 2 * Window + Timeout
                             /\ x.nth \in 1 .. Limit + 1
                             /\ x = Limiter!Spent(x.came, x.nth)
BY DEF Limiter!TypeOK, Limiter!Windows, Limiter!Past, Limiter!Spent

\* A counter that goes on, and lives no shorter, takes no number back.
LEMMA CountGoesOn ==
  ASSUME LimiterInv, BurstInv, UNCHANGED offset,
         count'[0] \in Int, count'[1] \in Int, ttl'[0] \in Int, ttl'[1] \in Int,
         count'[0] >= count[0], count'[1] >= count[1],
         ttl'[0] >= ttl[0], ttl'[1] >= ttl[1],
         NEW x \in spent
  PROVE  CountedBefore(x)'
<1>1. /\ x.came \in Int /\ x.nth \in Int /\ offset \in Int
      /\ count[0] \in Int /\ count[1] \in Int /\ ttl[0] \in Int /\ ttl[1] \in Int
  BY LimiterTypes DEF LimiterInv
<1>2. CountedBefore(x)
  BY DEF BurstInv
<1>3. QED
  BY <1>1, <1>2, LimitAssumption DEF CountedBefore

\* What INCR and EXPIRE do to the counter of a window.
LEMMA Incremented ==
  ASSUME LimiterInv, NEW w \in {0, 1}, Limiter!Increment(w)
  PROVE  /\ count'[w] = IF count[w] > Limit THEN count[w] ELSE count[w] + 1
         /\ ttl'[w] = Window + 1
         /\ \A v \in {0, 1} \ {w} : count'[v] = count[v] /\ ttl'[v] = ttl[v]
         /\ \A v \in {0, 1} : /\ count[v] \in Nat /\ ttl[v] \in 0 .. Window + 1
                              /\ count'[v] \in Nat /\ ttl'[v] \in Nat
                              /\ count'[v] >= count[v] /\ ttl'[v] >= ttl[v]
<1> USE LimitAssumption
<1>1. \A v \in {0, 1} : count[v] \in Nat /\ ttl[v] \in 0 .. Window + 1
  BY LimiterTypes DEF LimiterInv
<1>2. /\ count'[w] = IF count[w] > Limit THEN count[w] ELSE count[w] + 1
      /\ ttl'[w] = Window + 1
      /\ \A v \in {0, 1} \ {w} : count'[v] = count[v] /\ ttl'[v] = ttl[v]
  BY DEF Limiter!Increment, Limiter!Counted, Limiter!Lifetime, LimiterInv, Limiter!TypeOK,
     Limiter!Windows
<1>3. QED
  BY <1>1, <1>2

\* A request that is admitted has a number of its own in its window, or is the
\* late one of the last tick.
LEMMA AdmittedStep ==
  ASSUME LimiterInv, BurstInv, LimiterInv', Timeout <= 2, NEW r \in Clients,
         Limiter!Answer(r), Limiter!Admitted(Limiter!Counted(waiting[r].window))
  PROVE  /\ \A x \in spent' : CountedBefore(x)'
         /\ \A x, y \in spent' : OneNumber(x, y)'
<1> DEFINE w == waiting[r].window
           n == Limiter!Counted(w)
<1> USE LimitAssumption, TimeoutAssumption
<1> PICK new : new = Limiter!Spent(waiting[r].age, n)
  OBVIOUS
<1>1. /\ waiting[r] # Limiter!Idle /\ Limiter!Increment(w) /\ UNCHANGED offset
      /\ spent' = spent \cup {new}
  BY DEF Limiter!Answer
<1>2. /\ w \in {0, 1} /\ waiting[r].age \in 0 .. Timeout
      /\ w = 0 => waiting[r].age <= offset
      /\ w = 1 => waiting[r].age > offset
  BY <1>1, WaitingFields DEF LimiterInv, BurstInv
<1>3. /\ count[w] \in Nat /\ n = count[w] + 1 /\ n <= Limit
      /\ count'[w] = n /\ ttl'[w] = Window + 1
  BY <1>1, <1>2, Incremented DEF Limiter!Counted, Limiter!Admitted
<1>4. new.came = waiting[r].age /\ new.nth = n
  BY DEF Limiter!Spent
<1>5. offset \in 0 .. Window - 1
  BY LimiterTypes DEF LimiterInv
<1> HIDE DEF n
<1>6. ASSUME NEW x \in spent PROVE CountedBefore(x)'
  <2>1. /\ count'[0] \in Nat /\ count'[1] \in Nat /\ ttl'[0] \in Nat /\ ttl'[1] \in Nat
        /\ count'[0] >= count[0] /\ count'[1] >= count[1]
        /\ ttl'[0] >= ttl[0] /\ ttl'[1] >= ttl[1]
    BY <1>1, <1>2, Incremented
  <2>2. QED
    BY <1>1, <2>1, CountGoesOn
<1>7. CountedBefore(new)'
  BY <1>1, <1>2, <1>3, <1>4, <1>5 DEF CountedBefore
<1>8. ASSUME NEW y \in spent PROVE OneNumber(new, y)' /\ OneNumber(y, new)'
  <2>1. y.came \in Nat /\ y.nth \in Nat /\ CountedBefore(y)
    BY LimiterTypes DEF LimiterInv, BurstInv
  <2>2. CASE w = 0
    <3>1. Began(new.came) = offset
      BY <1>2, <1>4, <1>5, <2>2 DEF Began
    <3>2. Began(y.came) = offset => y.came <= offset
      BY <1>5, <2>1 DEF Began
    <3>3. Began(y.came) = offset => y.nth < n
      BY <1>3, <2>1, <2>2, <3>2 DEF CountedBefore
    <3>4. QED
      BY <1>1, <1>3, <1>4, <2>1, <3>1, <3>3 DEF OneNumber, Began
  <2>3. CASE w = 1
    <3>1. Began(new.came) = offset + Window /\ offset <= 1 /\ new.came \in 1 .. Window
      BY <1>2, <1>4, <1>5, <2>3 DEF Began
    <3>2. ASSUME Began(y.came) = offset + Window, y.nth = n
          PROVE  offset = 1 /\ y.came = Window + 1 /\ new.came = 2
      <4>1. y.came > offset /\ y.came <= offset + Window
        BY <1>5, <2>1, <3>2 DEF Began
      <4>2. ~(y.nth <= count[1])
        BY <1>3, <2>3, <3>2
      <4>3. offset = 1 /\ y.came = Window + 1
        BY <1>5, <2>1, <3>1, <4>1, <4>2 DEF CountedBefore
      <4>4. QED
        BY <1>2, <1>4, <2>3, <4>3
    <3>3. QED
      BY <1>1, <1>4, <2>1, <3>1, <3>2 DEF OneNumber, Began
  <2>4. QED
    BY <1>2, <2>2, <2>3
<1>9. OneNumber(new, new)'
  BY <1>2, <1>4 DEF OneNumber
<1>10. \A x, y \in spent : OneNumber(x, y)'
  BY <1>1 DEF BurstInv, OneNumber, Began
<1>11. QED
  BY <1>1, <1>6, <1>7, <1>8, <1>9, <1>10

\* The other steps of a request admit nobody by a number.
LEMMA BurstRequest ==
  ASSUME LimiterInv, BurstInv, LimiterInv', Timeout <= 2, NEW r \in Clients,
         Limiter!Arrive(r) \/ Limiter!Answer(r) \/ Limiter!FailOpen(r)
  PROVE  BurstInv'
<1> USE LimitAssumption
<1>1. UNCHANGED offset
  BY DEF Limiter!Arrive, Limiter!Answer, Limiter!FailOpen
<1>2. \A q \in Clients :
        waiting'[q] # Limiter!Idle /\ waiting'[q].window = 0 => waiting'[q].age <= offset'
  <2>1. /\ waiting'[r] \in {Limiter!Idle, [window |-> 0, age |-> 0]}
        /\ \A q \in Clients \ {r} : waiting'[q] = waiting[q]
    BY DEF Limiter!Arrive, Limiter!Answer, Limiter!FailOpen, Limiter!Leave, LimiterInv,
       Limiter!TypeOK
  <2>2. offset >= 0
    BY LimiterTypes DEF LimiterInv
  <2>3. QED
    BY <1>1, <2>1, <2>2 DEF BurstInv
<1>3. CASE Limiter!Answer(r) /\ Limiter!Admitted(Limiter!Counted(waiting[r].window))
  BY <1>2, <1>3, AdmittedStep DEF BurstInv
<1>4. CASE ~(Limiter!Answer(r) /\ Limiter!Admitted(Limiter!Counted(waiting[r].window)))
  <2>1. UNCHANGED spent
    BY <1>4 DEF Limiter!Arrive, Limiter!Answer, Limiter!FailOpen
  <2>2. /\ \A v \in {0, 1} : /\ count'[v] \in Int /\ ttl'[v] \in Int
                             /\ count'[v] >= count[v] /\ ttl'[v] >= ttl[v]
    <3>1. CASE UNCHANGED Limiter!limiter
      <4>1. \A v \in {0, 1} : count[v] \in Int /\ ttl[v] \in Int
        BY LimiterTypes DEF LimiterInv
      <4>2. QED
        BY <3>1, <4>1 DEF Limiter!limiter
    <3>2. CASE waiting[r] # Limiter!Idle /\ Limiter!Increment(waiting[r].window)
      <4>1. waiting[r].window \in {0, 1}
        BY <3>2, WaitingFields DEF LimiterInv
      <4>2. QED
        BY <3>2, <4>1, Incremented
    <3>3. QED
      BY <3>1, <3>2 DEF Limiter!Arrive, Limiter!Answer, Limiter!FailOpen
  <2>3. \A x \in spent : CountedBefore(x)'
    BY <1>1, <2>2, CountGoesOn
  <2>4. QED
    BY <1>1, <1>2, <2>1, <2>3 DEF BurstInv, OneNumber, Began
<1>5. QED
  BY <1>3, <1>4

\* A second passes: what has been admitted gets older, and so does its window.
LEMMA BurstTick ==
  ASSUME LimiterInv, BurstInv, LimiterInv', Limiter!Tick PROVE BurstInv'
<1> USE LimitAssumption, TimeoutAssumption
<1> DEFINE turns == offset + 1 = Window
           left == [w \in {0, 1} |-> IF ttl[w] > 0 THEN ttl[w] - 1 ELSE 0]
           kept == [w \in {0, 1} |-> IF left[w] > 0 THEN count[w] ELSE 0]
<1>1. /\ offset' = IF turns THEN 0 ELSE offset + 1
      /\ count' = IF turns THEN Limiter!NewKey(kept) ELSE kept
      /\ ttl' = IF turns THEN Limiter!NewKey(left) ELSE left
      /\ spent' = {Limiter!Spent(s.came + 1, s.nth) :
                      s \in {x \in spent : x.came + 1 \in Limiter!Past}}
  BY DEF Limiter!Tick, Limiter!Windows
<1>2. /\ offset \in 0 .. Window - 1
      /\ count[0] \in Nat /\ count[1] \in Nat /\ ttl[0] \in Nat /\ ttl[1] \in Nat
  BY LimiterTypes DEF LimiterInv
<1>3. /\ left[0] = IF ttl[0] > 0 THEN ttl[0] - 1 ELSE 0
      /\ left[1] = IF ttl[1] > 0 THEN ttl[1] - 1 ELSE 0
      /\ kept[0] = IF left[0] > 0 THEN count[0] ELSE 0
      /\ kept[1] = IF left[1] > 0 THEN count[1] ELSE 0
  OBVIOUS
<1>4. /\ turns => /\ count'[1] = kept[0] /\ ttl'[1] = left[0]
                  /\ count'[0] = 0 /\ ttl'[0] = 0
      /\ ~turns => /\ count'[0] = kept[0] /\ ttl'[0] = left[0]
                   /\ count'[1] = kept[1] /\ ttl'[1] = left[1]
  BY <1>1 DEF Limiter!NewKey, Limiter!Windows
<1> HIDE DEF left, kept
<1>5. ASSUME NEW x \in spent, x.came + 1 \in Limiter!Past
      PROVE  /\ Began(x.came + 1)' = Began(x.came) + 1
             /\ CountedBefore(Limiter!Spent(x.came + 1, x.nth))'
  <2>1. /\ x.came \in Nat /\ x.nth \in 1 .. Limit + 1 /\ CountedBefore(x)
        /\ x.came + 1 <= 3 * Window
    BY <1>5, LimiterTypes DEF LimiterInv, BurstInv, Limiter!Past
  <2>2. Began(x.came + 1)' = Began(x.came) + 1
    <3>1. CASE turns
      BY <1>1, <1>2, <2>1, <3>1 DEF Began
    <3>2. CASE ~turns
      BY <1>1, <1>2, <2>1, <3>2 DEF Began
    <3>3. QED
      BY <3>1, <3>2
  <2> DEFINE old == Limiter!Spent(x.came + 1, x.nth)
  <2>3. old.came = x.came + 1 /\ old.nth = x.nth
    BY DEF Limiter!Spent
  <2> HIDE DEF old
  <2>4. CASE turns
    <3>1. x.came + 1 \in 1 .. Window =>
            x.nth <= count'[1] /\ ttl'[1] >= Window + 1 - (x.came + 1)
      BY <1>2, <1>3, <1>4, <2>1, <2>4 DEF CountedBefore
    <3>2. offset' = 0
      BY <1>1, <2>4
    <3>3. QED
      BY <2>1, <2>2, <2>3, <3>1, <3>2 DEF CountedBefore, old
  <2>5. CASE ~turns
    <3>1. x.came + 1 <= offset + 1 =>
            x.nth <= count'[0] /\ ttl'[0] >= Window + 1 - (x.came + 1)
      BY <1>2, <1>3, <1>4, <2>1, <2>5 DEF CountedBefore
    <3>2. offset = 0 /\ x.came + 1 \in 2 .. Window => x.nth <= count'[1]
      BY <1>2, <1>3, <1>4, <2>1, <2>5 DEF CountedBefore
    <3>3. offset' = offset + 1
      BY <1>1, <2>5
    <3>4. CountedBefore(old)'
      BY <1>2, <2>1, <2>3, <3>1, <3>2, <3>3 DEF CountedBefore
    <3>5. QED
      BY <2>2, <3>4 DEF old
  <2>6. QED
    BY <2>2, <2>4, <2>5
<1>6. \A x \in spent' : CountedBefore(x)'
  BY <1>1, <1>5
<1>7. ASSUME NEW x \in spent, x.came + 1 \in Limiter!Past,
             NEW y \in spent, y.came + 1 \in Limiter!Past
      PROVE  OneNumber(Limiter!Spent(x.came + 1, x.nth), Limiter!Spent(y.came + 1, y.nth))'
  <2>1. /\ Began(x.came + 1)' = Began(x.came) + 1
        /\ Began(y.came + 1)' = Began(y.came) + 1
    BY <1>5, <1>7
  <2>2. x.came \in Nat /\ y.came \in Nat /\ Began(x.came) \in Int /\ Began(y.came) \in Int
    BY <1>2, LimiterTypes DEF LimiterInv, Began
  <2>3. OneNumber(x, y)
    BY DEF BurstInv
  <2> DEFINE a == Limiter!Spent(x.came + 1, x.nth)
             b == Limiter!Spent(y.came + 1, y.nth)
  <2>4. a.came = x.came + 1 /\ a.nth = x.nth /\ b.came = y.came + 1 /\ b.nth = y.nth
    BY DEF Limiter!Spent
  <2> HIDE DEF a, b
  <2>5. OneNumber(a, b)'
    BY <2>1, <2>2, <2>3, <2>4 DEF OneNumber, a, b, Limiter!Spent
  <2>6. QED
    BY <2>5 DEF a, b
<1>8. \A x, y \in spent' : OneNumber(x, y)'
  BY <1>1, <1>7
<1>9. ASSUME NEW r \in Clients, waiting'[r] # Limiter!Idle, waiting'[r].window = 0
      PROVE  waiting'[r].age <= offset'
  <2>1. /\ waiting[r] # Limiter!Idle
        /\ waiting'[r] = [window |-> IF turns THEN waiting[r].window + 1
                                     ELSE waiting[r].window,
                          age |-> waiting[r].age + 1]
    BY <1>9 DEF Limiter!Tick
  <2>2. waiting[r].window \in {0, 1} /\ waiting[r].age \in 0 .. Timeout
    BY <2>1, WaitingFields DEF LimiterInv
  <2>3. ~turns /\ waiting[r].window = 0
    BY <1>9, <2>1, <2>2
  <2>4. waiting[r].age <= offset
    BY <2>1, <2>3 DEF BurstInv
  <2>5. QED
    BY <1>1, <1>2, <2>1, <2>2, <2>3, <2>4
<1>10. QED
  BY <1>6, <1>8, <1>9 DEF BurstInv

\* The account of numbers holds as long as no command outlives two ticks.
LEMMA BurstInvariance == ASSUME Timeout <= 2 PROVE PartsSpec => []BurstInv
<1>1. PartsInit => BurstInv
  BY DEF PartsInit, Limiter!Init, BurstInv
<1>2. [PartsNext]_partsVars => [Limiter!Next]_limiterVars
  BY DEF PartsNext, partsVars
<1>3. ASSUME LimiterInv, LimiterInv', BurstInv, [Limiter!Next]_limiterVars PROVE BurstInv'
  <2>1. CASE Limiter!Next
    BY <1>3, <2>1, BurstRequest, BurstTick DEF Limiter!Next
  <2>2. CASE UNCHANGED limiterVars
    BY <1>3, <2>2 DEF limiterVars, BurstInv, CountedBefore, OneNumber, Began
  <2>3. QED
    BY <1>3, <2>1, <2>2
<1>4. QED
  BY <1>1, <1>2, <1>3, LimiterInvariance, PTL DEF PartsSpec

\* Requests with numbers of their own are at most as many as the limit.
LEMMA NumbersAreFew ==
  ASSUME NEW S, \A x \in S : x.nth \in 1 .. Limit,
         \A x, y \in S : x.nth = y.nth => x = y
  PROVE  IsFiniteSet(S) /\ Cardinality(S) \in Nat /\ Cardinality(S) <= Limit
<1> DEFINE number == [x \in S |-> x.nth]
<1>1. number \in Injection(S, 1 .. Limit)
  BY DEF Injection, IsInjective
<1>2. IsFiniteSet(1 .. Limit) /\ Cardinality(1 .. Limit) = Limit
  BY LimitAssumption, FS_Interval
<1>3. QED
  BY <1>1, <1>2, FS_Injection, FS_CardinalityType

\* However requests, answers and the turns of the window interleave, the length
\* of a window lets in at most twice the limit, if no command outlives two ticks.
THEOREM BurstsAreBounded == ASSUME Timeout <= 2 PROVE PartsSpec => []BurstBounded
<1>1. ASSUME LimiterInv, BurstInv, NEW first \in 0 .. Window + Timeout
      PROVE  Cardinality({s \in spent : s.came \in first .. first + Window - 1})
               <= 2 * Limit
  <2> USE LimitAssumption, TimeoutAssumption
  <2> DEFINE S == {s \in spent : s.came \in first .. first + Window - 1}
             edge == Began(first)
             cut == IF edge = first + Window - 1 THEN edge ELSE edge + 1
             late == {s \in S : s.came < cut}
             early == {s \in S : s.came >= cut}
  <2>1. offset \in 0 .. Window - 1
    BY <1>1, LimiterTypes DEF LimiterInv
  <2>2. edge \in first .. first + Window - 1
    BY <2>1 DEF Began
  <2>3. \A x \in spent : /\ x.came \in Nat /\ x.nth \in 1 .. Limit
                         /\ x = Limiter!Spent(x.came, x.nth)
    <3>1. \A x \in spent : x.nth <= Limit
      BY <1>1 DEF BurstInv, CountedBefore
    <3>2. QED
      BY <1>1, <3>1, LimiterTypes DEF LimiterInv
  <2>4. ASSUME NEW x \in S, NEW y \in S, x.nth = y.nth, x.came < y.came
        PROVE  x.came < cut /\ y.came >= cut
    <3>1. /\ x.came \in first .. first + Window - 1 /\ y.came \in first .. first + Window - 1
          /\ x.came \in Nat /\ y.came \in Nat /\ OneNumber(x, y)
      BY <1>1, <2>3 DEF BurstInv
    <3>2. \A c \in first .. first + Window - 1 :
            Began(c) = IF c <= edge THEN edge ELSE edge + Window
      BY <2>1, <2>2 DEF Began
    <3>3. CASE Began(x.came) = Began(y.came)
      <4>1. y.came = Began(y.came) /\ x.came = y.came - Window + 1
        BY <2>4, <3>1, <3>3 DEF OneNumber
      <4>2. QED
        BY <2>2, <3>1, <3>2, <4>1, <2>4
    <3>4. CASE Began(x.came) # Began(y.came)
      BY <2>2, <2>4, <3>1, <3>2, <3>4
    <3>5. QED
      BY <3>3, <3>4
  <2>5. \A x, y \in S : x.nth = y.nth /\ x.came = y.came => x = y
    BY <2>3
  <2> HIDE DEF cut, S
  <2>6. cut \in Int
    BY <2>2 DEF cut
  <2>7. \A x \in S : x.came \in Nat /\ x.nth \in 1 .. Limit
    BY <2>3 DEF S
  <2>8. ASSUME NEW T \in {late, early}, NEW x \in T, NEW y \in T, x.nth = y.nth
        PROVE  x = y
    <3>1. ~(x.came < y.came) /\ ~(y.came < x.came)
      BY <2>4, <2>6, <2>7, <2>8
    <3>2. QED
      BY <2>5, <2>7, <2>8, <3>1
  <2>9. ASSUME NEW T \in {late, early}
        PROVE  IsFiniteSet(T) /\ Cardinality(T) \in Nat /\ Cardinality(T) <= Limit
    BY <2>7, <2>8, NumbersAreFew
  <2>10. S = late \cup early
    BY <2>6, <2>7
  <2>11. Cardinality(S) = Cardinality(late) + Cardinality(early)
                           - Cardinality(late \cap early)
    BY <2>9, <2>10, FS_Union
  <2>12. Cardinality(late \cap early) = 0
    <3>1. late \cap early = {}
      BY <2>6, <2>7
    <3>2. QED
      BY <3>1, FS_EmptySet
  <2>13. Cardinality(S) <= 2 * Limit
    <3>1. /\ Cardinality(late) \in Nat /\ Cardinality(late) <= Limit
          /\ Cardinality(early) \in Nat /\ Cardinality(early) <= Limit
      BY <2>9
    <3>2. QED
      BY <2>11, <2>12, <3>1
  <2>14. QED
    BY <2>13 DEF S
<1>2. LimiterInv /\ BurstInv => BurstBounded
  <2>1. \A S : Limiter!Cardinality(S) = Cardinality(S)
    BY DEF Limiter!Cardinality, Cardinality
  <2>2. QED
    BY <1>1, <2>1 DEF BurstBounded, Limiter!BurstBounded
<1>3. QED
  BY <1>2, LimiterInvariance, BurstInvariance, PTL

\* A client that is silent for the Retry-After of a 429 finds no count left.
THEOREM WaitingHelps == PartsSpec => []RetryAfterSuffices
<1>1. LimiterInv => RetryAfterSuffices
  BY LimitAssumption
  DEF LimiterInv, RetryAfterSuffices, Limiter!RetryAfterSuffices, Limiter!TypeOK,
      Limiter!Windows
<1>2. QED
  BY <1>1, LimiterInvariance, PTL
-----------------------------------------------------------------------------
(* WebPages.                                                               *)

ShowsSelected == documents = selected /\ properties \in {selected, None}

\* Before a switch overtakes a call, all calls are about the selected
\* organization, and what is shown is current or about to be loaded; before any
\* switch, the choice and the uploads are of that organization too.
PageInv ==
  /\ Page!TypeOK
  /\ ~mounted => Page!Busy = {}
  /\ mounted /\ ~overtaken => \A c \in Page!Busy : call[c].org = selected
  /\ mounted /\ ~overtaken /\ ~failed =>
       ShowsSelected \/ \E c \in Page!Busy : call[c].op = "load"
  /\ mounted /\ ~switched =>
       /\ \A c \in Page!Busy : call[c].org = selected
       /\ properties \in {selected, None} /\ propertyId \in {selected, None}
  /\ UploadsNameOwnProperty

\* It holds before the page is opened.
LEMMA PageInit == Page!Init => PageInv
BY DEF Page!Init, PageInv, Page!TypeOK, Page!Busy, UploadsNameOwnProperty,
   Page!UploadsNameOwnProperty

\* A call under way has its fields.
LEMMA CallFields ==
  ASSUME Page!TypeOK, NEW c \in Calls
  PROVE  /\ c \in Page!Busy =>
              /\ call[c] \in Page!Call /\ call[c].org \in Orgs
              /\ call[c].op \in {"load", "upload", "reload", "remove"}
         /\ call[c].op # "none" => c \in Page!Busy
         /\ call[c] # Page!Idle <=> c \in Page!Busy
BY DEF Page!TypeOK, Page!Busy, Page!Call, Page!Idle

\* A call that is made is about the organization it was made for.
LEMMA MakeOne ==
  ASSUME Page!TypeOK, NEW c \in Calls, NEW op \in {"load", "upload", "reload", "remove"},
         NEW o \in Orgs, NEW about \in Orgs \cup {None}, Page!Make(c, op, o, about)
  PROVE  /\ call' \in [Calls -> Page!Call \cup {Page!Idle}]
         /\ c \notin Page!Busy /\ Page!Busy' = Page!Busy \cup {c}
         /\ call'[c].op = op /\ call'[c].org = o
         /\ \A d \in Page!Busy : call'[d] = call[d]
BY DEF Page!TypeOK, Page!Make, Page!Busy, Page!Call, Page!Idle

\* One that ends is gone.
LEMMA IdleOne ==
  ASSUME Page!TypeOK, NEW c \in Calls, call' = [call EXCEPT ![c] = Page!Idle]
  PROVE  /\ call' \in [Calls -> Page!Call \cup {Page!Idle}]
         /\ Page!Busy' = Page!Busy \ {c}
         /\ \A d \in Page!Busy \ {c} : call'[d] = call[d]
BY DEF Page!TypeOK, Page!Busy

\* The page opens: what it shows is about to be loaded.
LEMMA MountStep == ASSUME PageInv, NEW c \in Calls, Page!Mount(c) PROVE PageInv'
<1> USE DEF PageInv
<1>1. /\ ~mounted /\ mounted' /\ Page!Make(c, "load", selected, None)
      /\ documents' = None /\ properties' = None /\ propertyId' = None
      /\ ~switched' /\ ~overtaken' /\ ~failed'
      /\ UNCHANGED <<selected, has, uploads>>
  BY DEF Page!Mount, Page!InitialChoice
<1>2. /\ call' \in [Calls -> Page!Call \cup {Page!Idle}]
      /\ Page!Busy' = {c} /\ call'[c].op = "load" /\ call'[c].org = selected
  BY <1>1, MakeOne DEF Page!TypeOK
<1>3. Page!TypeOK'
  BY <1>1, <1>2 DEF Page!TypeOK, Page!Mount
<1>4. QED
  BY <1>1, <1>2, <1>3 DEF UploadsNameOwnProperty, Page!UploadsNameOwnProperty

\* A switch that meets a call under way overtakes it.
LEMMA SwitchStep == ASSUME PageInv, NEW c \in Calls, Page!Switch(c) PROVE PageInv'
<1> USE DEF PageInv
<1>1. /\ selected' \in Orgs /\ switched' /\ overtaken' = (overtaken \/ Page!Busy # {})
      /\ UNCHANGED <<mounted, documents, properties, propertyId, has, uploads, failed>>
  BY DEF Page!Switch, Page!state
<1>2. UNCHANGED uploads => UploadsNameOwnProperty'
  BY DEF UploadsNameOwnProperty, Page!UploadsNameOwnProperty
<1>3. CASE mounted
  <2>1. Page!Make(c, "load", selected', None)
    BY <1>3 DEF Page!Switch, Page!LoadsAgain
  <2>2. /\ call' \in [Calls -> Page!Call \cup {Page!Idle}]
        /\ Page!Busy' = Page!Busy \cup {c} /\ call'[c].op = "load" /\ call'[c].org = selected'
    BY <1>1, <2>1, MakeOne
  <2>3. Page!TypeOK'
    BY <1>1, <2>2 DEF Page!TypeOK
  <2>4. QED
    BY <1>1, <1>2, <1>3, <2>2, <2>3
<1>4. CASE ~mounted
  <2>1. call' = call /\ Page!Busy' = Page!Busy
    BY <1>4 DEF Page!Switch, Page!Busy
  <2>2. Page!TypeOK'
    BY <1>1, <2>1 DEF Page!TypeOK
  <2>3. QED
    BY <1>1, <1>2, <1>4, <2>1, <2>2
<1>5. QED
  BY <1>3, <1>4

\* A new call is about the selected organization.
LEMMA StartCallStep == ASSUME PageInv, NEW c \in Calls, Page!StartCall(c) PROVE PageInv'
<1> USE DEF PageInv
<1>1. /\ mounted
      /\ UNCHANGED <<selected, mounted, documents, properties, propertyId, has,
                     switched, overtaken, failed>>
  BY DEF Page!StartCall, Page!state, Page!history
<1>2. PICK op \in {"upload", "remove"}, about \in Orgs : Page!Make(c, op, selected, about)
  BY DEF Page!StartCall, Page!StartUpload, Page!StartRemove, Page!TypeOK
<1>3. /\ call' \in [Calls -> Page!Call \cup {Page!Idle}]
      /\ Page!Busy' = Page!Busy \cup {c} /\ call'[c].org = selected
      /\ \A d \in Page!Busy : call'[d] = call[d]
  BY <1>2, MakeOne DEF Page!TypeOK
<1>4. /\ uploads' \subseteq [org : Orgs, property : Orgs, after : BOOLEAN]
      /\ UploadsNameOwnProperty'
  <2>1. CASE UNCHANGED uploads
    BY <2>1 DEF Page!TypeOK, UploadsNameOwnProperty, Page!UploadsNameOwnProperty
  <2>2. CASE Page!StartUpload(c)
    <3> DEFINE u == [org |-> selected, property |-> propertyId, after |-> switched]
    <3>1. uploads' = uploads \cup {u} /\ propertyId # None
      BY <2>2 DEF Page!StartUpload
    <3>2. u \in [org : Orgs, property : Orgs, after : BOOLEAN]
      BY <3>1 DEF Page!TypeOK
    <3>3. u.property = u.org \/ u.after
      BY <1>1, <3>1
    <3>4. QED
      BY <3>1, <3>2, <3>3 DEF Page!TypeOK, UploadsNameOwnProperty, Page!UploadsNameOwnProperty
  <2>3. QED
    BY <2>1, <2>2 DEF Page!StartCall, Page!StartRemove
<1>5. Page!TypeOK'
  BY <1>1, <1>3, <1>4 DEF Page!TypeOK
<1>6. QED
  BY <1>1, <1>3, <1>4, <1>5 DEF ShowsSelected

\* An answered load shows the organization that it was about.
LEMMA LoadedStep == ASSUME PageInv, NEW c \in Calls, Page!Loaded(c) PROVE PageInv'
<1> USE DEF PageInv
<1>1. c \in Page!Busy /\ call[c].org \in Orgs
  BY CallFields DEF Page!Loaded
<1>2. /\ documents' = call[c].org /\ properties' \in {call[c].org, None}
      /\ propertyId' \in {propertyId, call[c].org, None}
      /\ call' = [call EXCEPT ![c] = Page!Idle]
      /\ UNCHANGED <<selected, mounted, has, uploads, switched, overtaken, failed>>
  BY DEF Page!Loaded, Page!history
<1>3. /\ call' \in [Calls -> Page!Call \cup {Page!Idle}]
      /\ Page!Busy' = Page!Busy \ {c}
      /\ \A d \in Page!Busy \ {c} : call'[d] = call[d]
  BY <1>2, IdleOne
<1>4. Page!TypeOK'
  BY <1>1, <1>2, <1>3 DEF Page!TypeOK
<1>5. UploadsNameOwnProperty'
  BY <1>2 DEF UploadsNameOwnProperty, Page!UploadsNameOwnProperty
<1>6. QED
  BY <1>1, <1>2, <1>3, <1>4, <1>5 DEF ShowsSelected

\* A finished upload or removal asks for the list of its own organization.
LEMMA DoneStep == ASSUME PageInv, NEW c \in Calls, Page!Done(c) PROVE PageInv'
<1> USE DEF PageInv
<1>1. c \in Page!Busy /\ call[c].org \in Orgs /\ call[c].op \in {"upload", "remove"}
  BY CallFields DEF Page!Done
<1>2. UNCHANGED <<selected, mounted, documents, properties, propertyId, has, uploads,
                  switched, overtaken, failed>>
  BY DEF Page!Done, Page!state, Page!history
<1>3. /\ call' \in [Calls -> Page!Call \cup {Page!Idle}]
      /\ Page!Busy' = Page!Busy /\ call'[c].org = call[c].org
      /\ \A d \in Page!Busy \ {c} : call'[d] = call[d]
  BY <1>1 DEF Page!Done, Page!Follow, Page!TypeOK, Page!Call, Page!Busy, Page!Idle
<1>4. Page!TypeOK'
  BY <1>2, <1>3 DEF Page!TypeOK
<1>5. UploadsNameOwnProperty'
  BY <1>2 DEF UploadsNameOwnProperty, Page!UploadsNameOwnProperty
<1>6. \A d \in Page!Busy : call[d].op = "load" => call'[d].op = "load"
  BY <1>1, <1>3
<1>7. QED
  BY <1>1, <1>2, <1>3, <1>4, <1>5, <1>6 DEF ShowsSelected

\* A call that fails leaves what is shown, which is counted as failed.
LEMMA FailsStep == ASSUME PageInv, NEW c \in Calls, Page!Fails(c) PROVE PageInv'
<1> USE DEF PageInv
<1>1. /\ call' = [call EXCEPT ![c] = Page!Idle] /\ failed' = (failed \/ call[c].op = "load")
      /\ UNCHANGED <<selected, mounted, documents, properties, propertyId, has, uploads,
                     switched, overtaken>>
  BY DEF Page!Fails, Page!state
<1>2. /\ call' \in [Calls -> Page!Call \cup {Page!Idle}]
      /\ Page!Busy' = Page!Busy \ {c}
      /\ \A d \in Page!Busy \ {c} : call'[d] = call[d]
  BY <1>1, IdleOne
<1>3. Page!TypeOK'
  BY <1>1, <1>2 DEF Page!TypeOK
<1>4. UploadsNameOwnProperty'
  BY <1>1 DEF UploadsNameOwnProperty, Page!UploadsNameOwnProperty
<1>5. QED
  BY <1>1, <1>2, <1>3, <1>4 DEF ShowsSelected

\* The steps that make and answer no call.
LEMMA QuietPageStep ==
  ASSUME PageInv, Page!Unmount \/ Page!Pick \/ Page!AddProperty \/ UNCHANGED pageVars
  PROVE  PageInv'
<1> USE DEF PageInv
<1>1. UNCHANGED uploads => UploadsNameOwnProperty'
  BY DEF UploadsNameOwnProperty, Page!UploadsNameOwnProperty
<1>2. CASE Page!Unmount
  <2>1. Page!Busy' = {}
    BY <1>2 DEF Page!Unmount, Page!Busy
  <2>2. QED
    BY <1>1, <1>2, <2>1 DEF Page!Unmount, Page!state, Page!history, Page!TypeOK
<1>3. CASE Page!Pick
  BY <1>1, <1>3 DEF Page!Pick, Page!history, Page!TypeOK, Page!Busy, ShowsSelected
<1>4. CASE Page!AddProperty
  BY <1>1, <1>4 DEF Page!AddProperty, Page!state, Page!history, Page!TypeOK, Page!Busy,
     ShowsSelected
<1>5. CASE UNCHANGED pageVars
  BY <1>1, <1>5 DEF pageVars, Page!TypeOK, Page!Busy, ShowsSelected
<1>6. QED
  BY <1>2, <1>3, <1>4, <1>5

\* It holds in every reachable state.
LEMMA PageInvariance == PartsSpec => []PageInv
<1>1. PartsInit => PageInv
  BY PageInit DEF PartsInit
<1>2. [PartsNext]_partsVars => [Page!Next]_pageVars
  BY DEF PartsNext, partsVars
<1>3. PageInv /\ [Page!Next]_pageVars => PageInv'
  BY MountStep, SwitchStep, StartCallStep, LoadedStep, DoneStep, FailsStep, QuietPageStep
  DEF Page!Next
<1>4. QED
  BY <1>1, <1>2, <1>3, PTL DEF PartsSpec

\* A page that waits for nothing lists the selected organization, unless a
\* switch overtook a call or a load failed.
THEOREM PageShowsSelected == PartsSpec => []ShownIsSelected
<1>1. PageInv => ShownIsSelected
  BY DEF PageInv, ShowsSelected, ShownIsSelected, Page!ShownIsSelected
<1>2. QED
  BY <1>1, PageInvariance, PTL

\* Uploads name a property of their own organization, unless the organization
\* was switched on the open page.
THEOREM UploadsStayAtHome == PartsSpec => []UploadsNameOwnProperty
<1>1. PageInv => UploadsNameOwnProperty
  BY DEF PageInv
<1>2. QED
  BY <1>1, PageInvariance, PTL
-----------------------------------------------------------------------------
(* Accounts.                                                               *)

\* Rows are kept in lower case, one for an email; a committed registration and
\* an answered one have their row.
RegistryInv ==
  /\ Registry!TypeOK
  /\ \A u \in users : u.email[2] = "lower"
  /\ \A u, v \in users : u.email[1] = v.email[1] => u = v
  /\ \A h \in Forms : form[h].step = "committed" => Registry!Row(h) \in users
  /\ ~lockedOut

\* It holds before the first registration.
LEMMA RegistryInit == Registry!Init => RegistryInv
<1> SUFFICES ASSUME Registry!Init PROVE RegistryInv
  OBVIOUS
<1>1. \A h \in Forms : form[h] = Registry!NoForm
  BY DEF Registry!Init
<1>2. Registry!NoForm.step # "committed"
  BY DEF Registry!NoForm
<1>3. users = {} /\ ~lockedOut
  BY DEF Registry!Init
<1>4. Registry!TypeOK
  BY DEF Registry!Init, Registry!TypeOK
<1>5. QED
  BY <1>1, <1>2, <1>3, <1>4 DEF RegistryInv

\* What a form holds, and the row it asks for.
LEMMA FormFields ==
  ASSUME Registry!TypeOK, NEW h \in Forms, form[h].step # "none"
  PROVE  /\ form[h] \in Registry!Form /\ form[h] # Registry!NoForm
         /\ Registry!Row(h) \in [email : Emails \X Cases, by : People]
         /\ Registry!Row(h).email[2] = "lower"
<1>1. form[h] \in Registry!Form /\ form[h] # Registry!NoForm
  BY DEF Registry!TypeOK, Registry!Form, Registry!NoForm
<1>2. form[h].typed \in Emails \X Cases /\ form[h].by \in People
  BY <1>1 DEF Registry!Form, Registry!Typed
<1>3. form[h].typed[1] \in Emails
  BY <1>2
<1>4. QED
  BY <1>1, <1>2, <1>3, CasesAssumption DEF Registry!Row, Registry!Lower

\* A form that is left is empty; no other one changes.
LEMMA LeaveOne ==
  ASSUME Registry!TypeOK, NEW h \in Forms, Registry!Leave(h)
  PROVE  /\ form' \in [Forms -> Registry!Form \cup {Registry!NoForm}]
         /\ form'[h].step = "none" /\ \A g \in Forms \ {h} : form'[g] = form[g]
BY DEF Registry!TypeOK, Registry!Leave, Registry!NoForm

\* The unique index keeps a second row of an email out, whatever was checked.
LEMMA CommitUserStep ==
  ASSUME RegistryInv, NEW h \in Forms, Registry!CommitUser(h) PROVE RegistryInv'
<1> USE DEF RegistryInv
<1> DEFINE row == Registry!Row(h)
<1>1. /\ form[h].step = "checked" /\ \A u \in users : u.email # row.email
      /\ users' = users \cup {row} /\ form' = [form EXCEPT ![h].step = "committed"]
      /\ UNCHANGED <<sessions, answered, lockedOut>>
  BY DEF Registry!CommitUser, Registry!IndexAllows
<1>2. /\ form[h] \in Registry!Form /\ row \in [email : Emails \X Cases, by : People]
      /\ row.email[2] = "lower"
  BY <1>1, FormFields
<1>3. /\ form' \in [Forms -> Registry!Form \cup {Registry!NoForm}]
      /\ form'[h].typed = form[h].typed /\ form'[h].by = form[h].by
      /\ \A g \in Forms \ {h} : form'[g] = form[g]
  BY <1>1, <1>2 DEF Registry!TypeOK, Registry!Form
<1>4. Registry!TypeOK'
  BY <1>1, <1>2, <1>3 DEF Registry!TypeOK, Registry!Typed
<1>5. \A u \in users : u.email[1] # row.email[1]
  <2> SUFFICES ASSUME NEW u \in users, u.email[1] = row.email[1] PROVE FALSE
    OBVIOUS
  <2>1. u.email \in Emails \X Cases /\ row.email \in Emails \X Cases
    BY <1>2 DEF Registry!TypeOK, Registry!Typed
  <2>2. u.email = <<u.email[1], u.email[2]>> /\ row.email = <<row.email[1], row.email[2]>>
    BY <2>1
  <2>3. u.email[2] = row.email[2]
    BY <1>2
  <2>4. QED
    BY <1>1, <2>2, <2>3
<1>6. \A g \in Forms : Registry!Row(g)' = Registry!Row(g)
  BY <1>3 DEF Registry!Row
<1>7. \A g \in Forms : form'[g].step = "committed" => Registry!Row(g)' \in users'
  BY <1>1, <1>3, <1>6
<1>8. \A u, v \in users' : u.email[1] = v.email[1] => u = v
  BY <1>1, <1>5
<1>9. QED
  BY <1>1, <1>2, <1>4, <1>7, <1>8

\* The steps of a registration that write no row.
LEMMA FormStep ==
  ASSUME RegistryInv, NEW h \in Forms,
         \/ Registry!CheckEmail(h) \/ Registry!FailUser(h)
         \/ Registry!AnswerRegister(h) \/ Registry!AbortRegister(h)
  PROVE  RegistryInv'
<1> USE DEF RegistryInv
<1>1. UNCHANGED <<users, sessions, lockedOut>>
  BY DEF Registry!CheckEmail, Registry!FailUser, Registry!AnswerRegister,
     Registry!AbortRegister
<1>2. /\ form' \in [Forms -> Registry!Form \cup {Registry!NoForm}]
      /\ form'[h].step # "committed" /\ \A g \in Forms \ {h} : form'[g] = form[g]
  <2>1. CASE Registry!CheckEmail(h)
    <3>1. PICK typed \in Registry!Typed, p \in People :
            form' = [form EXCEPT ![h] = [step |-> "checked", typed |-> typed, by |-> p]]
      BY <2>1 DEF Registry!CheckEmail
    <3>2. QED
      BY <3>1 DEF Registry!TypeOK, Registry!Form
  <2>2. CASE Registry!Leave(h)
    BY <2>2, LeaveOne
  <2>3. QED
    BY <2>1, <2>2 DEF Registry!FailUser, Registry!AnswerRegister, Registry!AbortRegister
<1>3. answered' \subseteq users
  BY DEF Registry!CheckEmail, Registry!FailUser, Registry!AnswerRegister,
     Registry!AbortRegister, Registry!TypeOK
<1>4. Registry!TypeOK'
  BY <1>1, <1>2, <1>3 DEF Registry!TypeOK
<1>5. \A g \in Forms : form'[g].step = "committed" => Registry!Row(g)' \in users'
  BY <1>1, <1>2 DEF Registry!Row
<1>6. QED
  BY <1>1, <1>4, <1>5

\* Who was answered 201 has the row that the sign-in looks for.
LEMMA SignInStep ==
  ASSUME RegistryInv, NEW typed \in Registry!Typed, NEW p \in People,
         Registry!SignIn(typed, p)
  PROVE  RegistryInv'
<1> USE DEF RegistryInv
<1> DEFINE row == [email |-> Registry!Lower(typed), by |-> p]
<1>1. UNCHANGED <<users, form, answered>>
  BY DEF Registry!SignIn
<1>2. CASE row \in users
  BY <1>1, <1>2 DEF Registry!SignIn, Registry!KnowsPassword, Registry!TypeOK, Registry!Row
<1>3. CASE row \notin users
  <2>1. \A u \in answered : ~(u.email[1] = typed[1] /\ u.by = p)
    <3> SUFFICES ASSUME NEW u \in answered, u.email[1] = typed[1], u.by = p PROVE FALSE
      OBVIOUS
    <3>1. u \in users /\ u \in [email : Emails \X Cases, by : People] /\ u.email[2] = "lower"
      BY DEF Registry!TypeOK, Registry!Typed
    <3>2. u.email = <<u.email[1], u.email[2]>>
      BY <3>1
    <3>3. u.email = Registry!Lower(typed)
      BY <3>1, <3>2 DEF Registry!Lower
    <3>4. u = [email |-> u.email, by |-> u.by]
      BY <3>1
    <3>5. QED
      BY <1>3, <3>1, <3>3, <3>4
  <2>2. ~lockedOut' /\ sessions' = sessions /\ lockedOut' \in BOOLEAN
    BY <1>3, <2>1 DEF Registry!SignIn, Registry!KnowsPassword
  <2>3. QED
    BY <1>1, <2>2 DEF Registry!TypeOK, Registry!Row
<1>4. QED
  BY <1>2, <1>3

\* It holds in every reachable state.
LEMMA RegistryInvariance == PartsSpec => []RegistryInv
<1>1. PartsInit => RegistryInv
  BY RegistryInit DEF PartsInit
<1>2. [PartsNext]_partsVars => [Registry!Next]_registryVars
  BY DEF PartsNext, partsVars
<1>3. ASSUME RegistryInv, [Registry!Next]_registryVars PROVE RegistryInv'
  <2>1. CASE Registry!Next
    BY <1>3, <2>1, CommitUserStep, FormStep, SignInStep DEF Registry!Next
  <2>2. CASE UNCHANGED registryVars
    BY <1>3, <2>2 DEF registryVars, RegistryInv, Registry!TypeOK, Registry!Row
  <2>3. QED
    BY <1>3, <2>1, <2>2
<1>4. QED
  BY <1>1, <1>2, <1>3, PTL DEF PartsSpec

\* Of all who register an email at the same time one gets it, and he can sign in.
THEOREM OneOwner == PartsSpec => []EmailHasOneOwner
<1>1. RegistryInv => EmailHasOneOwner
  BY DEF RegistryInv, EmailHasOneOwner, Registry!EmailHasOneOwner
<1>2. QED
  BY <1>1, RegistryInvariance, PTL
-----------------------------------------------------------------------------
(* All of them.                                                            *)

\* A run of the parts runs TenantContext as it is.
LEMMA TenantsInvariance == PartsSpec => []IInv
<1>1. PartsInit => IInv
  BY InitIInv DEF PartsInit
<1>2. [PartsNext]_partsVars => [Next]_vars
  BY DEF PartsNext, partsVars
<1>3. QED
  BY <1>1, <1>2, NextIInv, PTL DEF PartsSpec

\* The state of each part keeps its type.
THEOREM PartsTypeCorrect == PartsSpec => []PartsTypeOK
<1>1. IInv /\ BillingInv /\ FilesInv /\ LimiterInv /\ PageInv /\ RegistryInv => PartsTypeOK
  BY DEF IInv, BillingInv, FilesInv, LimiterInv, PageInv, RegistryInv, PartsTypeOK
<1>2. QED
  BY <1>1, TenantsInvariance, BillingInvariance, FilesInvariance, LimiterInvariance,
     PageInvariance, RegistryInvariance, PTL
=============================================================================

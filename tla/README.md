# A verification of MyTenancyPlus

TLA+ models of the API (`src/app`), the worker (`src/app/workers`) and the web
client (`src/web/src`) of MyTenancyPlus, the TLC runs that check them on small
instances, and TLAPS proofs for instances of any size.

    tlc -workers 2 -config RefreshSessions.cfg MCRefreshSessions
    tlapm RefreshSessions_proofs.tla

## The system

A FastAPI application serves many small requests. Each request has one
database session (`app/db/session.py`, `get_db`), which is one PostgreSQL
transaction at READ COMMITTED unless the handler commits in between; a request
that fails is rolled back. Several processes serve requests at once and a
handler gives way at every `await`, so between any two statements of a request
any other request may commit. Only two places take row locks: the rotation of
a refresh token and the outbox worker. Everything else reads, decides, and
writes later what it decided. That is the main source of the questions below.

| component | state | operations | promises |
|---|---|---|---|
| refresh sessions (`services/sessions.py`, `routes/auth.py`) | table `refresh_sessions`: family, revoked, replaced by | issue, rotate, reuse detection, expire, log out | a family has one live token; a reuse kills the family |
| browser session (`web/src/lib/api.ts`, `App.tsx`) | session in memory and in localStorage, screen, calls under way | login, call with renewal after a 401, download, logout, reload, "Try again", opening an invitation | an honest client keeps its session; a logout ends it; an invitation is accepted once |
| portfolio (`routes/properties.py`, `routes/leases.py`, `services/leases.py`) | properties, units, tenants, leases | create each; a lease is checked for overlaps | references stay in the organization; no double booking |
| outbox and worker (`models/audit.py`, `workers/tasks.py`) | table `outbox_events`, Redis stream | stage in a business transaction, claim, publish, mark | every committed event reaches the stream, no other |
| work orders (`services/maintenance.py`, `routes/maintenance.py`) | row with status, assignee, two stamps; notifications | create, update with a transition table | supported moves only; stamps match; assignees are told |
| billing webhooks (`services/billing.py`, `routes/billing.py`) | receipts, subscription, outbox rows | deliver, replay, conflict | each event takes effect once |
| organizations (`routes/organizations.py`, `dependencies.py`) | memberships, invitations | create, invite, accept, expire | a role is granted by somebody who may |
| documents (`routes/documents.py`, `services/storage.py`) | rows, files | upload, delete | a row has its file, a file its row |
| tenant isolation (`dependencies.py`, `db/session.py`, migrations) | a transaction-local setting per pooled connection, row-level policies | set on each request, undone by commit, rollback and close | no row of another organization is seen, none of one's own is missed |
| accounts (`routes/auth.py`, `core/security.py`) | table `users` | register, sign in | an email has one owner |
| rate limit (`core/rate_limit.py`) | a counter per window in Redis | count, refuse, fail open, expire | twice the limit at most within a window; Retry-After is long enough |
| web pages (`web/src/pages`) | lists, a chosen property, calls under way | open, switch organization, load, upload, remove | what is shown is of the selected organization |
| notifications inbox, audit trail, dashboard | rows of the handlers above | list, count, mark as read | see `TenantContext` |

How they interact: invitations, acceptances and billing events insert outbox
rows in their own transaction, which the worker publishes; work orders insert
notifications; every tenant-scoped request passes the membership check of
`dependencies.py`; the browser drives the refresh sessions.

What is hard: check-then-act without locks (leases, work orders, invitations,
subscriptions); locks taken in an unspecified order (reuse detection); two
stores without a common transaction (documents and files, outbox and stream);
replies that are lost after a commit; calls of one client that overlap; replays;
connections that carry a setting from one transaction to the next; answers that
arrive after the page has moved on.
`PROJECT.json` lists each hazard at its line with the properties about it.

## The modules

| module | models | notes |
|---|---|---|
| `SessionFamilies` | what refresh sessions promise | abstract: open, exchange, close |
| `RefreshSessions` | the table and its transactions | implements `SessionFamilies` |
| `WebSession` | the browser client | composed with `SessionFamilies` as its server |
| `LeaseDates` | date arithmetic of `services/leases.py` | pure operators and their reference |
| `Portfolio` | properties, units, tenants, leases | uses `LeaseDates` |
| `EventChannel` | at-least-once delivery of committed events | abstract |
| `Outbox` | staging, worker runs, stream | implements `EventChannel` |
| `WorkOrders`, `BillingWebhooks`, `Memberships`, `Documents` | the component of that name | |
| `TenantContext` | every handler as the sequence of tables it uses, the pool, the policies | |
| `Accounts` | registration and sign-in | |
| `RateLimit` | the limiter of one scope and one address, with time in ticks | |
| `WebPages` | the documents page while organizations are switched | |
| `MCIndependentParts` | `TenantContext`, `Documents`, `RateLimit`, `WebPages`, `Accounts`, `BillingWebhooks`, one per behaviour | they share nothing |
| `MC*` | symmetry, views and message sets for TLC | |
| `*_proofs` | theorems | |

**Correspondence.** A handler or transaction `h` has a program counter; one action
is what the code does between two points at which another request can be
seen, that is, between two statements on shared rows. The commit is the
action that changes the tables, and it includes the audit entry and the outbox
row of the handler where they matter. A refused request (404, 409, 422) changes
nothing: it is an action where the answer is of interest (`AnswerReplay`,
`LookUp`), else it is left out. `Abort` or `Crash` may end a request before
its commit at any point. `map` in `PROJECT.json` names the lines of each definition.

Points of interest:

- *`RefreshSessions`*: `SELECT ... FOR UPDATE` is `LoadCurrent`, which waits for
  the row. The family `UPDATE` of a reuse takes the rows committed when it starts
  (`StartFamilyUpdate`), locks them one at a time in any order (`LockFamilyRow`)
  and changes them at the commit. Transactions that wait for each other are
  aborted by PostgreSQL (`AbortDeadlock`). `announced` and `overtaken` are history.
- *`WebSession`*: a flow is one call with all fetches it makes. `disturbed` is
  history: two flows have been under way at once, a reply was lost, or a tab took up a
  session that another tab holds. The
  server side of a fetch is one step of `SessionFamilies`, or none if the server fails.
  An answer with an error (429, 500, 502, 503) is no disturbance: a call fails, a renewal
  counts as refused and clears the session, a logout counts as done (`unserved` records
  the families of such logouts). Opening the link of an
  invitation is an `OpenPage`, possible at any time and any number of times; `address` says
  which tabs still carry its token, which `loadWorkspace` takes away only after the
  acceptance has been answered; `reopened` records that the link was opened after the
  acceptance or while another tab carried it.
- *`Portfolio`*: `CheckOverlap` and `InsertLease` are two steps. `seenBy` records
  which leases a check could see. `ShareADay` is the reference meaning of overlap;
  the query of the code (`query_matches`) is compared with it.
- *`Outbox`*: `FOR UPDATE SKIP LOCKED` is `Claimable`, `LIMIT 100` is `BatchSize`.
  `FailRun` stands for a Redis error, a failed commit, a timeout and a crash; `failed`
  is history: how many failed runs had sent an event.
- *`WorkOrders`*, *`BillingWebhooks`*, *`Memberships`*: SQLAlchemy writes only the
  columns whose value differs from the one it has loaded (`Written`, `Updated`,
  `NewRole`), so two overlapping updates can blend. `raced` is history: a row
  changed between the read and the commit of an update. `rivals` of `Memberships` is
  history: the requests that had found an invitation available before its first acceptance.
- *`Documents`*: a commit may raise with or without effect (its answer is lost). Two
  histories keep the cases apart: `crashed` are the documents of crashed requests,
  `unanswered` those of commits that raised and took effect.
- *`TenantContext`*: the control of a handler is left out but for where it may
  stop (`Close`, anywhere); its statements, by table, and where it sets the context,
  commits and rolls back are kept in order. `setting` belongs to the connection, so
  that a transaction finds what the last one on it left. `Admitted` is what a policy
  lets pass. The sequences also stand for handlers that no other module has: comments,
  marking notifications as read, the dashboard, listings.
- *`RateLimit`*: times are relative to the present (window 0 is this one, 1 the one
  before), which makes the model finite; `spent`, the requests Redis admitted with their age and the
  number the counter gave them, and `quiet` are history.
- *`WebPages`*: a list is represented by the organization it belongs to. A call keeps the
  organization of the render that made it, and so does the load that follows an upload.
  `switched`, `overtaken` and `failed` are history since the page was opened.
- *`Accounts`*: a password stands for the person who chose it; a typed email is an
  email and the case it is typed in.

## What is checked

| run | shows | states | bounds |
|---|---|---|---|
| `sessions` | a family never forks (`AtMostOneLive`), is a chain of successors (`FamilyIsChain`), decisions are never stale (`ReadStaysTrue`), a detected reuse ends the family but for a rotation that overtook it (`SurvivorsOvertookUpdate`), the table implements `SessionFamilies`, every request ends | 534 000 | 3 session ids, 1 user, 2 transactions |
| `sessions_reuse_race` | **violated**: `ReuseRevokesFamily` | | the same |
| `web` | a client whose calls do not overlap, whose replies arrive and whose tabs do not share a session is never accused, holds a live token and is signed out by a logout that the server did not answer with an error; an address carries a used invitation only if the link was opened again; an invitation that was opened is never lost | 605 000 | 2 token pairs, 2 tabs, 2 flows; any reply lost or an error, links opened at any time; symmetry, and a view without the histories that no property reads any more |
| `web_reload` | **violated**: `WorkspaceOpens` | | 2 pairs, 1 flow, nothing lost and no errors |
| `portfolio` | no reference leaves its organization; leases that share a day were invisible to each other's check; a day is booked at most as often as requests are in flight | 770 000 | 2 organizations, 3 leases, 2 days, 2 requests; one property, unit and tenant |
| `portfolio_race` | **violated**: `NoDoubleBooking` | | 2 leases |
| `outbox` | claims are exclusive, nothing is lost, at most one copy more than failed runs that had sent the event, each run keeps the order, the pair of table and stream implements `EventChannel`, liveness included | 43 000 | 3 events, 2 runs, batches of 2, 2 failures |
| `orders` | stamps match the status where updates did not overlap, are never missing where they did; assignees were told | 2 250 000 | 1 order, 2 members, 1 outsider, 2 updates |
| `orders_race` | **violated**: `OnlySupportedMoves` | | the same |
| `members` | roles are granted, accepted means joined and announced; whoever uses an invitation again had found it available before its first use | 475 000 | 1 organization, 2 users, 3 invitations, 2 requests |
| `members_reuse` | **violated**: `SingleUse` | | 2 invitations |
| `parts` | the policies keep every request from other organizations' rows (`OnlyOwnRows`) and hide nothing it needs (`OwnRowsVisible`); a row has its content even where requests crash (`RowHasContent`), unless a commit that raised took effect, and a file its row (`NoOrphans`), but for that and crashes; twice the limit at most within the length of a window (`BurstBounded`), a waited-for Retry-After finds no count (`RetryAfterSuffices`); the page lists the selected organization (`ShownIsSelected`) and files documents under its properties (`UploadsNameOwnProperty`), unless the organization was switched under way; an email has one owner (`EmailHasOneOwner`); a webhook event has one effect, an accepted body is the recorded one, and the subscription is what one event said or, where deliveries overlapped, what events said column by column | 2 100 000 | 2 organizations, 2 connections, 2 requests; 3 documents, 3 requests; limit 2, windows of 3 s, a timeout of 1 s, 2 requests; 2 calls of the page; 2 emails in 2 cases, 2 people, 2 registrations; 3 event ids, 6 bodies, 1 organization, 3 deliveries |

The type invariants of `Portfolio`, `Outbox`, `WorkOrders` and `Memberships` are proved
and in no run; the others are both checked and proved.

The run `parts` checks six components in one run to keep the number of runs small:
a behaviour chooses one of them at the start. No step of one reads or writes a variable
of another, so nothing is lost by not interleaving them.

Why these bounds are enough to be interesting: every race of the code is
between two transactions, so two handlers (three where a third can see the
outcome) reach it; three ids of a kind allow a row, its successor and one more;
two days allow ranges that touch, contain and miss each other; a batch of two with
three events needs a second batch; a second
connection lets a request continue on another one than it began on, and find there what
another request left. Bounds that are guards of the models, and
do not exist in the code: `IdsLeft` (a rotation is requested only
while an id is left for it), the guard on unissued pairs in `AccessExpires`,
the finite sets of keys everywhere, `MaxFailures` in `Outbox`, and in `RateLimit`
that counts above the limit are not told apart.

Deadlock is checked except in `outbox` (idle once everything is published),
`members`, `members_reuse` and `parts` (all ids are used up; an organization may
also be left without anybody who may invite, see below).

**Fairness.** `RefreshSessions`: a transaction that waits for nothing is run to
its end (weak fairness of its steps), and PostgreSQL serves the waiters of a
row lock in turn, so one that can get the lock again and again gets it (strong
fairness of the two waiting steps). Nothing is assumed of aborts and clients.
`WebSession`: server and event loop make progress, a load that was started by
the page begins, and a user who sees "Try again" does: even then
`WorkspaceOpens` fails. `Outbox`: the cron of `workers/settings.py` starts runs
again and again, and a run goes on unless it fails; `ImplementsChannel` assumes
finitely many failures.

**Findings.** Each violated property is quoted from a document of the repository:

1. *Reuse and rotation* (`sessions.py:76`). The family `UPDATE` does not see a
   successor that is committed while it runs. ADR 0004 says that reuse revokes
   the entire family; here a live token survives, in a family the other client was
   told is revoked. `SurvivorsOvertookUpdate` shows that this is the only way.
2. *Reload* (`api.ts:83`, `App.tsx:36`). The first call of a page load is
   `/auth/me`, which is never renewed: once the access token has expired, the
   workspace does not open although the refresh token is good.
3. *Double booking* (`routes/leases.py:75`). Check and insert are not one step.
4. *Work order moves* (`routes/maintenance.py:143`). A move is checked against a
   status that another update may have left since.
5. *Single use* (`routes/organizations.py:214`). `accepted_at` is read without a lock
   and written at the commit, so two overlapping requests both accept an invitation and
   both announce `organization.member_joined`: those of a member, or one that reads the
   invitation before the commit of the other and the membership after it.
   `docs/api-workflows.md` says that the API verifies single use.
   `UsedByOverlappingOnly` shows that this is the only way.

Met while modelling, with no run of their own: two calls of one page that both
get a 401 renew with the same token, and the second one kills the session (so
does a lost reply of a renewal: both are what `disturbed` stands for); a logout during a
renewal leaves the successor alive (again `disturbed`); a lease that overlaps two
active leases is answered with a 500, since `scalar_one_or_none` raises
(`CheckOverlap`); a logout that is answered with an error clears the browser, which
shows the sign-in, while the refresh token stays alive, as `api.ts:70` does not look at the
status (`LogoutEndsSession` exempts the families in `unserved` for this reason); a renewal
that is answered with any error makes the client drop a session that is alive
(`api.ts:103`); a sole owner who accepts an
invitation to a lower role leaves an organization that nobody administers; an
accepted invitation whose answer was lost, or whose link is opened again, keeps the tab
from loading: its token stays in the address and every load is answered 400
(`InvitationIsUsedOnce` says that nothing else leads there); a switch of organization keeps the
chosen property of the documents page, and `upload_document` files the document under
it unasked (`UploadsNameOwnProperty`); a switch during a load or an upload may leave
the page with the lists of the other organization (`ShownIsSelected`).

Documents that say more than the code does: `docs/api-workflows.md` draws an arrow
from resolved to cancelled, which `ALLOWED_TRANSITIONS` does not have; ADR 0002 wants
background jobs to set the tenant context and `docs/architecture.md` wants
`organization_id` in every query, and the worker does neither (it needs neither, as
`outbox_events` has no policy and the worker serves all organizations).

## What is proved

Every invariant that a run checks and finds to hold is also a theorem. The theorems
hold for any finite or infinite sets of ids, users, tabs, flows and handlers, any days
in `Int` and any batch size, limit and window, from the named `ASSUME`s: a null is none
of the values it stands beside; the events of `Outbox` and the requests in flight of
`Portfolio`, which the proofs count, are finitely many; a limit and a
window are positive, and a command to Redis is given up within the length of a window;
emails can be typed in lower case; "admin" is a role that can be granted and "owner" is
not. A theorem that needs more says so in its own ASSUME.

- `RefreshSessions_proofs`: `TypeCorrect`, `DecisionsAreFresh`, `NoForkedFamily`,
  `FamiliesAreChains`, `ReuseEndsFamily`, `Refinement`. None of the properties is
  inductive alone. `IInv` adds: a transaction past its first line holds the row
  it decided about (`LockInv`, with `ReadStaysTrue`), what it holds or waits for
  is of one family (`LocksInv`), families and successors named by a row
  exist, and a row with a successor is dead (`TableInv`). The steps fall into three
  kinds: a login adds a family of one row, a rotation moves the one live place
  of a family to a new row (`Replaces`), all others at most kill rows (`OnlyDies`).
  `ReuseEndsFamily` adds `ScanInv`: a live row of a family under `UPDATE` is one the
  transaction has locked, will lock, or that overtook it. The refinement maps
  each kind to a step of `SessionFamilies`; `Spec => ImplementsFamilies` is a
  safety refinement.
- `Portfolio_proofs`, on `LeaseDates`: `OverlapMeansASharedDay`, `QueryMeansOverlap`,
  `OverlapIsSymmetric`: the rule of the code, the query of the code and the
  reference agree on all dates, open ends included.
- `Portfolio_proofs`: `TypeCorrect`, `NoReferenceLeavesItsOrganization`,
  `OnlyUnseenLeasesClash`, `NoMoreThanInFlight`, `SerialRequestsNeverClash`. `RequestInv` carries what the look-up and the check found to
  the insert: rows are only added, so a found row stays found, and a lease that the
  check saw and passed does not overlap; `SeenExist` says that a check cannot
  have seen a later lease. `CountInv` bounds overbooking: of a set of leases that share
  days two by two, and the requests that are about to add one (`Contenders`: active, and
  their check saw none of the set), there are at most as many as handlers, since the
  request that adds a lease is a contender no more and none can become one later. With one
  handler the bound leaves no pair, so the double bookings of `portfolio_race` come from
  requests that overlap and from nothing else.
- `Outbox_proofs`: `TypeCorrect`, `ExclusiveClaims`, `NothingIsLost`,
  `DuplicatesAreFailures`, `OldestFirst`, `Refinement`. The invariant counts copies
  (`CopyInv`): an event has at most as many as failed runs that had sent it, one more if
  it is sent or marked. `OrderInv` says that what a run has claimed, and what it has sent of that, leave
  out nothing older of what it could claim; that a batch of the oldest rows exists and is
  such a set is a lemma about `Batch` (`BatchIsOldest`).
- `WorkOrders_proofs`: `TypeCorrect`, `StampsFollowStatus`, `StampsStay`,
  `AssignmentsAreAnnounced`. `UpdateInv` carries the verdict on a move from the read to
  the commit: it is about the row that was loaded (`loaded`), not the one that is there. A commit
  that does not race writes over the row it loaded; one that does may blend two rows,
  and the lemma `Moving` shows which stamps a blend can still miss: none. Two more are
  about steps: `OnlyStaleUpdatesMisbehave` (the action property
  `UnsupportedMovesAreStale`) says that a move which `ALLOWED_TRANSITIONS` does not have
  is the commit of an update whose row changed after it was read, and
  `SerialUpdatesMoveAsSupported` that there is none where updates are served one at a
  time: the overlap is the only cause of what `orders_race` finds.
- `Memberships_proofs`: `TypeCorrect`, `EveryRoleIsGranted`, `AcceptanceIsComplete`,
  `SingleUseButForOverlap`. `RequestInv` says what a request has checked and that it stays
  true. `UseInv` says that of an invitation which is used up every request that may still use it
  is one of its `rivals`, since nobody begins to accept a used one; so an acceptance of a
  used invitation ends the request of a rival. That is the theorem, an action property.
- `BillingWebhooks_proofs`, on `MCIndependentParts`: `NoEventTwice`, `AnswersAreTrue`,
  `OneEventSpeaks`, `ColumnsAreSpoken`. `DeliveryInv` says what the unique index gives:
  of the deliveries that have inserted a receipt and not committed no two are of one event,
  and none of an event that is recorded.
- `WebSession_proofs`: `Invariant`, `TypeCorrect`, `HonestClientIsNotAccused`,
  `ClientHoldsLiveToken`, `LogoutIsFinal`, `InvitationLeavesAddress`. The properties are one
  agreement of client and server, which each call breaks for a while and restores.
  `IssuedInv` keeps the books: tokens that anybody holds were issued, families begin with
  a login. `TurnInv` holds while nothing disturbed the client: one flow is under way at
  most, the token of a tab is live or that flow is about to replace or clear it
  (`Pending`), no two tabs hold tokens of one family (`TabsInv`), and what is stored is
  what a tab holds.
  `FlowInv` says for each point of a flow what the server has done for it, or has not done
  because it failed. `InviteInv` says that, until a link is opened again, one address at most
  carries the invitation, and after the acceptance only while the answer is on its way.
  Answers with an error disturb none of this: whatever the client does not know about, it
  holds no token of.
- `IndependentParts_proofs`, a part for each component of `MCIndependentParts`:
  - `TenantContext`: `TypeCorrect`, `PoliciesIsolate`, `NothingNeededIsHidden`. The
    invariant: no two requests have one connection (`Exclusive`), an idle connection
    carries no setting (`IdleClean`), one in use carries that of its request or none
    (`OwnSetting`), and what is left of a handler is covered (`LeftCovered`): a statement
    on a table with a policy comes after `set_config` and before the first commit. That
    each handler is covered from its start is a lemma per kind of handler, and being
    covered is preserved statement by statement.
  - `Documents`: `FoundMeansDownloadable`, `NothingLeftBehind`. `FilesInv` says what each
    step of an upload or a deletion has on disk and in the table (`RequestInv`) and who
    is still to clean up a file without a row (`CleanupInv`); a crash leaves rows and files
    as the step before it did, so only `NothingLeftBehind` has to exempt it.
  - `RateLimit`: `BurstsAreBounded`, `WaitingHelps`. `BurstInv` ties the admitted
    requests to the counters: each has a number (`OneNumber`: no two of a window have the same)
    that its counter, while it is kept, has reached (`CountedBefore`). It therefore needs the
    counter to outlive its window by as long as a command may take, which is the one second
    that the code adds to the `EXPIRE`: `BurstsAreBounded` assumes `Timeout <= 2`, one
    second to connect and one to answer (`core/redis.py`). The assumption is needed:
    with a timeout of 3 in a window of 4 TLC finds the bound broken.
  - `WebPages`: `PageShowsSelected`, `UploadsStayAtHome`. `PageInv`: until a switch meets
    a call under way, every call is about the selected organization, and what is shown is
    of it or a load is about to bring it.
  - `Accounts`: `OneOwner`, from `RegistryInv`: rows are in lower case, one for an email,
    and whoever was answered has one.
  - all of them: `PartsTypeCorrect`.

Only model-checked: `EveryRequestEnds` and the liveness of `ImplementsChannel`, as
liveness is beyond the prover. The violated properties (`ReuseRevokesFamily`,
`WorkspaceOpens`, `NoDoubleBooking`, `OnlySupportedMoves`, `SingleUse`) are refuted by TLC; of each of the
safety properties among them a theorem says what is left of it and what breaks it.

## Assumptions and what is not modelled

- PostgreSQL at READ COMMITTED, unique indexes and row locks behave as
  documented; the order in which one flush sends its statements is SQLAlchemy's. A
  rotation relies on it: the row of the old token names its successor in a foreign key
  (`sessions.py:98`), and nothing in the model of `RefreshSession` tells SQLAlchemy to
  insert the successor before it updates that row. The models take the commit as one step that
  succeeds. The tests of the repository rotate on SQLite, which does not check foreign
  keys by default, so a rotation against PostgreSQL is worth a test of its own.
- The secret of a token is right or wrong, a signature is valid; hashing, JWT
  and HMAC are left out. Time is the moment at which something expires.
- `created_at` values are distinct, and the Redis client does not repeat an
  `xadd` on its own.
- React runs effects once (production mode). Two tabs are checked, which share
  localStorage and keep stale memories of it; the theorems are about any number.
- The policies bind the role of the application: `docker/postgres/init.sql` creates it
  without superuser rights and the migrations force the policies on the owner of the
  tables. The handlers' own `organization_id` filters are not in `TenantContext`: it shows
  what the policies do by themselves.
- `RateLimit`: the clocks of the processes agree, and a command that got no answer
  within the timeout is not counted later. The bound on bursts is proved for commands
  of up to two seconds and does not hold for longer ones.
- `WebPages` is about the documents page; the other pages load in the same way and
  keep no choice. Which organization a load of the workspace selects is left out.
- Subscriptions have the columns plan and status only; other columns are
  written in the same way. Unknown organizations are refused.
- Not modelled: password hashing, the formats of JWT, HMAC and invitation tokens
  (cryptography is right or wrong as a whole); the contents of audit entries, comments and the
  dashboard; health, metrics, logging and configuration (no state of their own); the
  markup and wording of the pages.

## Plan

Done: sessions, browser, portfolio, outbox, work orders, billing, memberships,
documents, tenant context, accounts, rate limit, documents page; the theorems about every
invariant the runs check. What is left, in this order:

1. More about single steps, as `UnsupportedMovesAreStale` is for work orders: a refresh
   session that is dead stays dead, an outbox row that is marked stays marked, a receipt
   is never rewritten.
2. The safety part of what `WebSession` takes from `SessionFamilies`, composed with
   `RefreshSessions`, so that the theorems about the client hold of the table itself.
3. The selection of an organization in `loadWorkspace`, composed with the pages.

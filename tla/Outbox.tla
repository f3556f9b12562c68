------------------------------- MODULE Outbox -------------------------------
(***************************************************************************)
(* The transactional outbox: requests insert an OutboxEvent in the same    *)
(* transaction as their business change (invite_member, accept_invitation, *)
(* process_subscription_event), runs of the ARQ job publish_outbox_events  *)
(* copy committed rows to a Redis stream.  Two runs can be under way at    *)
(* once: the cron fires every ten seconds, whatever the last run does.     *)
(***************************************************************************)
EXTENDS Integers, FiniteSets

CONSTANTS
  Events, Workers,
  BatchSize,     \* 100 in the code
  MaxFailures    \* bound of the model: runs that fail

ASSUME EventsAssumption == IsFiniteSet(Events)
ASSUME BatchAssumption == BatchSize \in Nat \ {0}
ASSUME FailuresAssumption == MaxFailures \in Nat

VARIABLES
  row,        \* row[e]: the outbox row, or the transaction that is to commit it
  created,    \* created[e]: created_at, 0 before the row is staged
  claimed,    \* claimed[w]: the rows the run w has locked
  sent,       \* sent[w]: those of them it has added to the stream
  backlog,    \* history, backlog[w]: the rows that w could have claimed
  copies,     \* copies[e]: entries of the stream that carry the event
  failed,     \* history, failed[e]: failed runs that had sent the event
  failures    \* history: runs that have failed

outbox == <<row, created>>
run == <<claimed, sent, backlog>>
failure == <<failed, failures>>
vars == <<outbox, run, copies, failure>>

Init ==
  /\ row = [e \in Events |-> "none"]
  /\ created = [e \in Events |-> 0]
  /\ claimed = [w \in Workers |-> {}]
  /\ sent = [w \in Workers |-> {}]
  /\ backlog = [w \in Workers |-> {}]
  /\ copies = [e \in Events |-> 0]
  /\ failed = [e \in Events |-> 0]
  /\ failures = 0

Older(e, f) == created[e] < created[f]
-----------------------------------------------------------------------------
\* created_at: the clock of the API process, which ticks with every insert.
Timestamp == 1 + Cardinality({f \in Events : created[f] > 0})

\* A request adds the event to its session and flushes it.
Stage(e) ==
  /\ row[e] = "none"
  /\ row' = [row EXCEPT ![e] = "open"]
  /\ created' = [created EXCEPT ![e] = Timestamp]
  /\ UNCHANGED <<run, copies, failure>>

\* Its transaction ends, one way or the other.
EndTransaction(e) ==
  /\ row[e] = "open"
  /\ \E outcome \in {"pending", "discarded"} : row' = [row EXCEPT ![e] = outcome]
  /\ UNCHANGED <<created, run, copies, failure>>

\* published_at IS NULL, among the rows a statement can see.
Unpublished(e) == row[e] = "pending"

\* FOR UPDATE SKIP LOCKED passes over the rows of other runs.
ClaimableDespiteLock(e) == Unpublished(e)
Claimable(e) == Unpublished(e) /\ \A w \in Workers : e \notin claimed[w]

\* ORDER BY created_at LIMIT BatchSize.
OldestOf(S) ==
  {e \in S : Cardinality({f \in S : Older(f, e)}) < BatchSize}
YoungestOf(S) ==
  {e \in S : Cardinality({f \in S : Older(e, f)}) < BatchSize}
Batch(S) == OldestOf(S)

Claim(w) ==
  /\ claimed[w] = {}
  /\ LET free == {e \in Events : Claimable(e)} IN
       /\ free # {}
       /\ claimed' = [claimed EXCEPT ![w] = Batch(free)]
       /\ backlog' = [backlog EXCEPT ![w] = free]
  /\ UNCHANGED <<outbox, sent, copies, failure>>

\* redis.xadd for the next row of the batch.
Send(w) ==
  /\ \E e \in claimed[w] \ sent[w] :
       /\ \A f \in claimed[w] \ sent[w] : ~Older(f, e)
       /\ copies' = [copies EXCEPT ![e] = @ + 1]
       /\ sent' = [sent EXCEPT ![w] = @ \cup {e}]
  /\ UNCHANGED <<outbox, claimed, backlog, failure>>

EndRun(w) ==
  /\ claimed' = [claimed EXCEPT ![w] = {}]
  /\ sent' = [sent EXCEPT ![w] = {}]
  /\ backlog' = [backlog EXCEPT ![w] = {}]

\* published_at of the whole batch, in one commit after the last xadd.
ReadyAtOnce(w) == claimed[w] # {}
Ready(w) == claimed[w] # {} /\ sent[w] = claimed[w]

CommitRun(w) ==
  /\ Ready(w)
  /\ row' = [e \in Events |-> IF e \in claimed[w] THEN "published" ELSE row[e]]
  /\ EndRun(w)
  /\ UNCHANGED <<created, copies, failure>>

\* Redis or the database fails, the job times out or the worker dies: the
\* locks go, no row of the batch is marked, what was added stays in the stream.
FailRun(w) ==
  /\ claimed[w] # {}
  /\ failures < MaxFailures
  /\ failures' = failures + 1
  /\ failed' = [e \in Events |-> IF e \in sent[w] THEN failed[e] + 1 ELSE failed[e]]
  /\ EndRun(w)
  /\ UNCHANGED <<outbox, copies>>

Next ==
  \/ \E e \in Events : Stage(e) \/ EndTransaction(e)
  \/ \E w \in Workers : Claim(w) \/ Send(w) \/ CommitRun(w) \/ FailRun(w)

Spec == Init /\ [][Next]_vars

\* The cron starts runs again and again; a run goes on unless it fails.
FairSpec ==
  Spec /\ \A w \in Workers : WF_vars(Claim(w) \/ Send(w) \/ CommitRun(w))
-----------------------------------------------------------------------------
\* Type invariant.
TypeOK ==
  /\ row \in [Events -> {"none", "open", "pending", "discarded", "published"}]
  /\ created \in [Events -> Nat]
  /\ claimed \in [Workers -> SUBSET Events]
  /\ sent \in [Workers -> SUBSET Events]
  /\ backlog \in [Workers -> SUBSET Events]
  /\ copies \in [Events -> Nat]
  /\ failed \in [Events -> Nat]
  /\ failures \in Nat

\* Two runs never hold the same row, and every row they hold is still to be
\* published: what a run read under SKIP LOCKED stays true until it commits.
ClaimsAreExclusive ==
  \A w \in Workers : \A e \in claimed[w] :
    row[e] = "pending" /\ \A v \in Workers \ {w} : e \notin claimed[v]

\* A row is marked only if its event is in the stream: nothing gets lost.
MarkedMeansDelivered == \A e \in Events : row[e] = "published" => copies[e] > 0

\* An event is delivered once more only for a run that had sent it and failed
\* before its commit: runs that overlap, and failures of others, add no copy.
CopiesNeedFailures == \A e \in Events : copies[e] <= 1 + failed[e]

\* Each run publishes the oldest first: when it has sent an event, every older
\* one that it could have claimed is in the stream, over batches and failures.
BacklogInOrder ==
  \A w \in Workers : \A e \in sent[w], f \in backlog[w] :
    Older(f, e) => copies[f] > 0

Channel == INSTANCE EventChannel WITH
  committed <- {e \in Events : row[e] \in {"pending", "published"}},
  delivered <- {e \in Events : copies[e] > 0}

\* Delivery happens only after the commit of the business change.
ImplementsChannelSafely == Channel!Safety

\* At least once: with finitely many failures every committed event arrives.
ImplementsChannel == Channel!Spec
=============================================================================

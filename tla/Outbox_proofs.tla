---------------------------- MODULE Outbox_proofs ----------------------------
(* Theorems about Outbox, for any events, runs, batch size and failures. *)
EXTENDS Outbox, FiniteSetTheorems, TLAPS

\* How many copies of an event there can be, by the state of its row: a copy
\* that is neither in a live run nor marked is owed to a failure.
CopyInv ==
  \A e \in Events :
    /\ copies[e] <= 1 + failed[e]
    /\ row[e] \notin {"pending", "published"} => copies[e] = 0
    /\ row[e] = "pending" /\ (\A w \in Workers : e \notin sent[w])
         => copies[e] <= failed[e]
    /\ \A w \in Workers : e \in sent[w] => e \in claimed[w] /\ copies[e] > 0
    /\ row[e] = "published" => copies[e] > 0

\* What a run holds of its backlog, and what it has sent of what it holds, are
\* the oldest: no row is left out that is older than one of them.
OrderInv ==
  \A w \in Workers :
    /\ \A f \in backlog[w] : row[f] # "none"
    /\ claimed[w] \subseteq backlog[w]
    /\ \A e \in claimed[w], f \in backlog[w] : Older(f, e) => f \in claimed[w]
    /\ \A e \in sent[w], f \in claimed[w] : Older(f, e) => f \in sent[w]

\* The inductive invariant.
IInv == TypeOK /\ ClaimsAreExclusive /\ CopyInv /\ OrderInv

\* It holds before the first event.
LEMMA InitIInv == Init => IInv
BY DEF Init, IInv, TypeOK, ClaimsAreExclusive, CopyInv, OrderInv

\* Every step keeps the type invariant.
LEMMA TypeStep == TypeOK /\ [Next]_vars => TypeOK'
<1> SUFFICES ASSUME TypeOK, [Next]_vars PROVE TypeOK'
  OBVIOUS
<1> USE DEF TypeOK
<1>1. ASSUME NEW e \in Events, Stage(e) PROVE TypeOK'
  <2>1. Cardinality({f \in Events : created[f] > 0}) \in Nat
    BY EventsAssumption, FS_Subset, FS_CardinalityType
  <2>2. QED
    BY <1>1, <2>1 DEF Stage, Timestamp, run, failure
<1>2. ASSUME NEW e \in Events, EndTransaction(e) PROVE TypeOK'
  BY <1>2 DEF EndTransaction, run, failure
<1>3. ASSUME NEW w \in Workers, Claim(w) PROVE TypeOK'
  BY <1>3 DEF Claim, Claimable, Batch, OldestOf, outbox, failure
<1>4. ASSUME NEW w \in Workers, Send(w) PROVE TypeOK'
  BY <1>4 DEF Send, outbox, failure
<1>5. ASSUME NEW w \in Workers, CommitRun(w) PROVE TypeOK'
  BY <1>5 DEF CommitRun, EndRun, failure
<1>6. ASSUME NEW w \in Workers, FailRun(w) PROVE TypeOK'
  BY <1>6 DEF FailRun, EndRun, outbox
<1>7. CASE UNCHANGED vars
  BY <1>7 DEF vars, outbox, run, failure
<1>8. QED
  BY <1>1, <1>2, <1>3, <1>4, <1>5, <1>6, <1>7 DEF Next

\* Rows change hands only through a claim of rows that nobody holds.
LEMMA ClaimStep ==
  ASSUME TypeOK, ClaimsAreExclusive, [Next]_vars PROVE ClaimsAreExclusive'
<1> USE DEF TypeOK, ClaimsAreExclusive
<1>1. ASSUME NEW e \in Events, Stage(e) \/ EndTransaction(e) PROVE ClaimsAreExclusive'
  BY <1>1 DEF Stage, EndTransaction, run, failure
<1>2. ASSUME NEW w \in Workers, Claim(w) PROVE ClaimsAreExclusive'
  BY <1>2 DEF Claim, Claimable, Unpublished, Batch, OldestOf, outbox
<1>3. ASSUME NEW w \in Workers, Send(w) PROVE ClaimsAreExclusive'
  BY <1>3 DEF Send, outbox
<1>4. ASSUME NEW w \in Workers, CommitRun(w) PROVE ClaimsAreExclusive'
  BY <1>4 DEF CommitRun, EndRun
<1>5. ASSUME NEW w \in Workers, FailRun(w) PROVE ClaimsAreExclusive'
  BY <1>5 DEF FailRun, EndRun, outbox
<1>6. CASE UNCHANGED vars
  BY <1>6 DEF vars, outbox, run, failure
<1>7. QED
  BY <1>1, <1>2, <1>3, <1>4, <1>5, <1>6 DEF Next

\* The account of copies is kept by every step.
LEMMA CopyStep ==
  ASSUME TypeOK, ClaimsAreExclusive, CopyInv, [Next]_vars PROVE CopyInv'
<1> USE DEF TypeOK, CopyInv
<1>1. ASSUME NEW e \in Events, Stage(e) \/ EndTransaction(e) PROVE CopyInv'
  BY <1>1 DEF Stage, EndTransaction, run, failure
<1>2. ASSUME NEW w \in Workers, Claim(w) PROVE CopyInv'
  BY <1>2 DEF Claim, outbox, failure
<1>3. ASSUME NEW w \in Workers, Send(w) PROVE CopyInv'
  <2>1. PICK e \in claimed[w] \ sent[w] : /\ copies' = [copies EXCEPT ![e] = @ + 1]
                                          /\ sent' = [sent EXCEPT ![w] = @ \cup {e}]
    BY <1>3 DEF Send
  <2>2. e \in Events /\ row[e] = "pending" /\ \A v \in Workers : e \notin sent[v]
    BY <2>1 DEF ClaimsAreExclusive
  <2>3. copies[e] <= failed[e]
    BY <2>2
  <2>4. QED
    BY <1>3, <2>1, <2>2, <2>3 DEF Send, outbox, failure
<1>4. ASSUME NEW w \in Workers, CommitRun(w) PROVE CopyInv'
  BY <1>4 DEF CommitRun, Ready, EndRun, failure, ClaimsAreExclusive
<1>5. ASSUME NEW w \in Workers, FailRun(w) PROVE CopyInv'
  BY <1>5 DEF FailRun, EndRun, outbox, ClaimsAreExclusive
<1>6. CASE UNCHANGED vars
  BY <1>6 DEF vars, outbox, run, failure
<1>7. QED
  BY <1>1, <1>2, <1>3, <1>4, <1>5, <1>6 DEF Next

\* The batch leaves no older row behind: fewer rows are older than that one.
LEMMA BatchIsOldest ==
  ASSUME TypeOK, NEW S \in SUBSET Events, NEW e \in Batch(S), NEW f \in S, Older(f, e)
  PROVE  f \in Batch(S)
<1> DEFINE before(x) == {g \in S : Older(g, x)}
<1> USE DEF TypeOK, Older
<1>1. before(f) \subseteq before(e)
  <2> SUFFICES ASSUME NEW g \in S, created[g] < created[f] PROVE created[g] < created[e]
    BY DEF Batch, OldestOf
  <2>1. e \in Events /\ f \in Events /\ g \in Events
    BY DEF Batch, OldestOf
  <2>2. created[e] \in Nat /\ created[f] \in Nat /\ created[g] \in Nat
    BY <2>1
  <2>3. QED
    BY <2>2
<1>2. IsFiniteSet(before(e))
  BY EventsAssumption, FS_Subset
<1>3. Cardinality(before(f)) <= Cardinality(before(e))
  BY <1>1, <1>2, FS_Subset
<1>4. IsFiniteSet(before(f))
  BY EventsAssumption, FS_Subset
<1>5. Cardinality(before(f)) \in Nat /\ Cardinality(before(e)) \in Nat
  BY <1>2, <1>4, FS_CardinalityType
<1>6. Cardinality(before(e)) < BatchSize
  BY DEF Batch, OldestOf
<1>7. Cardinality(before(f)) < BatchSize
  BY <1>3, <1>5, <1>6, BatchAssumption
<1>8. QED
  BY <1>7 DEF Batch, OldestOf

\* A run claims the oldest and sends the oldest first; no row ages meanwhile.
LEMMA OrderStep ==
  ASSUME TypeOK, ClaimsAreExclusive, CopyInv, OrderInv, [Next]_vars PROVE OrderInv'
<1> USE DEF TypeOK, OrderInv, Older
<1>1. ASSUME NEW e \in Events, Stage(e) PROVE OrderInv'
  <2>1. \A w \in Workers : \A f \in backlog[w] :
          /\ row'[f] = row[f]
          /\ created'[f] = created[f]
    BY <1>1 DEF Stage
  <2>2. \A w \in Workers : sent[w] \subseteq claimed[w]
    BY DEF CopyInv
  <2>3. QED
    BY <1>1, <2>1, <2>2 DEF Stage, run
<1>2. ASSUME NEW e \in Events, EndTransaction(e) PROVE OrderInv'
  BY <1>2 DEF EndTransaction, run, failure
<1>3. ASSUME NEW w \in Workers, Claim(w) PROVE OrderInv'
  <2> DEFINE free == {e \in Events : Claimable(e)}
  <2>1. claimed' = [claimed EXCEPT ![w] = Batch(free)] /\ backlog' = [backlog EXCEPT ![w] = free]
    BY <1>3 DEF Claim
  <2>2. UNCHANGED <<row, created, sent>>
    BY <1>3 DEF Claim, outbox
  <2>3. \A f \in free : row[f] # "none"
    BY DEF Claimable, Unpublished
  <2>4. Batch(free) \subseteq free
    BY DEF Batch, OldestOf
  <2>5. \A e \in Batch(free), f \in free : Older(f, e) => f \in Batch(free)
    BY BatchIsOldest
  <2>6. sent[w] = {}
    BY <1>3 DEF Claim, CopyInv
  <2> HIDE DEF free
  <2>7. QED
    BY <2>1, <2>2, <2>3, <2>4, <2>5, <2>6
<1>4. ASSUME NEW w \in Workers, Send(w) PROVE OrderInv'
  <2>1. PICK e \in claimed[w] \ sent[w] :
          /\ \A f \in claimed[w] \ sent[w] : ~Older(f, e)
          /\ sent' = [sent EXCEPT ![w] = @ \cup {e}]
    BY <1>4 DEF Send
  <2>2. UNCHANGED <<row, created, claimed, backlog>>
    BY <1>4 DEF Send, outbox
  <2>3. QED
    BY <2>1, <2>2
<1>5. ASSUME NEW w \in Workers, CommitRun(w) PROVE OrderInv'
  BY <1>5 DEF CommitRun, EndRun
<1>6. ASSUME NEW w \in Workers, FailRun(w) PROVE OrderInv'
  BY <1>6 DEF FailRun, EndRun, outbox
<1>7. CASE UNCHANGED vars
  BY <1>7 DEF vars, outbox, run, failure
<1>8. QED
  BY <1>1, <1>2, <1>3, <1>4, <1>5, <1>6, <1>7 DEF Next

\* The inductive invariant holds in every reachable state.
LEMMA Inductive == Spec => []IInv
<1>1. IInv /\ [Next]_vars => IInv'
  BY TypeStep, ClaimStep, CopyStep, OrderStep DEF IInv
<1>2. QED
  BY <1>1, InitIInv, PTL DEF Spec

\* The outbox, the runs and the stream stay well typed.
THEOREM TypeCorrect == Spec => []TypeOK
BY Inductive, PTL DEF IInv

\* However many runs overlap, no two of them work on the same row.
THEOREM ExclusiveClaims == Spec => []ClaimsAreExclusive
BY Inductive, PTL DEF IInv

\* No event is marked as published without being in the stream.
THEOREM NothingIsLost == Spec => []MarkedMeansDelivered
<1>1. IInv => MarkedMeansDelivered
  BY DEF IInv, CopyInv, MarkedMeansDelivered
<1>2. QED
  BY <1>1, Inductive, PTL

\* An event has at most one copy more than there were failed runs that had sent
\* it.
THEOREM DuplicatesAreFailures == Spec => []CopiesNeedFailures
<1>1. IInv => CopiesNeedFailures
  BY DEF IInv, CopyInv, CopiesNeedFailures
<1>2. QED
  BY <1>1, Inductive, PTL

\* A run never puts an event into the stream before an older one that was there
\* for it to claim: neither within its batch nor past the end of it.
THEOREM OldestFirst == Spec => []BacklogInOrder
<1>1. IInv => BacklogInOrder
  <2> SUFFICES ASSUME IInv, NEW w \in Workers, NEW e \in sent[w], NEW f \in backlog[w],
                      Older(f, e)
               PROVE  copies[f] > 0
    BY DEF BacklogInOrder
  <2>1. f \in Events /\ e \in Events /\ e \in claimed[w]
    BY DEF IInv, TypeOK, CopyInv
  <2>2. f \in claimed[w]
    BY <2>1 DEF IInv, OrderInv
  <2>3. f \in sent[w]
    BY <2>2 DEF IInv, OrderInv
  <2>4. QED
    BY <2>1, <2>3 DEF IInv, CopyInv
<1>2. QED
  BY <1>1, Inductive, PTL

\* A step of the outbox is a commit or a delivery of the channel, or no change:
\* the rows of one batch are marked together, which the channel does not see.
LEMMA StepImplements ==
  ASSUME IInv, [Next]_vars PROVE [Channel!Next]_(Channel!vars)
<1> USE DEF IInv, TypeOK, Channel!vars
<1>1. ASSUME NEW e \in Events, Stage(e) PROVE UNCHANGED Channel!vars
  BY <1>1 DEF Stage
<1>2. ASSUME NEW e \in Events, EndTransaction(e) PROVE [Channel!Next]_(Channel!vars)
  <2>1. CASE row' = [row EXCEPT ![e] = "pending"]
    BY <1>2, <2>1 DEF EndTransaction, Channel!Next, Channel!Commit
  <2>2. CASE row' = [row EXCEPT ![e] = "discarded"]
    BY <1>2, <2>2 DEF EndTransaction
  <2>3. QED
    BY <1>2, <2>1, <2>2 DEF EndTransaction
<1>3. ASSUME NEW w \in Workers, Claim(w) \/ FailRun(w) PROVE UNCHANGED Channel!vars
  BY <1>3 DEF Claim, FailRun, outbox
<1>4. ASSUME NEW w \in Workers, Send(w) PROVE [Channel!Next]_(Channel!vars)
  <2>1. PICK e \in claimed[w] : copies' = [copies EXCEPT ![e] = @ + 1]
    BY <1>4 DEF Send
  <2>2. e \in Events /\ row[e] = "pending" /\ UNCHANGED row
    BY <1>4 DEF Send, outbox, ClaimsAreExclusive
  <2>3. Channel!Deliver(e)
    BY <2>1, <2>2 DEF Channel!Deliver
  <2>4. QED
    BY <2>2, <2>3 DEF Channel!Next
<1>5. ASSUME NEW w \in Workers, CommitRun(w) PROVE UNCHANGED Channel!vars
  BY <1>5 DEF CommitRun, ClaimsAreExclusive
<1>6. CASE UNCHANGED vars
  BY <1>6 DEF vars, outbox
<1>7. QED
  BY <1>1, <1>2, <1>3, <1>4, <1>5, <1>6 DEF Next

\* The outbox implements the safety part of the event channel.
THEOREM Refinement == Spec => ImplementsChannelSafely
<1>1. Init => Channel!Init
  BY DEF Init, Channel!Init
<1>2. QED
  BY <1>1, StepImplements, Inductive, PTL
  DEF Spec, ImplementsChannelSafely, Channel!Safety
=============================================================================

----------------------------- MODULE RateLimit -----------------------------
(***************************************************************************)
(* The fixed-window limiter of core/rate_limit.py, for one scope and one   *)
(* client address; other scopes and addresses have counters of their own.  *)
(* A request reads the clock, names the counter of the window it is in and *)
(* sends INCR and EXPIRE to Redis as one transaction; it is decided by the *)
(* answer, and let through if there is none.  Time goes in ticks of one    *)
(* second.  Times are kept relative to the present one, so that a model is *)
(* finite: window 0 is the present window, window 1 the one before.        *)
(***************************************************************************)
EXTENDS Integers, FiniteSets

CONSTANTS
  Limit, Window,   \* requests per window; its length in ticks; both positive
  Timeout,         \* ticks after which a command to Redis is given up, <= Window
  Requests         \* requests that wait for Redis at once

VARIABLES
  offset,     \* ticks since the present window began
  count,      \* count[w]: the counter in Redis of window w, 0 if there is none
  ttl,        \* ttl[w]: ticks until Redis drops it
  waiting,    \* waiting[r]: window and age of a request that waits for Redis
  spent,      \* history: the requests that the answer of Redis has admitted, by
              \* how long ago they came and what number the counter gave them
  quiet       \* history: ticks since a request last began or ended, at most Window

limiter == <<count, ttl>>
vars == <<offset, limiter, waiting, spent, quiet>>

Windows == {0, 1}
Ages == 0 .. Timeout
Idle == [window |-> 0, age |-> -1]
Past == 0 .. 2 * Window + Timeout
Spent(came, nth) == [came |-> came, nth |-> nth]

Init ==
  /\ offset = 0
  /\ count = [w \in Windows |-> 0]
  /\ ttl = [w \in Windows |-> 0]
  /\ waiting = [r \in Requests |-> Idle]
  /\ spent = {}
  /\ quiet = Window
-----------------------------------------------------------------------------
\* The clock is read and the key of the present window computed.
Arrive(r) ==
  /\ waiting[r] = Idle
  /\ waiting' = [waiting EXCEPT ![r] = [window |-> 0, age |-> 0]]
  /\ quiet' = 0
  /\ UNCHANGED <<offset, limiter, spent>>

\* INCR and EXPIRE window + 1.  Counts above the limit are not told apart.
Lifetime == Window + 1
Counted(w) == IF count[w] > Limit THEN count[w] ELSE count[w] + 1
Increment(w) ==
  /\ count' = [count EXCEPT ![w] = Counted(w)]
  /\ ttl' = [ttl EXCEPT ![w] = Lifetime]

Leave(r) ==
  /\ waiting' = [waiting EXCEPT ![r] = Idle]
  /\ quiet' = 0

AdmittedOneMore(n) == n <= Limit + 1
Admitted(n) == n <= Limit

\* Redis answers: the request goes on, or is refused with a 429.
Answer(r) ==
  /\ waiting[r] # Idle
  /\ LET w == waiting[r].window IN
       /\ Increment(w)
       /\ spent' = IF Admitted(Counted(w))
                     THEN spent \cup {Spent(waiting[r].age, Counted(w))}
                     ELSE spent
  /\ Leave(r)
  /\ UNCHANGED offset

\* RedisError: the request goes on.  It may have been counted all the same.
FailOpen(r) ==
  /\ waiting[r] # Idle
  /\ Increment(waiting[r].window) \/ UNCHANGED limiter
  /\ Leave(r)
  /\ UNCHANGED <<offset, spent>>

\* The key of a window is the number of the window: a new one has no counter.
OneKeyForAll(values) == values
NewKey(values) == [w \in Windows |-> IF w = 0 THEN 0 ELSE values[0]]

\* One second.  A command that has waited for Timeout is given up before.
Tick ==
  /\ \A r \in Requests : waiting[r].age < Timeout
  /\ LET turns == offset + 1 = Window
         left == [w \in Windows |-> IF ttl[w] > 0 THEN ttl[w] - 1 ELSE 0]
         kept == [w \in Windows |-> IF left[w] > 0 THEN count[w] ELSE 0]
     IN  /\ offset' = IF turns THEN 0 ELSE offset + 1
         /\ count' = IF turns THEN NewKey(kept) ELSE kept
         /\ ttl' = IF turns THEN NewKey(left) ELSE left
         /\ waiting' = [r \in Requests |->
              IF waiting[r] = Idle THEN Idle
              ELSE [window |-> IF turns THEN waiting[r].window + 1 ELSE waiting[r].window,
                    age |-> waiting[r].age + 1]]
  /\ spent' = {Spent(s.came + 1, s.nth) : s \in {x \in spent : x.came + 1 \in Past}}
  /\ quiet' = IF quiet < Window THEN quiet + 1 ELSE Window

Next == Tick \/ \E r \in Requests : Arrive(r) \/ Answer(r) \/ FailOpen(r)

Spec == Init /\ [][Next]_vars
-----------------------------------------------------------------------------
\* Type invariant.
TypeOK ==
  /\ offset \in 0 .. Window - 1
  /\ count \in [Windows -> 0 .. Limit + 1]
  /\ ttl \in [Windows -> 0 .. Window + 1]
  /\ waiting \in [Requests -> [window : Windows, age : Ages] \cup {Idle}]
  /\ spent \subseteq [came : Past, nth : 1 .. Limit + 1]
  /\ quiet \in 0 .. Window

\* operations.md, a Redis fixed window: of the requests that came within the
\* length of a window, wherever it begins, at most twice the limit get past a
\* Redis that answers; the late answers around the turn of a window included.
BurstBounded ==
  \A first \in 0 .. Window + Timeout :
    Cardinality({s \in spent : s.came \in first .. first + Window - 1}) <= 2 * Limit

\* The Retry-After header of a 429: a client that is silent for the length of a
\* window finds no count left of what it did before.
RetryAfterSuffices == quiet = Window => count[0] = 0
=============================================================================

---------------------------- MODULE EventChannel ----------------------------
(***************************************************************************)
(* What ADR 0003 promises of domain events: an event reaches the stream    *)
(* only if the transaction that wrote it committed, and then it does reach *)
(* it, at least once.                                                      *)
(***************************************************************************)
CONSTANT Events

VARIABLES committed, delivered

vars == <<committed, delivered>>

Init == committed = {} /\ delivered = {}

Commit(e) == committed' = committed \cup {e} /\ UNCHANGED delivered

Deliver(e) ==
  /\ e \in committed
  /\ delivered' = delivered \cup {e}
  /\ UNCHANGED committed

Next == \E e \in Events : Commit(e) \/ Deliver(e)

Safety == Init /\ [][Next]_vars
Spec == Safety /\ \A e \in Events : WF_vars(Deliver(e))
=============================================================================

---------------------------- MODULE MCWorkOrders ----------------------------
(* WorkOrders for TLC: orders, users and handlers are interchangeable. *)
EXTENDS WorkOrders, TLC

Symmetry ==
  Permutations(OrderIds) \cup Permutations(Members) \cup Permutations(Handlers)
=============================================================================

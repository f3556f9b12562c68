-------------------------- MODULE MCRefreshSessions --------------------------
(* Model-checking instances of RefreshSessions. *)
EXTENDS RefreshSessions, TLC

\* Ids, users and transactions are interchangeable (no liveness is checked
\* with this symmetry).
Symmetry ==
  Permutations(SessionIds) \cup Permutations(Users) \cup Permutations(Handlers)
=============================================================================

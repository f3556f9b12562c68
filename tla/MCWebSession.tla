---------------------------- MODULE MCWebSession ----------------------------
(* The instance of WebSession for run web; tabs, calls and token pairs are  *)
(* interchangeable.                                                         *)
EXTENDS WebSession, TLC

Symmetry == Permutations(Tabs) \cup Permutations(Flows) \cup Permutations(SessionIds)

\* No guard reads a history, and the properties read no history but disturbed
\* once it is TRUE.
View ==
  <<server, fresh, mem, storage, screen, flow, invitation, address, disturbed,
    IF disturbed THEN {} ELSE <<outcomes, reopened>>>>
=============================================================================

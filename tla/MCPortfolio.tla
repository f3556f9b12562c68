----------------------------- MODULE MCPortfolio -----------------------------
(* Model-checking instances of Portfolio. *)
EXTENDS Portfolio, TLC

\* Organizations, labels, keys and handlers are interchangeable, days are not.
Symmetry ==
  UNION {Permutations(S) : S \in {Orgs, Labels, PropertyIds, UnitIds, ProfileIds,
                                  LeaseIds, Handlers}}
=============================================================================

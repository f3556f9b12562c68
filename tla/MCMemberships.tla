--------------------------- MODULE MCMemberships ---------------------------
(* Memberships for TLC: users, invitations and handlers are interchangeable. *)
EXTENDS Memberships, TLC

Symmetry ==
  Permutations(Users) \cup Permutations(InvitationIds) \cup Permutations(Handlers)
=============================================================================

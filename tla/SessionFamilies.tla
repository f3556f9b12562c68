--------------------------- MODULE SessionFamilies ---------------------------
(***************************************************************************)
(* What the refresh sessions of app/services/sessions.py promise, without  *)
(* the database: a credential is issued once, belongs to one family of one *)
(* user, is exchanged at most once and for one successor of its family,    *)
(* and is dead for good once it has been exchanged or revoked.             *)
(***************************************************************************)
CONSTANTS SessionIds, Users, None

VARIABLES
  family,   \* family[s]: the family of the issued credential s, None if not issued
  owner,    \* owner[s]: the user the credential s was issued to
  live      \* the credentials that can still be exchanged

vars == <<family, owner, live>>

Init ==
  /\ family = [s \in SessionIds |-> None]
  /\ owner = [s \in SessionIds |-> None]
  /\ live = {}

\* A login opens a family of one credential; the family is named after it.
Open(s, u) ==
  /\ family[s] = None
  /\ family' = [family EXCEPT ![s] = s]
  /\ owner' = [owner EXCEPT ![s] = u]
  /\ live' = live \cup {s}

\* A live credential is exchanged for a fresh one of the same family.
Exchange(s, t) ==
  /\ s \in live
  /\ family[t] = None
  /\ family' = [family EXCEPT ![t] = family[s]]
  /\ owner' = [owner EXCEPT ![t] = owner[s]]
  /\ live' = (live \ {s}) \cup {t}

\* Credentials of one family die: an expiry, a logout or a detected reuse.
Close(f, dead) ==
  /\ \A s \in dead : family[s] = f
  /\ live' = live \ dead
  /\ UNCHANGED <<family, owner>>

Next ==
  \/ \E s \in SessionIds, u \in Users : Open(s, u)
  \/ \E s, t \in SessionIds : Exchange(s, t)
  \/ \E f \in SessionIds, dead \in SUBSET SessionIds : Close(f, dead)

Spec == Init /\ [][Next]_vars
=============================================================================

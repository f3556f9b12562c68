CONSTANTS
  SessionIds = {s1, s2}
  Tabs = {t1, t2}
  Flows = {f1, f2}
  Faulty = TRUE
  User = user
  None = None
SYMMETRY Symmetry
VIEW View
SPECIFICATION Spec
INVARIANTS TypeOK OnlyDisturbedIsAccused HoldsLiveToken LogoutEndsSession InvitationIsUsedOnce

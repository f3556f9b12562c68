CONSTANTS
  Orgs = {o1}
  Users = {alice, bob}
  InvitationIds = {i1, i2, i3}
  Roles = {"admin", "viewer"}
  Handlers = {h1, h2}
  None = None
SPECIFICATION Spec
SYMMETRY Symmetry
INVARIANTS RolesAreGranted AcceptedMeansJoined
PROPERTIES UsedByOverlappingOnly
CHECK_DEADLOCK FALSE

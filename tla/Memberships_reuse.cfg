CONSTANTS
  Orgs = {o1}
  Users = {alice, bob}
  InvitationIds = {i1, i2}
  Roles = {"admin", "viewer"}
  Handlers = {h1, h2}
  None = None
SPECIFICATION Spec
INVARIANTS SingleUse
CHECK_DEADLOCK FALSE

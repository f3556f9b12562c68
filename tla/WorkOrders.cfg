CONSTANTS
  OrderIds = {o1}
  Members = {alice, bob}
  Outsiders = {eve}
  Handlers = {h1, h2}
  None = None
  Keep = Keep
SPECIFICATION Spec
SYMMETRY Symmetry
INVARIANTS StampsMatchStatus StampsNeverMissing AssigneeWasTold

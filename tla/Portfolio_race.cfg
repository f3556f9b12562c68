CONSTANTS
  Orgs = {o1}
  Labels = {a}
  Days = {1, 2}
  PropertyIds = {p1}
  UnitIds = {u1}
  ProfileIds = {t1}
  LeaseIds = {l1, l2}
  Handlers = {h1, h2}
  None = None
SPECIFICATION Spec
SYMMETRY Symmetry
INVARIANT NoDoubleBooking

CONSTANTS
  Orgs = {o1, o2}
  Labels = {a}
  Days = {1, 2}
  PropertyIds = {p1}
  UnitIds = {u1}
  ProfileIds = {t1}
  LeaseIds = {l1, l2, l3}
  Handlers = {h1, h2}
  None = None
SPECIFICATION Spec
SYMMETRY Symmetry
INVARIANTS OrganizationsStayApart ClashesWereUnseen OverbookingBounded

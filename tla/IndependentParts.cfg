CONSTANTS
  Orgs = {o1, o2}
  Connections = {c1, c2}
  Requests = {r1, r2}
  EventIds = {1, 2, 3}
  Plans = {"starter", "scale"}
  Statuses = {"active", "cancelled"}
  Messages <- BodiesSent
  Deliveries = {v1, v2, v3}
  Ids = {d1, d2, d3}
  Handlers = {h1, h2, h3}
  Limit = 2
  Window = 3
  Timeout = 1
  Clients = {k1, k2}
  Calls = {x1, x2}
  Emails = {e1, e2}
  Cases = {"lower", "mixed"}
  People = {p1, p2}
  Forms = {f1, f2}
  None = None
SPECIFICATION PartsSpec
INVARIANTS PartsTypeOK OnlyOwnRows OwnRowsVisible RowHasContent NoOrphans
INVARIANTS OncePerEvent AcceptedIsRecorded StateOfOneEvent ColumnsOfEvents
INVARIANTS BurstBounded RetryAfterSuffices
INVARIANTS ShownIsSelected UploadsNameOwnProperty EmailHasOneOwner
CHECK_DEADLOCK FALSE

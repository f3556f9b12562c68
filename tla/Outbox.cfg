CONSTANTS
  Events = {e1, e2, e3}
  Workers = {w1, w2}
  BatchSize = 2
  MaxFailures = 2
SPECIFICATION FairSpec
INVARIANTS ClaimsAreExclusive MarkedMeansDelivered CopiesNeedFailures BacklogInOrder
PROPERTY ImplementsChannel
CHECK_DEADLOCK FALSE

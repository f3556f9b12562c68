CONSTANTS
  SessionIds = {s1, s2, s3}
  Users = {alice}
  Handlers = {h1, h2}
  None = None
SPECIFICATION FairSpec
INVARIANTS TypeOK ReadStaysTrue AtMostOneLive FamilyIsChain SurvivorsOvertookUpdate
PROPERTIES ImplementsFamilies EveryRequestEnds

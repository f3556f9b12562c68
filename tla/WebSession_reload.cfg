CONSTANTS
  SessionIds = {s1, s2}
  Tabs = {t1}
  Flows = {f1}
  Faulty = FALSE
  User = user
  None = None
SPECIFICATION FairSpec
PROPERTY WorkspaceOpens

SPECIFICATION FairSpec
CONSTANTS
  Deployments = {1, 2}
  w1 = w1
  w2 = w2
  Workers = {w1, w2}
  StopsBeforeTarget = FALSE
  MaxCrashes = 1
  None = None
INVARIANTS TypeOK InstalledIsKnown
PROPERTIES NobodyRemovesNewer MissingIsNoticed LeftoversGo
CHECK_DEADLOCK FALSE

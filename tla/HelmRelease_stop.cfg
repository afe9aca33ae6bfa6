SPECIFICATION FairSpec
CONSTANTS
  Deployments = {1, 2}
  w1 = w1
  w2 = w2
  Workers = {w1, w2}
  StopsBeforeTarget = TRUE
  MaxCrashes = 0
  None = None
PROPERTIES NobodyRemovesNewer
CHECK_DEADLOCK FALSE

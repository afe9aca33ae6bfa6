SPECIFICATION FairSpec
CONSTANTS
  w1 = w1
  w2 = w2
  Workers = {w1, w2}
  Deployments <- OneDeployment
  Tested = {}
  Stallable = {}
  OldReads = TRUE
  Requestable = {}
  PatchStatuses = {}
  PatchBuilds = {}
  MaxCrashes = 1
  None = None
  NoView = NoView
PROPERTY StaleClaimsEnd

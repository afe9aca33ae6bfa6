SPECIFICATION FairSpec
CONSTANTS
  w1 = w1
  w2 = w2
  Workers = {w1, w2}
  Deployments <- OneDeployment
  Tested = {}
  Stallable = {}
  OldReads = FALSE
  Requestable = {"cleanup"}
  PatchStatuses = {"failed"}
  PatchBuilds = {"failed"}
  MaxCrashes = 2
  None = None
  NoView = NoView

PROPERTIES InterruptedWorkEnds StaleClaimsEnd

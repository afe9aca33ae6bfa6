SPECIFICATION WorkerFairSpec
CONSTANTS
  w1 = w1
  w2 = w2
  Workers = {w1, w2}
  Deployments <- OneDeployment
  Tested = {1}
  Stallable = {}
  OldReads = FALSE
  Requestable = {"stop", "cleanup"}
  PatchStatuses = {}
  PatchBuilds = {}
  MaxCrashes = 2
  None = None
  NoView = NoView
INVARIANTS TypeOK Exclusive CommandKeys HealthyWorkersKeepClaims
PROPERTIES StatusGraph AttemptSpec StopIsServed QueueDrains

SPECIFICATION Spec
CONSTANTS
  w1 = w1
  w2 = w2
  Workers = {w1, w2}
  Deployments <- OneDeployment
  Tested = {}
  Stallable = {}
  OldReads = FALSE
  Requestable = {"stop"}
  PatchStatuses = {}
  PatchBuilds = {}
  MaxCrashes = 0
  None = None
  NoView = NoView
INVARIANT InterruptedWorkIsRecoverable

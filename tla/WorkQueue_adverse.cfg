SPECIFICATION Spec
CONSTANTS
  w1 = w1
  w2 = w2
  Workers = {w1, w2}
  Deployments <- OneDeployment
  Tested = {}
  Stallable = {w1, w2}
  OldReads = TRUE
  Requestable = {"stop"}
  PatchStatuses = {}
  PatchBuilds = {}
  MaxCrashes = 0
  None = None
  NoView = NoView
SYMMETRY Symmetry
INVARIANTS OnePipeline StatusesAgree
PROPERTY FencedWrites

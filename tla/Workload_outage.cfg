SPECIFICATION WorkloadSpec
CONSTANTS
  Namespaces = {"apps"}
  Configs <- Kubernetes
  RetryCount = 0
  MaxReconfigs = 0
  MaxLosses = 0
  MaxOutages = 1
  MaxVanished = 0
  Nowhere = Nowhere
PROPERTY FailedOnlyIfMissing
CHECK_DEADLOCK FALSE

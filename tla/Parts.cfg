SPECIFICATION PartsSpec
CONSTANTS
  Namespaces = {"apps", "other"}
  Configs <- Setups
  RetryCount = 1
  MaxReconfigs = 1
  MaxLosses = 1
  MaxOutages = 1
  MaxVanished = 1
  Nowhere = Nowhere
  Interval = 3
  TTL = 54
  Timeout = 10
  Retries = 2
  Second = 2
  ProbeTime = 3
  HealthTimeout = 6
  MaxCalls = 2
  Shown = {1, 2}
  Loads = {1, 2}
  Nothing = Nothing
INVARIANTS
  WorkloadTypeOK InstalledIsLocated ServesWhatWasBuilt CleansOnlyEnded
  RunnerTypeOK SilenceIsBounded NoChildOutlives CallIsBounded
  DashboardTypeOK ShowsSelected NoStrayInterval
PROPERTIES
  StopFindsIt GoneIsNoticed LeftoversAreRemoved EndIsShown
CHECK_DEADLOCK FALSE

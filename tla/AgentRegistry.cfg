SPECIFICATION RegSpec
CONSTANTS
  Slots = {s1, s2}
  Loaders = {l1}
  FailureThreshold = 1
  MaxLoad = 1
  WarnAge = 1
  StaleAge = 1
  OfflineAge = 2
  MaxRegEvents = 2
INVARIANT BusyCountsTasks
PROPERTY RegistrySettles
CHECK_DEADLOCK FALSE

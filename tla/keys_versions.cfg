SPECIFICATION Spec
CONSTANTS
  Names = {s1}
  Threads = {t1}
  ProviderRotates = FALSE
  ExplicitVersions = TRUE
  ValueSizes <- MCNoSizes
  DEK_MAX_ENCRYPTIONS = 3
  DEK_MAX_BYTES = 1
  MaxEpoch = 2
  MaxFaults = 0
INVARIANT EveryVersionReadable
CHECK_DEADLOCK FALSE

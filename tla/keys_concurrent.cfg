SPECIFICATION Spec
CONSTANTS
  Names = {s1}
  Threads = {t1, t2}
  ProviderRotates = FALSE
  ExplicitVersions = FALSE
  ValueSizes <- MCNoSizes
  DEK_MAX_ENCRYPTIONS = 3
  DEK_MAX_BYTES = 1
  MaxEpoch = 2
  MaxFaults = 0
INVARIANT StoredReadableAtRest
CHECK_DEADLOCK FALSE

SPECIFICATION Spec
CONSTANTS
  Agents = {a1}
  HasVerifier = TRUE
  Window = 1
  MaxClock = 2
  MaxRequests = 1
  MaxVersions = 2
  MaxRestarts = 0
INVARIANT FlaggedReleaseHasCode
CHECK_DEADLOCK FALSE

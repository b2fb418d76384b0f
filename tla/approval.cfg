SPECIFICATION FairSpec
CONSTANTS
  Agents = {a1, a2}
  HasVerifier = TRUE
  Window = 1
  MaxClock = 2
  MaxRequests = 2
  MaxVersions = 1
  MaxRestarts = 1
INVARIANTS TypeOK OneCodeOneApproval FlaggedNeedsCode DecisionHonored ListedIffWaiting
PROPERTY ConsultEnds
CHECK_DEADLOCK FALSE

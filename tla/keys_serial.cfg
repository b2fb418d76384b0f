SPECIFICATION Spec
CONSTANTS
  Names = {s1}
  Threads = {t1, t2}
  ProviderRotates = TRUE
  ExplicitVersions = FALSE
  ValueSizes <- MCValueSizes
  DEK_MAX_ENCRYPTIONS = 2
  DEK_MAX_BYTES = 2
  MaxEpoch = 3
  MaxFaults = 1
INVARIANTS TypeOK ActiveReadable RestartKeepsDek DataRecoverable DekBudget LeaseFailsOnlyRaced
PROPERTY EpochNamesOneKeychain
CONSTRAINT MCExcused
SYMMETRY MCSymmetry
CHECK_DEADLOCK FALSE

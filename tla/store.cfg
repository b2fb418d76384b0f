SPECIFICATION FairSpec
CONSTANTS
  t1 = t1
  t2 = t2
  t3 = t3
  server = server
  cli = cli
  Names = {s1}
  Threads = {t1, t2, t3}
  Processes = {server, cli}
  ProcessOf <- MCProcessOf
  NoThread = NoThread
  Calls = {"set", "revoke", "get", "list"}
  MaxLog = 3
  MaxKills = 1
  MaxRestores = 1
INVARIANTS TypeOK ChainIntact LatestActive LogExplainsRows LeasesLogged
PROPERTIES WritesAreAtomic LocksReleased
CHECK_DEADLOCK FALSE

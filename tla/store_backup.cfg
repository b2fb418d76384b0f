SPECIFICATION Spec
CONSTANTS
  t1 = t1
  t2 = t2
  t3 = t3
  server = server
  cli = cli
  Names = {s1}
  Threads = {t1, t3}
  Processes = {server, cli}
  ProcessOf <- MCProcessOf
  NoThread = NoThread
  Calls = {"set"}
  MaxLog = 3
  MaxKills = 0
  MaxRestores = 1
INVARIANT RestoreExplained
CHECK_DEADLOCK FALSE

SPECIFICATION Spec
CONSTANTS
  Tools = {"startup", "router", "usage", "loop", "report"}
  Migrations <- MCMigrations
  Nothing = Nothing
  Partial = Partial
  MaxStarts = 3
  MaxStarting = 2
  Default <- MCDefault
  Files <- MCFiles
  MissingFile = MissingFile
  Tasks = {"review", "general"}
  Fanouts <- MCFanouts
  Writers = {"w1", "w2"}
  Providers = {"groq", "gemini-cli"}
  Nobody = "nobody"
  MaxRows = 4
  Loops = {"p1", "p2"}
  Boards <- MCBoards
  NoEntry = NoEntry
  Torn = Torn
  Schedule <- MCSchedule
  Contents = {"A", "B"}
  Aheads <- MCAheads
  MaxEdits <- MCMaxEdits
  MaxTime <- MCMaxTime
  MaxLoops <- MCMaxLoops
  MaxRuns = 2
  MaxPasses = 2
  StartBoards <- MCStartBoards
  Kinds <- MCKinds
  Projects = {"m1", "m2"}
  Asked <- MCAsked
  Unassigned = Unassigned
  NoTotal = NoTotal
  Limit = 2
  PageCap = 3
  MaxWork = 3
  MaxXL = 1
  MaxChanges = 2
INVARIANTS TypeOK RepliesTrue LoopKeepsPace LogTells ReportsTrue StartsAgree
CONSTRAINT MCOneOffset
CHECK_DEADLOCK FALSE

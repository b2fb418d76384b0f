SPECIFICATION Spec
CONSTANTS
  c1 = c1
  c2 = c2
  c3 = c3
  v1 = v1
  v2 = v2
  Names <- MCNames
  Values = {v1, v2}
  Absent = Absent
  Conns = {1, 2}
  Tokens = {"agent"}
  NoToken = "none"
  MaxRestarts = 1
  Clients = {c1, c2}
  ShadowToken = "agent"
  NoConn = NoConn
  Missing = Missing
  Everything = Everything
  PoolSizes <- MCPoolSizes
  Purpose = "batch"
  Draws = {0, 99}
  Percents <- MCPercents
  Credentials <- MCCredentials
  MaxCalls <- MCMaxCalls
  Namespace <- MCNamespace
  NameOrder <- MCOrder
  TuiToken = "agent"
  Loaders = {1, 2}
  NoLoad = NoLoad
  MaxSearch = 1
  MaxTimers = 2
  MaxRotations = 1
  Deployments <- MCDeployments
  Inputs <- MCInputs
  Policies <- MCPolicies
  Agents <- MCAgents
  Namespaces <- MCNamespaces
  Purposes = {"batch"}
  Actions <- MCActions
INVARIANTS TypeOK GoLogTellsStore DivergenceNoticed AnswerTrue PolicyMeansReference CursorInRange TimersArmed CallsGoOn
CHECK_DEADLOCK FALSE

SPECIFICATION Spec
CONSTANTS
  Callers = {c1, c2}
  alice = alice  echo = echo  use = use  gone = gone  v = v
  Agents = {alice}
  Tokens <- MCTokens
  Requests <- MCRequests
  Supported <- MCSupported
  Leasing <- MCLeasing
  Modes = {"off"}
  Unbound = Unbound  Forged = Forged  Bypass = Bypass  None = None
  Switches = {"flag"}
  MaxRequests = 2
  MaxFailures = 1
  Span = 1
  MaxCache = 2
  MaxClock = 1
SYMMETRY Symmetry
INVARIANTS SlidingWindow

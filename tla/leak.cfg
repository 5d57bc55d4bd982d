SPECIFICATION Spec
CONSTANTS
  Machines = {m1}
  Nodes = {n1}
  None = None
  Legacy = {}
  Left = {}
  TicksPerSecond = 1
  RetryWindow = 1
  FreeTime = 0
  Mishaps = {}
  MaxMishaps = 0
INVARIANTS NoLeakedClaim
CHECK_DEADLOCK FALSE

SPECIFICATION Spec
CONSTANTS
  Machines = {m1}
  Nodes = {n1}
  None = None
  Legacy = {}
  Left = {}
  TicksPerSecond = 2
  RetryWindow = 4
  FreeTime = 1
  Mishaps = {"error", "pause", "refuse"}
  MaxMishaps = 3
INVARIANTS PacedRetries PaceInv
CHECK_DEADLOCK FALSE

SPECIFICATION Spec
CONSTANTS
  Machines = {m1, m2}
  Nodes = {n1}
  None = None
  Legacy = {m1}
  Left = {"handed"}
  TicksPerSecond = 1
  RetryWindow = 1
  FreeTime = 0
  Mishaps = {"move", "tamper"}
  MaxMishaps = 2
INVARIANTS MismatchExplained
PROPERTIES GoneMeansReleased ReleasesOwnNode
CHECK_DEADLOCK FALSE

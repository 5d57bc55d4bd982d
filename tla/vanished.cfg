SPECIFICATION FairSpec
CONSTANTS
  Machines = {m1}
  Nodes = {n1}
  None = None
  Legacy = {}
  Left = {}
  TicksPerSecond = 1
  RetryWindow = 1
  FreeTime = 0
  Mishaps = {"vanish"}
  MaxMishaps = 1
PROPERTIES MissingNodeFails
CHECK_DEADLOCK FALSE

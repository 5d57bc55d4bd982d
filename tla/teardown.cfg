SPECIFICATION FairProviderSpec
CONSTANTS
  Machines = {m1}
  Nodes = {n1}
  None = None
  Legacy = {}
  Left = {}
  TicksPerSecond = 1
  RetryWindow = 1
  FreeTime = 0
  Mishaps = {"crash", "disorder", "error", "lookup", "stray404"}
  MaxMishaps = 1
INVARIANTS OrderInv ReachableInOrder
PROPERTIES ReleasedInOrder TeardownCompletes FleetComesUp
CHECK_DEADLOCK FALSE

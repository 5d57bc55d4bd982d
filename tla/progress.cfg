SPECIFICATION FairSpec
CONSTANTS
  Machines = {m1}
  Nodes = {n1}
  None = None
  Legacy = {}
  Left = {}
  TicksPerSecond = 1
  RetryWindow = 1
  FreeTime = 0
  Mishaps = {"crash", "disconnect", "error", "lost", "move", "outage", "patch", "pause", "refuse", "stale", "tamper"}
  MaxMishaps = 2
PROPERTIES DeletionCompletes EventuallyProvisioned
CHECK_DEADLOCK FALSE

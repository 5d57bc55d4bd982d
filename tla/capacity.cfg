SPECIFICATION FairSpec
CONSTANTS
  Machines = {m1, m2}
  Nodes = {n1}
  None = None
  Legacy = {m1}
  Left = {"handed", "refused", "rebooting"}
  TicksPerSecond = 1
  RetryWindow = 1
  FreeTime = 0
  Mishaps = {}
  MaxMishaps = 0
PROPERTIES EventuallyProvisioned
CHECK_DEADLOCK FALSE

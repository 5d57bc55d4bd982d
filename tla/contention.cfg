SPECIFICATION Spec
CONSTANTS
  Machines = {m1, m2}
  Nodes = {n1}
  None = None
  Legacy = {}
  Left = {}
  TicksPerSecond = 1
  RetryWindow = 1
  FreeTime = 0
  Mishaps = {"crash", "lost", "patch", "stale"}
  MaxMishaps = 1
SYMMETRY Symmetry
INVARIANTS ClaimInv NodeExclusive ProvisionedHasConfig ConfigInv
PROPERTIES CommandsToOwnNode ImplementsPool
CHECK_DEADLOCK FALSE

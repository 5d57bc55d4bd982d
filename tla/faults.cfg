SPECIFICATION Spec
CONSTANTS
  Machines = {m1}
  Nodes = {n1}
  None = None
  Legacy = {}
  Left = {}
  TicksPerSecond = 1
  RetryWindow = 1
  FreeTime = 0
  Mishaps = {"crash", "disconnect", "error", "lookup", "lost", "move", "outage", "patch", "pause", "refuse", "unwatched", "vanish"}
  MaxMishaps = 3
INVARIANTS TypeOK RebootFollowsApply FailureMeansGone FreshInv
PROPERTIES ProviderIDImmutable SettledIsLeftAlone GoneMeansReleased
CHECK_DEADLOCK FALSE

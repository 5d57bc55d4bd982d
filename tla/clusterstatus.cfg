SPECIFICATION FairSpec
CONSTANTS
  None = None
  MaxEdits = 3
  Mishaps = {"crash", "error", "patch", "pause", "stale"}
  MaxMishaps = 2
INVARIANTS TypeOK VerdictInv CurrentVerdict
PROPERTIES EventuallyReady GatedOnEndpoint GatedOnConnection ClusterDeletionCompletes
CHECK_DEADLOCK FALSE

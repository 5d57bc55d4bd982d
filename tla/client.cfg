SPECIFICATION Spec
CONSTANTS
  Machines = {m1, m2}
  Nodes = {n1, n2}
  None = None
  MaxCalls = 5
  MaxList = 3
  Stamps = {1, 2}
  Mishaps = {"proxy", "cut", "timeout", "vanish"}
  MaxMishaps = 2
SYMMETRY Symmetry
INVARIANTS TypeOK TruthfulVerdict OneNodePerMachine RecordedIsHeld WireInv ReadsLatestCommand ResolvesGroup
CHECK_DEADLOCK FALSE

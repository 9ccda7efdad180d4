SPECIFICATION Spec
CONSTANTS
  Base = 3
  Cap = 10
  MaxAttempts = 4
  Grid = 3
  Jobs = {j1, j2}
  MaxRestarts = 1
SYMMETRY MCSymmetry
INVARIANTS
  ReachHolds
  ReplicaAgrees
  NoLeak
PROPERTIES
  MemoryBounds
CHECK_DEADLOCK FALSE

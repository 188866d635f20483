CONSTANTS
  Positions = {p1, p2}
  InFront = p1
  Names = {ore}
  MaxJobs = 2
  MaxTargets = 2
  MaxChanges = 0
  MaxDisturbances = 1
SPECIFICATION Spec
INVARIANTS
  MineDigsInFront
CHECK_DEADLOCK FALSE

CONSTANTS
  Positions = {p1, p2}
  InFront = p1
  Names = {ore}
  MaxJobs = 2
  MaxTargets = 2
  MaxChanges = 1
  MaxDisturbances = 1
SPECIFICATION Spec
INVARIANTS
  SuccessIsVerified
CHECK_DEADLOCK FALSE

CONSTANTS
  MaxWaypoints = 2
  MaxAttempts = 1
  MaxStrikes = 1
  MaxCommands = 3
  MaxQueue = 2
  MaxReplies = 3
SPECIFICATION Spec
INVARIANT StopStops
CHECK_DEADLOCK FALSE

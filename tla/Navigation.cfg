CONSTANTS
  MaxWaypoints = 2
  MaxAttempts = 1
  MaxStrikes = 1
  MaxCommands = 3
  MaxQueue = 2
  MaxReplies = 3
SPECIFICATION Spec
INVARIANTS
  NavigationInv
  CommandPrevails
PROPERTIES
  MiningStandsStill
  EndOfFollowIsReported
CHECK_DEADLOCK FALSE

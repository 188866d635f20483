CONSTANTS
  Places <- Grid
  Distance <- GridDistance
  Progress = 1
  MaxTick = 2
  StallTime = 3
  RecoveryTime = 2
  MaxDetours = 3
  None = None
SPECIFICATION RecoverySpec
INVARIANTS
  StallInv
PROPERTIES
  BestOnlyShrinks
  DetourKeepsHeading
  PursuitEnds

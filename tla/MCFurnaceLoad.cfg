\* Three loads at once; two transfers of up to two items.
CONSTANTS
  Loads = {l1, l2, l3}
  MaxJobs = 2
  MaxRequest = 2
  None = None
SPECIFICATION Spec
SYMMETRY LoadSymmetry
INVARIANTS
  LoadInv
PROPERTIES
  FailedInputIsOver
CHECK_DEADLOCK FALSE

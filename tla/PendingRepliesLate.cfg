CONSTANTS
  Requests = {r1, r2}
  Nobody = Nobody
SPECIFICATION Spec
INVARIANTS
  AnswersAreCorrelated
CHECK_DEADLOCK FALSE

CONSTANTS
  Requests = {r1, r2, r3}
  Nobody = Nobody
SPECIFICATION RepliesSpec
INVARIANTS
  RepliesInv
  OwnAnswerUnlessAbandoned
PROPERTIES
  RequestCompletes
CHECK_DEADLOCK FALSE

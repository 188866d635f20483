\* No limit is ever reached.
CONSTANTS
  PendingLimit = 3
  FetchLimit = 3
  LogLimit = 3
  MaxMessages = 3
  MaxRuns = 2
  MaxMishaps = 0
SPECIFICATION Spec
PROPERTY ReadIsRetained

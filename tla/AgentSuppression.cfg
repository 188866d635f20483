\* One place, three turns with up to two calls.
CONSTANTS
  Places = {1}
  Budgets = {1}
  Servers = {{}, {"tools"}, {"tools", "temperature"}}
  MaxToolCalls = 2
  MaxReturned = 2
  MaxTurns = 3
  MaxMessages = 1
  MaxObjectives = 1
  MaxFaults = 0
  None = None
SPECIFICATION Spec
INVARIANT
  SuppressedWasTried
CHECK_DEADLOCK FALSE

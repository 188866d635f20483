\* One place, three turns with up to two calls and one fault.
CONSTANTS
  Places = {1}
  Budgets = {1}
  Servers = {{}, {"tools"}, {"tools", "temperature"}}
  MaxToolCalls = 2
  MaxReturned = 2
  MaxTurns = 3
  MaxMessages = 1
  MaxObjectives = 1
  MaxFaults = 1
  None = None
SPECIFICATION Spec
INVARIANTS
  DecisionInv
  ModelIsReached
  BudgetBoundsActions
  AuthorityIsFresh
CHECK_DEADLOCK FALSE

SPECIFICATION Spec
CONSTANTS
  NumIds = 3
  MaxTurns = 2
  RecursionLimit = 10
  MaxEmpty = 1
  MaxNudges = 1
  Budgets = {1800}
  Now = 1750000000
  GateOn = TRUE
  TodoOn = TRUE
  MayCompact = TRUE
INVARIANT SendsBackFirst
CHECK_DEADLOCK FALSE

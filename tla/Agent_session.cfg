SPECIFICATION Spec
CONSTANTS
  NumIds = 3
  MaxTurns = 2
  RecursionLimit = 10
  MaxEmpty = 1
  MaxNudges = 1
  Budgets = {1800, 2000000000}
  Now = 1750000000
  GateOn = TRUE
  TodoOn = TRUE
  MayCompact = TRUE
INVARIANT TypeOK
INVARIANT InputAccepted
INVARIANT IdleBound
 
\* The session is idle for good after MaxTurns turns.
CHECK_DEADLOCK FALSE

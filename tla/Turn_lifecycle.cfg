SPECIFICATION LoopSpec
CONSTANTS
  NumTurns = 2
  Prompts = {1, 2, 3}
  PromptOf <- DistinctPrompts
  ConcurrentPosts = TRUE
  LoopRace = TRUE
  MayCompact = TRUE
INVARIANT TypeOK
INVARIANT ClosesOnce
INVARIANT RowsAgree
PROPERTY NoLateAnswer
PROPERTY KeepsPromise
PROPERTY CancelEnds
PROPERTY PromiseFulfilled
\* The session is idle for good once NumTurns prompts are served.
CHECK_DEADLOCK FALSE

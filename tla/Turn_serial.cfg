SPECIFICATION Spec
CONSTANTS
  NumTurns = 3
  Prompts = {1, 2, 3}
  PromptOf <- DistinctPrompts
  ConcurrentPosts = FALSE
  LoopRace = FALSE
  MayCompact = FALSE
INVARIANT Serialised
 
\* The session is idle for good once NumTurns prompts are served.
CHECK_DEADLOCK FALSE

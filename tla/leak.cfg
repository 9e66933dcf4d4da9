\* DR-7 read literally: no container survives the call.
SPECIFICATION Spec
CONSTANTS
  Depths = {0}
  MaxDepth = 2
  MaxIterations = 2
  MaxErrors = 2
  MaxBudget = NoLimit
  MaxTokens = NoLimit
  MaxTimeout = NoLimit
  Answers = {a}
  NoAnswer = NoAnswer
  NoLimit = NoLimit
  CallUsage <- NoUsage
  MaxBlocks = 1
  CallsBound = 1
  ElapsedBound = 0
  TokensBound = 1
INVARIANTS CleanupStopsContainer
CHECK_DEADLOCK FALSE

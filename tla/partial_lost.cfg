\* The best partial answer at the moment a limit is reached: it has the last response in it.
SPECIFICATION Spec
CONSTANTS
  Depths = {0}
  MaxDepth = 2
  MaxIterations = 2
  MaxErrors = 2
  MaxBudget = NoLimit
  MaxTokens = NoLimit
  MaxTimeout = NoLimit
  Answers = {a}
  NoAnswer = NoAnswer
  NoLimit = NoLimit
  CallUsage <- NoUsage
  MaxBlocks = 1
  CallsBound = 1
  ElapsedBound = 0
  TokensBound = 1
INVARIANTS PartialIsBest
CHECK_DEADLOCK FALSE

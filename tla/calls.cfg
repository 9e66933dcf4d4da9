\* Two calls in a row at depth 0 or at the cap: three iterations of up to two blocks, both spending
\* limits, the error limit and the deadline, every failure of the setup and cancellation.
SPECIFICATION FairSpec
CONSTANTS
  Depths = {0, 2}
  MaxDepth <- LimitedDepth
  MaxIterations <- LimitedIterations
  MaxErrors <- LimitedErrors
  MaxBudget <- LimitedBudget
  MaxTokens <- LimitedTokens
  MaxTimeout <- LimitedTimeout
  Answers = {a, b}
  NoAnswer = NoAnswer
  NoLimit = NoLimit
  CallUsage <- FreeOrNot
  MaxBlocks = 2
  CallsBound = 2
  ElapsedBound = 1
  TokensBound = 2
INVARIANTS TypeOK ReleasedOnReturn ServedWhileUp SpendingGatesModelCalls ErrorStreak PartialIsCurrent FirstAnswerReturned DefaultAfterAllIterations
PROPERTY OneProcessAtATime
PROPERTY Implements
PROPERTY CallReturns
CHECK_DEADLOCK FALSE

\* RO-8 for a budget spent by a finished child.
SPECIFICATION Spec
CONSTANTS
  Nodes <- Chain
  Root = "r"
  Parent <- ChainParent
  DepthOf <- ChainDepth
  Below <- ChainBelow
  NoLimit = NoLimit
  MaxDepth = 3
  ScriptMaxDepth = 3
  MaxIterations = 2
  MaxConcurrentSubcalls = 1
  MaxBudget = 3
  MaxTokens = NoLimit
  MaxTimeout = NoLimit
  ClockBound = 0
PROPERTY RemainingNeverGrows
CHECK_DEADLOCK FALSE

\* Three levels under one slot per batch, the last at the cap of the host, and a deadline.
SPECIFICATION FairSpec
CONSTANTS
  Nodes <- Chain
  Root = "r"
  Parent <- ChainParent
  DepthOf <- ChainDepth
  Below <- ChainBelow
  NoLimit = NoLimit
  MaxDepth = 3
  ScriptMaxDepth = 4
  MaxIterations = 1
  MaxConcurrentSubcalls = 1
  MaxBudget = 2
  MaxTokens = NoLimit
  MaxTimeout = 1
  ClockBound = 1
 
PROPERTY EverySubcallResponds
CHECK_DEADLOCK FALSE

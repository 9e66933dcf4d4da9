\* Two siblings, one of which asks the plain LM, one slot each batch, a budget, cancellation.
SPECIFICATION Spec
CONSTANTS
  Nodes <- Fork
  Root = "r"
  Parent <- ForkParent
  DepthOf <- ForkDepth
  Below <- ForkBelow
  NoLimit = NoLimit
  MaxDepth <- SharedDepth
  ScriptMaxDepth <- SharedScriptDepth
  MaxIterations <- SharedIterations
  MaxConcurrentSubcalls = 1
  MaxBudget <- SharedBudget
  MaxTokens <- SharedTokens
  MaxTimeout <- SharedTimeout
  ClockBound = 0
INVARIANTS TypeOK NeverOvercharged NoLiveOrphan BatchBounded InheritsRemaining
CHECK_DEADLOCK FALSE

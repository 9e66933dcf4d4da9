\* Two starts by either owner; a batch of sub-calls on two slots and a query beside it.
SPECIFICATION FairSpec
CONSTANTS
  Items <- Four
  CallOf <- BatchAndQuery
  ServiceOf <- BothServices
  Kind <- Kinds
  Concurrency <- TwoSlots
  Owners = {"Server", "LMHandler"}
  StartsBound = 2
INVARIANTS TypeOK OwnServer PortsReleased LiveOnlyWhileUp InPlace
PROPERTY CallerHears
CHECK_DEADLOCK FALSE

\* A batch on two slots and a call beside it, on four clients of which two report no costs, while
\* the usage is summed up.
SPECIFICATION FairSpec
CONSTANTS
  Items <- Four
  BatchOf <- BatchAndCall
  Model <- OneNamed
  ItemDepth <- Depths
  Malformed <- SecondMalformed
  Tokens <- Counts
  Priced = {"c1", "c3"}
  NoCost = NoCost
  Clients = {"c1", "c2", "c3", "c4"}
  Default = "c1"
  Other = "c2"
  NameOf <- SameName
  Registrable <- CustomRegistrable
  BatchConcurrency = 2
  NoClient = NoClient
  NoName = NoName
INVARIANTS TypeOK FailureIsOwn EveryCallCounted ReportIsCurrent CostOfPricedNames
PROPERTY Implements
CHECK_DEADLOCK FALSE

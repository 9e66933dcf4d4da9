\* Two prompts of a batch on one client.
SPECIFICATION Spec
CONSTANTS
  Items <- Pair
  BatchOf <- OneBatch
  Model <- Unnamed
  ItemDepth <- Depth1
  Malformed <- NoneMalformed
  Tokens <- PairCounts
  Priced = {}
  NoCost = NoCost
  Clients = {"c1"}
  Default = "c1"
  Other = NoClient
  NameOf <- DefaultOnly
  Registrable <- NoneRegistrable
  BatchConcurrency = 2
  NoClient = NoClient
  NoName = NoName
INVARIANTS UsageIsOwn
CHECK_DEADLOCK FALSE

SPECIFICATION FairSpec
CONSTANTS
  NLayers = 2
  Half = 1
  MaxCalls = 4
  PushSide = FALSE
INVARIANTS
  TypeOK
  SumsItsOwnCall
  RegionsExclusive
  ReturnsOwnSum
PROPERTY
  QueuedReturnsFinish
CHECK_DEADLOCK FALSE

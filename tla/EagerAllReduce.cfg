SPECIFICATION FairSpec
CONSTANTS
  Ring = 2
  MaxCalls = 5
INVARIANTS
  TypeOK
  NoSignalLost
  ReducesItsOwnCall
  PushReadsUnreducedInput
  RanksWithinOneCall
PROPERTIES
  CallReturns
  ImplementsAllReduce
CHECK_DEADLOCK FALSE

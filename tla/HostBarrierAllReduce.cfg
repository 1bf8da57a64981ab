SPECIFICATION FairSpec
CONSTANT
  MaxCalls = 5
INVARIANTS
  TypeOK
  NobodyPassesEarly
  NeverReducesOldPayload
  RanksWithinOneCall
PROPERTY
  CallReturns
CHECK_DEADLOCK FALSE

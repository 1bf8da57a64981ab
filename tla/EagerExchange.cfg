SPECIFICATION ExchangeSpec
CONSTANTS
  Ring = 2
  MaxCalls = 2
INVARIANT
  NoSignalLost
CHECK_DEADLOCK FALSE

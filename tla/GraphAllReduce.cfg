SPECIFICATION Spec
CONSTANT
  MaxCalls = 2
INVARIANT
  NoSignalLost
CHECK_DEADLOCK FALSE

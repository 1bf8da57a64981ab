SPECIFICATION Spec
CONSTANTS
  Req = {"a1", "a2", "a3"}
  prompt <- TwinPrompt
  turn <- TwinTurn
  slots = 2
  budget_bytes = 8
  block_size = 2
INVARIANT
  LoadsItsOwnTokens
CHECK_DEADLOCK FALSE

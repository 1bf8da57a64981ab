SPECIFICATION Spec
CONSTANTS
  Turns <- MCTurns
  Prompts <- MCPrompts
  slots = 2
  budget_bytes = 6
  block_size = 2
  MaxStores = 2
  MaxPins = 1
INVARIANT
  ParkedConversationHasTail
CHECK_DEADLOCK FALSE

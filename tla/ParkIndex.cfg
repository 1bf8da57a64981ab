SPECIFICATION Spec
CONSTANTS
  Turns <- MCTurns
  Prompts <- MCPrompts
  slots = 2
  budget_bytes = 6
  block_size = 2
  MaxStores = 3
  MaxPins = 1
INVARIANTS
  TypeOK
  ReachableIsParked
  FindsLongestStrictPrefix
PROPERTIES
  StoreMakesRoom
  ProtectedConversationsStay
  EvictsOldestFirst
  ReleasesWhatItDrops
CHECK_DEADLOCK FALSE

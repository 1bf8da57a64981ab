SPECIFICATION FairSpec
CONSTANTS
  Req = {"a1", "a2", "a3", "b"}
  prompt <- MCPrompt
  turn <- MCTurn
  slots = 2
  budget_bytes = 3
  block_size = 2
INVARIANTS
  TypeOK
  CopiedBlocksAreHeld
  LoadsReadWhatWasFound
PROPERTIES
  EvictsWholeConversations
  RunningConversationsStay
  TailBlocksReleased
CHECK_DEADLOCK FALSE

CONSTANTS
  Story <- SmallStory
  Programs <- LateTimer
  MaxDepth = 4
  NoEntry = NoEntry
SPECIFICATION Spec
INVARIANT SumsBlocks
CHECK_DEADLOCK FALSE

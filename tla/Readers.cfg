CONSTANTS
  Story <- SmallStory
  Programs <- AnyTiming
  MaxDepth = 4
  NoEntry = NoEntry
SPECIFICATION Spec
INVARIANT AnswerIsRight
INVARIANT IsrFindsRead
INVARIANT NobodySpins
INVARIANT ReturnsLast
PROPERTY MainReturns
CHECK_DEADLOCK FALSE

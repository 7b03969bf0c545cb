CONSTANTS
  NUM_ITERATIONS = 1
  Scopes <- AnyStart
  NoThread = NoThread
SPECIFICATION Spec
INVARIANT SignalsOnlyReady

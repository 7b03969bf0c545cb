CONSTANTS
  main = main
  t1 = t1
  t2 = t2
  p1 = p1
  p2 = p2
  NoThread = NoThread
  Detached = Detached
  Threads = {main, t1, t2}
  Main = main
  Processors = {p1, p2}
  Boot = p1
  Programs <- Disciplined
  MaxClaims = 1
  AnyUnblock = FALSE
  MaxSpurious = 1
CHECK_DEADLOCK FALSE
SPECIFICATION Spec
INVARIANT JoinAfterExit
INVARIANT NoStrayReady
INVARIANT NoLostWakeup
INVARIANT NoUseAfterFree
INVARIANT OneProcessor
INVARIANT UnblockKept

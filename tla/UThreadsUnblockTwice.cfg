CONSTANTS
  main = main
  t1 = t1
  t2 = t2
  p1 = p1
  p2 = p2
  NoThread = NoThread
  Detached = Detached
  Threads = {main, t1, t2}
  Main = main
  Processors = {p1, p2}
  Boot = p1
  Programs <- FreeUnblocks
  MaxClaims = 1
  AnyUnblock = TRUE
  MaxSpurious = 1
CHECK_DEADLOCK FALSE
SPECIFICATION Spec
INVARIANT OneProcessor

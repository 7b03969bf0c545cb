CONSTANTS
  main = main
  t1 = t1
  t2 = t2
  p1 = p1
  p2 = p2
  NoThread = NoThread
  Detached = Detached
  Threads = {main, t1, t2}
  Main = main
  Processors = {p1, p2}
  Boot = p1
  Programs <- Returning
  MaxClaims = 1
  AnyUnblock = FALSE
  MaxSpurious = 0
CHECK_DEADLOCK FALSE
SPECIFICATION Spec
PROPERTY ReadyRuns
PROPERTY Reclaimed

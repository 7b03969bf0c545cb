CONSTANTS
  Threads = {t1, t2, t3, t4, t5, p}
  Producers = {p}
  Initial = 2
  MaxValue = 3
SPECIFICATION Spec
INVARIANT ValueCountsWaiters
INVARIANT SleeperInPlace
PROPERTY ImplementsCountingSem
PROPERTY WaiterServed

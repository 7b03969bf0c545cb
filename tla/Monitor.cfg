CONSTANTS
  Threads = {t1, t2, t3, t4}
  Conds = {c1, c2}
  NoThread = NoThread
CHECK_DEADLOCK FALSE
SPECIFICATION Spec
INVARIANT TypeOK
INVARIANT Exclusion
INVARIANT HolderTruth
INVARIANT WaiterInPlace
INVARIANT NobodyStranded
PROPERTY ImplementsMesa
PROPERTY Progress

CONSTANTS
  t1 = t1
  t2 = t2
  t3 = t3
  BarrierCond = barrier_cond
  cond0 = cond0
  cond1 = cond1
  NoThread = NoThread
  N = 2
  Party = {t1, t2, t3}
  NUM_ITERATIONS = 2
  Scopes <- OrderlyStarts
CHECK_DEADLOCK FALSE
SPECIFICATION Spec
INVARIANT CountsBack
INVARIANT NobodyAhead
INVARIANT PrintedInOrder
INVARIANT EachRoundReady
INVARIANT CountsMatch
PROPERTY EverybodyReturns

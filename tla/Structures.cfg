CONSTANTS
  Threads = {t1, t2, t3, t4}
  Queues = {q1, q2}
  NULL = NULL
  Size = 80
  Requests = {0, 4, 16, 40}
  Buckets = 3
  Iters = 9
  Values <- Contents
  Elements = {1, 2}
  Nodes = {1, 2, 3}
  Height = 3
  MaxRefs = 2
  MaxElements = 3
  Items = {a, b}
  INITIAL_SIZE = 2
  GROWTH_FACTOR = 2
  MaxLen = 5
  Numbers = {1, 2, 3}
  NotNumber = NotNumber
  Arguments <- Words
  MaxArgs = 5
SPECIFICATION Spec
INVARIANT LinksSpellContent
INVARIANT BlocksTile
INVARIANT DataKept
INVARIANT TestsPass
INVARIANT OwnersCounted
INVARIANT ResultsRight
PROPERTY ImplementsFirstFit

SPECIFICATION Spec
CONSTANTS
  a = a
  b = b
  d = d
  Object = {a, b, d}
  Client = {c1, c2}
  Capacity = 5
  Subscriber = {}
  MaxPending = 1
  Sizes = {1, 4, 6}
  PollLists <- PlainLists
  BlockingLists <- PlainLists
  EvictSizes = {2}
  MaxDeficit = 0
  Overhead = 0
  Fragmentation = FALSE
  MayDie = {"idle", "waiting", "writing"}
  LateSubscribers = FALSE
  MayBreak = FALSE
SYMMETRY ClientSymmetry
CHECK_DEADLOCK FALSE
INVARIANTS
  TypeOK
  LRUExact
  HeldObjectsPinned
  NoLeakedUse
  MemoryUsedBounded
  WaitQueuesExact
PROPERTIES
  OutOfMemoryOnlyWhenExhausted
  BlockingGetReturnsEverything
  KeepsPromise

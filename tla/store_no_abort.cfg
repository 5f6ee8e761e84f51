SPECIFICATION Spec
CONSTANTS
  a = a
  b = b
  d = d
  Object = {a, b, d}
  Client = {c1, c2}
  Capacity = 6
  Subscriber = {}
  MaxPending = 1
  Sizes = {2, 4}
  PollLists <- ListsWithRepeats
  BlockingLists <- OneList
  EvictSizes = {2}
  MaxDeficit = 0
  Overhead = 1
  Fragmentation = TRUE
  MayDie = {"idle"}
  LateSubscribers = FALSE
  MayBreak = FALSE
SYMMETRY ClientSymmetry
CHECK_DEADLOCK FALSE
INVARIANTS
  NeverAborts
  DeadClientsUseNothing
  WaitingGetsLackAnObject

SPECIFICATION Spec
CONSTANTS
  a = a
  b = b
  d = d
  Object = {a, b}
  Client = {c1}
  Capacity = 5
  Subscriber = {s1, s2}
  MaxPending = 2
  Sizes = {2, 4}
  PollLists <- NoLists
  BlockingLists <- NoLists
  EvictSizes = {1}
  MaxDeficit = 0
  Overhead = 0
  Fragmentation = FALSE
  MayDie = {}
  LateSubscribers = FALSE
  MayBreak = TRUE
SYMMETRY ClientSymmetry
CHECK_DEADLOCK FALSE
INVARIANTS
  SubscribersLearnTheStore
  NotificationsAlternate

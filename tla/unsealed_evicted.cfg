SPECIFICATION Spec
CONSTANTS
  a = a
  b = b
  d = d
  Object = {a, b}
  Client = {c1, c2}
  Capacity = 5
  Subscriber = {}
  MaxPending = 1
  Sizes = {2, 4}
  PollLists <- NoLists
  BlockingLists <- NoLists
  EvictSizes = {}
  MaxDeficit = 0
  Overhead = 0
  Fragmentation = FALSE
  MayDie = {"writing"}
  LateSubscribers = FALSE
  MayBreak = FALSE
SYMMETRY ClientSymmetry
CHECK_DEADLOCK FALSE
INVARIANTS
  NeverAborts

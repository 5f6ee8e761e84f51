SPECIFICATION FairSpec
CONSTANTS
  a = a
  b = b
  d = d
  Object = {a, b}
  Client = {c1, c2}
  Capacity = 5
  Subscriber = {s1}
  MaxPending = 1
  Sizes = {2, 4}
  PollLists <- NoLists
  BlockingLists <- OneList
  EvictSizes = {}
  MaxDeficit = 0
  Overhead = 0
  Fragmentation = TRUE
  MayDie = {"waiting"}
  LateSubscribers = FALSE
  MayBreak = FALSE
CHECK_DEADLOCK FALSE
PROPERTIES
  CreateTerminates
  TimedGetReturns
  SealedIsAnnounced

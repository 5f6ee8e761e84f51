SPECIFICATION Spec
CONSTANTS
  NoTask = NoTask
  LateWorker = LateWorker
  t1 = t1
  t2 = t2
  t3 = t3
  x = x
  y = y
  d1 = d1
  d2 = d2
  Task = {t1, t2, t3}
  Object = {x, y}
  Driver = {d1, d2}
  Worker = {w1, w2, w3}
  Args <- ChainArgs
  Returns <- ChainReturns
  DriverOf <- TwoDrivers
  Needs <- MixedNeeds
  static_resources <- Node
  GlobalSchedulerExists = TRUE
  InitialWorkers = {w1}
  Evictable = {x, y}
  Failures = {"worker", "child", "reply", "driver"}
SYMMETRY WorkerSymmetry
CHECK_DEADLOCK FALSE
INVARIANTS
  QueuesTrackObjects
  NoWorkForRemovedDrivers
  NeverAborts

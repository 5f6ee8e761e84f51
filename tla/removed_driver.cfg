SPECIFICATION Spec
CONSTANTS
  NoTask = NoTask
  LateWorker = LateWorker
  t1 = t1
  t2 = t2
  t3 = t3
  x = x
  y = y
  d1 = d1
  d2 = d2
  Task = {t1, t2}
  Object = {x}
  Driver = {d1}
  Worker = {w1, w2}
  Args <- PairArgs
  Returns <- PairReturns
  DriverOf <- PairDriver
  Needs <- PairNeeds
  static_resources <- Node
  GlobalSchedulerExists = TRUE
  InitialWorkers = {w1}
  Evictable = {}
  Failures = {"driver", "lost", "worker"}
CHECK_DEADLOCK FALSE
INVARIANTS
  NeverAborts

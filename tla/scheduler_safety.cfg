SPECIFICATION Spec
CONSTANTS
  NoTask = NoTask
  LateWorker = LateWorker
  t1 = t1
  t2 = t2
  t3 = t3
  x = x
  y = y
  d1 = d1
  d2 = d2
  Task = {t1, t2, t3}
  Object = {x}
  Driver = {d1, d2}
  Worker = {w1, w2}
  Args <- ForkArgs
  Returns <- ForkReturns
  DriverOf <- OneDriver
  Needs <- MixedNeeds
  static_resources <- Node
  GlobalSchedulerExists = TRUE
  InitialWorkers = {w1}
  Evictable = {x}
  Failures = {"worker", "lost"}
CHECK_DEADLOCK FALSE
INVARIANTS
  TypeOK
  WorkersPartitioned
  ResourcesConserved
  InOnePlace
  TaskTableAccurate
PROPERTIES
  OversubscribedOnlyByUnblocking

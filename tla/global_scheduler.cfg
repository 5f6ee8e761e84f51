SPECIFICATION FairSpec
CONSTANTS
  t1 = t1
  t2 = t2
  s1 = s1
  s2 = s2
  Task = {t1, t2}
  Scheduler = {s1, s2}
  Needs <- TaskNeeds
  Static <- Nodes
  QueueLengths = {1}
  MaxRecentTasks = 1
  NUM_HEARTBEATS_TIMEOUT = 1
CHECK_DEADLOCK FALSE
INVARIANTS
  TypeOK
  TasksAccountedFor
  ListMatchesMap
  RemovedStaysRemoved
PROPERTIES
  WaitingTaskPlaced
  DeadIsRemoved

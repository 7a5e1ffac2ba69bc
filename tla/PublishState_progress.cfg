CONSTANTS
  Schedules = {n1, n2}
  Workers = {w1}
  NoWorker = NoWorker
  BatchSize = 2
  MaxLeases = 2
  MaxCancels = 1
  LocalIds = {j1, j2}
  LocalWorkers = {lw1}
  Followers = {f1}
  QueueCapacity = 1
  Retention = 2
  NoJob = NoJob
SPECIFICATION ProgressSpec
CHECK_DEADLOCK FALSE
INVARIANTS
  PromiseKept
PROPERTIES
  ImplementsPublishOnce
  EveryScheduleMovesOn
  FollowerSeesEnd

CONSTANTS
  Schedules = {n1}
  Workers = {w1}
  NoWorker = NoWorker
  BatchSize = 1
  MaxLeases = 1
  MaxCancels = 0
SPECIFICATION Spec
CHECK_DEADLOCK FALSE
INVARIANT
  FailedMeansNotPublished

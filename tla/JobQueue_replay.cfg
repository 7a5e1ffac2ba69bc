CONSTANTS
  Jobs = {j1}
  Slots = {x1}
  MaxRetries = 0
  Capacity = 1
  FaultKinds = {}
  MaxEntries = 2
  MaxDrops = 0
SPECIFICATION Spec
CHECK_DEADLOCK FALSE
PROPERTY
  ReplayedJobRuns

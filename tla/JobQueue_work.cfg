CONSTANTS
  Jobs = {j1, j2}
  Slots = {x1, x2}
  MaxRetries = 1
  Capacity = 1
  FaultKinds = {}
  MaxEntries = 3
  MaxDrops = 1
SPECIFICATION FairSpec
CHECK_DEADLOCK FALSE
INVARIANTS
  NoJobForgotten
PROPERTIES
  EveryJobEnds

CONSTANTS
  Events = {e1}
  Dispatchers = {w1, w2}
  BatchSize = 2
  MaxAttempts = 2
  MaxReplays = 0
SPECIFICATION FairSpec

CHECK_DEADLOCK FALSE
PROPERTIES
  ExhaustedIsSettled

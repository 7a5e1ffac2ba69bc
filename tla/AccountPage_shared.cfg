SPECIFICATION PageSpec
CONSTANTS
  PageOps = {"a", "b"}
  PageWork <- PageBatch
  Browsers = {1, 2}
  MaxLapses = 0
  StrictIdentity = TRUE
  NoBrowser = 0
  Nobody = "nobody"
INVARIANTS ApprovedContentIsSent
CHECK_DEADLOCK FALSE

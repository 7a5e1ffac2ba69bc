SPECIFICATION Spec
CONSTANTS
  Drafts = {d1, d2}
  Contents = {d1, d2}
  ContentOf <- OwnContent
  Callers = {}
  Schedules = {s1, s2}
  None = None
  Distributed = TRUE
  DailyLimit = 1
  MaxApprovals = 1
INVARIANTS SubmitsWithinDailyLimit
CHECK_DEADLOCK FALSE

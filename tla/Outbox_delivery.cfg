CONSTANTS
  Events = {e1, e2}
  Dispatchers = {w1, w2}
  BatchSize = 2
  MaxAttempts = 2
  MaxReplays = 1
  Searches = {"c1", "c2"}
  LiveProviders <- OneLive
  Wishes <- AskedFor
  Findings <- NothingOrNote
  Qualities <- GoodOfFew
  CacheEntries = 1
  SharedCache = TRUE
  FixtureFallback = FALSE
  Nobody = Nobody
SPECIFICATION DeliverySpec
CHECK_DEADLOCK FALSE
INVARIANTS
  HostResultsStayNear
PROPERTIES
  DeliveredStays
  EveryEventSettles
  EverySearchEnds

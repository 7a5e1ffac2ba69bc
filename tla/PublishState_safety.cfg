CONSTANTS
  Schedules = {n1}
  Workers = {w1, w2, w3}
  NoWorker = NoWorker
  BatchSize = 1
  MaxLeases = 3
  MaxCancels = 2
  PageOps = {"a", "b", "c"}
  PageWork <- PageTogether
  Browsers = {1, 2}
  MaxLapses = 1
  StrictIdentity = TRUE
  NoBrowser = 0
  Nobody = "nobody"
  Requests = {"r1", "r2", "r3"}
  Tenants = {"t1", "t2"}
  Providers <- OneProvider
  Workload <- MixedWorkload
  MaxInflight = 2
  OperationMax = 1
  TenantMax = 1
  ProviderMax = 1
  MaxWaiters = 1
  MaxTracked = 1
  FailureThreshold = 1
  Posts = {"n1", "n2"}
  Owners = {"a1", "a2"}
  Instants = {1, 2}
  Unsought = {1}
  Zones = {0, 2}
  Reviewers = {"v1"}
  EnoughPeers = 1
  Weekdays <- Weekend
  FirstDays = {6}
  Horizons = {7}
  Paces = {2}
  Themes <- TwoTopicsOrNone
  Pillars <- NoPillars
  Histories <- FallingOrSingle
  MaxSnapshots = 3
  MaxRetros = 1
  NoReview = NoReview
  MaxWorkers = 2
  Processes = {1, 2}
  LockUsers = {"u1", "u2", "u3"}
  ProcessOf <- ServedBy
  Profiles = {"personal", "enterprise"}
  FlagSets <- FlagChoices
  Unlocked = Unlocked
SPECIFICATION SafetySpec
SYMMETRY Symmetry
CHECK_DEADLOCK FALSE
INVARIANTS
  AtMostOneSubmit
  SubmittedNeverLooksUnsent
  OwnUnlessMeddled
  NoStrayBrowser
  TenantShare
  LocksHoldAcrossProcesses
  JudgedOnNewest
  ProbeIsReal
PROPERTIES
  AcceptedCancelBarsVerdict

SPECIFICATION ComponentsSpec
CONSTANTS
  Drafts = {d1, d2, d3, d4}
  Contents = {d1, d3, d4}
  ContentOf <- OwnOrShared
  Callers = {c1}
  Schedules = {s1}
  None = None
  Distributed = FALSE
  DailyLimit = 2
  SharedDrafts = {d1, d2}
  SharedContents = {k}
  SharedSchedules = {s1, s2}
  MaxApprovals = 1
  Processes = {"w1", "w2"}
  Actors = {"u1", "u2", "u3"}
  Phishable = {"u3"}
  Quorums = {2}
  StrictMfa = TRUE
  MaxLines = 2
  NoProcess = NoProcess
  NoActor = NoActor
  Reservations = {"r1", "r2", "r3"}
  Generated = {"r1"}
  Estimates = {2}
  Price = 1
  DailyCostLimit = 2
  MonthlyCostLimit = 3
  DaysPerMonth = 2
  LastDay = 1
  Stores = {"s1", "s2"}
  PoolCallers = {"c1", "c2", "c3"}
  MaxReferences = 2
  UserIds = {"i1"}
  UserNames = {"n1"}
  ManagedRoles = {"admin"}
  TokenClaims = {{}}
  SigningKeys = {"k1", "k2"}
  Servers = {"w1", "w2"}
  Verifiers = {"v1"}
  MaxUsers = 2
  RequireManaged = TRUE
  NobodyYet = "nobody"
  Askers = {"c1", "c2", "c3"}
  HostOf <- ProcessOfAsker
  Subjects = {"s1", "s2"}
  Point <- SubjectPoints
  Circle = 4
  Offers <- EvenOrSkewed
  MinSamples = 1
  Margins = {0, 1}
  MaxOffers = 2
  MaxOutcomes = 2
  Absent = Absent
  Senders = {"c1", "c2", "c3"}
  ProcessOf <- ProcessOfSender
  Arms = {"x", "y"}
  Dims = {1, 2}
  MaxRewards = 3
  NoArmRow = NoArmRow
  AssetServers = {"p1", "p2"}
  Kinds = {"json", "png"}
  MaxUploads = 2
  Mirrored = TRUE
  NoAsset = NoAsset
  Tasks = {"t1", "t2", "t3"}
  PodOf <- PodOfTask
  MaxSyncs = 3
  MaxReports = 2
  Quiet = Quiet
  Claims = {"c1"}
  Providers = 1
  MaxNotes = 2
  Carried = 1
  MaxEdits = 1
  Asked <- NoteAndPublication
  Models = {"m1"}
  Allowed <- OneModel
  MfaTenants = {"t1"}
  Unnamed = "unnamed"
  MaxCalls = 3
  MaxTasks = 1
  Jobs = {j1}
  Slots = {x1, x2}
  MaxRetries = 1
  Capacity = 1
  FaultKinds = {"late", "lost"}
  MaxEntries = 3
  MaxDrops = 0
INVARIANTS
  BoundToItsRowWhenDistributed
  DailyLimitKept
  ApprovalConsumedOnceLocally
  ApprovedByQuorum
  VotesStand
  AllButLastLineVerifies
  BudgetKept
  PoolOutlivesItsStores
  AdmittedAsProvisioned
  LapsedKeyIsRefused
  AnswersAgree
  RewardsOutliveUpdates
  RecordedFileIsWhole
  AnsweredSyncShows
  ForgottenTasksStop
PROPERTIES
  
  SuspensionStopsNewWork
  CancelBarsCompletion
CHECK_DEADLOCK FALSE

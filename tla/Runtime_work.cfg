CONSTANTS
  Tasks = {t1, t2}
  Workers = {w1, w2}
  NoWorker = NoWorker
  BatchSize = 2
  MaxAttempts = 2
  Requests = {"r1", "r2"}
  Tenants = {"t1", "t2"}
  Providers <- OneProvider
  Workload <- NestedWorkload
  MaxInflight = 2
  OperationMax = 1
  TenantMax = 2
  ProviderMax = 1
  MaxWaiters = 1
  MaxTracked = 1
  FailureThreshold = 1
SPECIFICATION RuntimeSpec
CHECK_DEADLOCK FALSE
PROPERTIES
  EndIsFinal
  EveryTaskSettles
  EveryRequestEnds

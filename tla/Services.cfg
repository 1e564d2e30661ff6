SPECIFICATION ServicesSpec
CONSTANTS
  Subscription = {"s1", "s2"}
  MaxPublished = 1
  MaxPosts = 2
  Client = {1, 2, 3}
  MaxInFlight = 2
  ChainLength = 2
  Asker = {"a", "b"}
  FailureThreshold = 2
  SuccessThreshold = 2
  OpenFor = 1
  MaxTicks = 1
  MaxCalls = 2
  MaxRepeats = 1
  McpServer = {1, 2}
  MaxConnections = 3
  QueueWorker = {1, 2}
  MaxAdds = 3
  MaxStalls = 1
  MaxForgotten = 1
  SandboxUser = {1, 2}
  MaxContainers = 2
  MaxRuntimeDeaths = 1
  MaxOperatorRules = 1
  Use = {"a", "b"}
  UNSET = UNSET
  Limits = {0, 2}
  NoLimit = NoLimit
  Overrides = {}
  NoOverride = NoOverride
  MaxRecoverySteps = 2
  MaxSessions = 2
  BatchSize = 3
  Concurrency = 2
  AskedSteps = 3
  MaxVersion = 1
  Contender = {1, 2, 3}
  MaxAcquires = 3
  MaxLapses = 1
  Creator = {1, 2}
  Admitted = {1, 2, 3}
  MaxConcurrentRuns = 1
  MaxPerOrganization = 2
  MaxQueueDepth = 2
  WorkerConcurrency = 2
  MaxWorkerAttempts = 1
  MaxAskedAgain = 1
INVARIANTS ServicesTypeOK AuthorizationOnlyNarrows DispatchedOnce LoadIsBounded FailuresAreContained AnswersFindTheirCall RecoveryIsBounded OrderIsKept
PROPERTIES EverythingSettles
CHECK_DEADLOCK FALSE

CONSTANTS
  RunState <- MCRunState
  Terminal <- MCTerminal
  Path <- MCPath
  Nobody = Nobody
  None = None
  t1 = t1
  t2 = t2
  t3 = t3
  w1 = w1
  w2 = w2
  api = api
  c1 = c1
  c2 = c2
  id1 = id1
  id2 = id2
  WorkerId = {id1, id2}
  Thread = {t1, t2}
  Process = {api, w1, w2}
  HostOf <- MCHostOf
  MaxSteps = 1
  MaxRecovery = 1
  SetupFails = FALSE
  SlotsRunOut = FALSE
  LockExpires = TRUE
  Caller = {}
  SiteOf <- MCSiteOf
  CallKinds <- NoCalls
  Embedded = FALSE
  Worker = {w1, w2}
  Successor <- NoSuccessor
  IdOf <- FreshIds
  MaxAttempts = 2
  MaxClaims = 2
  BackpressureRefuses = FALSE
  RunsOutliveClaims = TRUE
  MayCrash = {}
  MayStop = {}
SPECIFICATION Spec
INVARIANTS OneExecution
CHECK_DEADLOCK FALSE

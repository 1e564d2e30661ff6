CONSTANTS
  RunState <- MCRunState
  Terminal <- MCTerminal
  Path <- MCPath
  Nobody = Nobody
  None = None
  t1 = t1
  t2 = t2
  t3 = t3
  w1 = w1
  w2 = w2
  api = api
  c1 = c1
  c2 = c2
  id1 = id1
  id2 = id2
  WorkerId = {id1, id2}
  Thread = {t1}
  Process = {api, w1}
  HostOf <- MCHostOf
  MaxSteps = 1
  MaxRecovery = 1
  SetupFails = TRUE
  SlotsRunOut = TRUE
  LockExpires = TRUE
  Caller = {c1}
  SiteOf <- MCSiteOf
  CallKinds <- AllCalls
  Embedded = FALSE
  Worker = {w1}
  Successor <- NoSuccessor
  IdOf <- FreshIds
  MaxAttempts = 2
  MaxClaims = 2
  BackpressureRefuses = TRUE
  RunsOutliveClaims = TRUE
  MayCrash = {w1}
  MayStop = {w1}
SPECIFICATION Spec
INVARIANTS SavedNeverAhead BlindIsBounded
CHECK_DEADLOCK FALSE

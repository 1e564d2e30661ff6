CONSTANTS
  RunState <- MCRunState
  Terminal <- MCTerminal
  Path <- MCPath
  WorkerId = {}
  Nobody = Nobody
  t1 = t1
  t2 = t2
  api = api
  c1 = c1
  c2 = c2
  c3 = c3
  Thread = {t1, t2}
  Process = {api}
  HostOf <- MCHostOf
  None = None
  MaxSteps = 1
  MaxRecovery = 1
  SetupFails = FALSE
  SlotsRunOut = TRUE
  LockExpires = FALSE
  Caller = {c1, c2, c3}
  SiteOf <- MCSiteOf
  CallKinds <- AllButRestore
  MaxCrashes = 1
  Embedded = TRUE
SPECIFICATION Spec
INVARIANTS TypeOK OneSession SavedNeverAhead NotStranded
PROPERTIES FinishedMovesOnlyByRetry
SYMMETRY Symmetry
CHECK_DEADLOCK FALSE

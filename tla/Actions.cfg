CONSTANTS
  s1 = s1
  s2 = s2
  read = read
  push = push
  o1 = o1
  o2 = o2
  None = None
  Session = {s1, s2}
  Action = {read, push}
  Repeatable = {read}
  Setups <- AllSetups
  Operator = {o1, o2}
  MaxCalls = 2
  MaxAttempts = 2
  MaxStarts = 2
SPECIFICATION Spec
INVARIANTS TypeOK UniqueKeyFences GatedNeedsGrant AskedOnce
PROPERTIES SettledIsNotRedone
SYMMETRY Symmetry
CHECK_DEADLOCK FALSE

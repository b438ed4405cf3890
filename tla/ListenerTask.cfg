CONSTANTS
  a = a
  b = b
  k1 = k1
  Listeners <- MCListeners
  Tokens = {k1}
  TokenOf <- MCTokenOf
  Times <- MCTimes
  Faulty = {b}
  Closures = {a}
  MaxHandled = 3
SPECIFICATION Spec
CHECK_DEADLOCK FALSE
INVARIANTS
  TypeOK
  AtMostTimes
  AtMostOneLate
  SelectsInTime
PROPERTIES
  CancelRunsAfter
  LimitEndsTask

CONSTANTS
  b1 = b1
  b2 = b2
  b3 = b3
  p = p
  l1 = l1
  l2 = l2
  c1 = c1
  c2 = c2
  k1 = k1
  k2 = k2
  A = A
  Buses = {b1, b2}
  First = b1
  Parallel = FALSE
  Emitters = {p}
  Listeners = {l1}
  Tokens = {k1}
  TokenOf <- MCTokenOf
  Times <- MCNoTimes
  Faulty = {l1}
  Closures = {l1}
  Owned <- MCOwnsNothing
  Calls = {c1}
  Via <- MCVia
  Types = {A}
  TypeOf <- MCTypeOf
  Capacities = {2}
  MaxEvents = 1
SPECIFICATION TidySpec
CHECK_DEADLOCK FALSE
INVARIANT CloseTriggersDrain
PROPERTY DrainTerminates

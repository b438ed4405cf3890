CONSTANTS
  b1 = b1
  b2 = b2
  b3 = b3
  p = p
  l1 = l1
  l2 = l2
  c1 = c1
  c2 = c2
  k1 = k1
  k2 = k2
  A = A
  Buses = {b1, b2}
  First = b1
  Parallel = FALSE
  Emitters = {}
  Listeners = {l1}
  Tokens = {k1}
  TokenOf <- MCTokenOf
  Times <- MCNoTimes
  Faulty = {}
  Closures = {}
  Owned <- MCOwnsNothing
  Calls = {}
  Via <- MCVia
  Types = {A}
  TypeOf <- MCTypeOf
  Capacities = {2}
  MaxEvents = 0
SPECIFICATION Spec
CHECK_DEADLOCK FALSE
INVARIANT DrainLeavesNoTask

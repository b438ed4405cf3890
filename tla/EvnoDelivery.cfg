CONSTANTS
  b1 = b1
  b2 = b2
  b3 = b3
  p = p
  l1 = l1
  l2 = l2
  c1 = c1
  c2 = c2
  k1 = k1
  k2 = k2
  A = A
  Buses = {b1, b2}
  First = b1
  Parallel = FALSE
  Emitters = {p}
  Listeners = {l1, l2}
  Tokens = {k2}
  TokenOf <- MCOneToken
  Times <- MCTimes
  Faulty = {l2}
  Closures = {}
  Owned <- MCOwnsClone
  Calls = {c1, c2}
  Via <- MCVia
  Types = {A}
  TypeOf <- MCTypeOf
  Capacities = {2}
  MaxEvents = 2
SPECIFICATION Spec
CHECK_DEADLOCK FALSE
INVARIANTS
  DrainWaitsForKnown
  DrainOwed
  TypeOK
  PassedOwesNothing
  ZeroLossStartup
  StreamEndsComplete
PROPERTY KeepsPromise

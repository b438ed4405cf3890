CONSTANTS
  mb = mb
  cb = cb
  em = em
  a1 = a1
  a2 = a2
  b = b
  o = o
  m = m
  k = k
  f = f
  w = w
  h = h
  viaBus = viaBus
  viaClone = viaClone
  viaEmitter = viaEmitter
  alsoB = alsoB
  A = A
  B = B
  Buses = {mb, cb}
  First = mb
  Parallel = TRUE
  Emitters = {em}
  Listeners <- MCListeners
  Tokens <- MCListeners
  TokenOf <- MCTokenOf
  Times <- MCTimes
  Faulty = {f}
  Closures <- MCClosures
  Owned <- MCOwned
  Calls <- MCCalls
  Via <- MCVia
  Types = {A, B}
  TypeOf <- MCTypeOf
  Capacities = {2, 4, 8}
  MaxEvents = 6
SPECIFICATION SpecPrograms
CHECK_DEADLOCK FALSE
INVARIANTS
  AssertionsHold
  EmitOwed
PROPERTIES
  EmitReturns
  EventsHandled
  ProgramsEnd

CONSTANTS
  b1 = b1
  b2 = b2
  b3 = b3
  Buses <- MCBuses
  First = b1
  Parallel = TRUE
SPECIFICATION Spec
CHECK_DEADLOCK FALSE
INVARIANTS
  TypeOK
  NotifiedLast
  DrainAfterLastDrop

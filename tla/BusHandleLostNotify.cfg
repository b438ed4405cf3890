CONSTANTS
  b1 = b1
  b2 = b2
  b3 = b3
  Buses <- MCTwoBuses
  First = b1
  Parallel = TRUE
SPECIFICATION TidySpec
CHECK_DEADLOCK FALSE
PROPERTY DrainTerminates

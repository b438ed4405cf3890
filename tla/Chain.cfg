CONSTANTS
  c1 = c1
  c2 = c2
  p = p
  s1 = s1
  s2 = s2
  t1 = t1
  t2 = t2
  Chains = {c1, c2}
  First = c1
  Emitters = {p}
  Steps = {s1, s2}
  Tasks = {t1, t2}
  MaxDepth = 2
  MaxEvents = 3
SPECIFICATION Spec
CHECK_DEADLOCK FALSE
INVARIANTS
  TypeOK
  LatestStepFirst
  NumbersUsedOnce
  TaskOrder

CONSTANTS
  t1 = t1
  t2 = t2
  t3 = t3
  w1 = w1
  w2 = w2
  Tasks <- MCTasks
  Waiters <- MCWaiters
SPECIFICATION Spec
INVARIANTS
  TypeOK
  CountIsHeld
  NoLostWakeup
PROPERTY KeepsPromise

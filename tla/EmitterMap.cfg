CONSTANTS
  Users = {u1, u2, u3}
  Types = {A, B}
  Rings = {r1, r2, r3, r4, r5}
  None = None
SYMMETRY MCSymmetry
SPECIFICATION Spec
CHECK_DEADLOCK FALSE
INVARIANTS
  TypeOK
  OneRing
  DowncastSucceeds
  NoStrayPublisher
PROPERTY KeepsPromise

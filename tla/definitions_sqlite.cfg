SPECIFICATION Spec
CONSTANTS
  Requests = {r1, r2, r3}
  Bodies <- AllBodies
  Horizon = 3
  SingleWriter = TRUE
  None = None
SYMMETRY RequestSymmetry
INVARIANTS
  TypeOK
  OneOpenVersion
  RejectionsWriteNothing
  NoOverlap
  ClosesAreMade
PROPERTIES
  SupersessionIsAtomic
CHECK_DEADLOCK FALSE

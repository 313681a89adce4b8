SPECIFICATION Spec
CONSTANTS
  Requests = {r1, r2, r3}
  Bodies <- VoidBodies
  Keys = {k1, k2, k3, k4, k5, k6, k7}
  ClientIds = {c1}
  Obligations = {o1, o2}
  Expected = {o2}
  KnownAccounts = {a1}
  SingleWriter = TRUE
  AckFirst = FALSE
  MaxCrashes = 0
  UnknownId = UnknownId
  None = None
  k1 = k1
  k2 = k2
  k3 = k3
  k4 = k4
  k5 = k5
  k6 = k6
  k7 = k7
  c1 = c1
  o1 = o1
  o2 = o2
  a1 = a1
INVARIANT OneVoidPerTarget
CHECK_DEADLOCK FALSE

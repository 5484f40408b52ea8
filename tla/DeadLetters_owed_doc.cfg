SPECIFICATION Spec
CONSTANTS
  m1 = m1
  m2 = m2
  g1 = g1
  Messages = {m1, m2}
  Gateways = {g1}
  MaxPending = 2
  DiskFails = FALSE
  MaxFaults = 1
CHECK_DEADLOCK FALSE
INVARIANTS
  OwedAfterRestart

SPECIFICATION Spec
CONSTANTS
  m1 = m1
  m2 = m2
  g1 = g1
  g2 = g2
  Messages = {m1, m2}
  Gateways = {g1, g2}
  MaxPending = 1
  DiskFails = TRUE
  MaxFaults = 1
CHECK_DEADLOCK FALSE
INVARIANTS
  TypeOK
  

  
  

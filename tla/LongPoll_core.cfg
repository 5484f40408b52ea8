SPECIFICATION Spec
CONSTANTS
  c1 = c1
  c2 = c2
  g1 = g1
  n1 = n1
  n2 = n2
  m1 = m1
  m2 = m2
  m3 = m3
  Consumers = {c1, c2}
  Gateways = {g1}
  Nodes = {n1, n2}
  Messages = {m1, m2, m3}
  At <- MCAt
  Home <- MCHome
  Behind <- MCBehind
  Buffer = 1
  MaxPolls = 2
  MaxFaults = 1
CHECK_DEADLOCK FALSE
INVARIANTS
  TypeOK
  NoLostWake
PROPERTIES
  WakesASleeper
  Served

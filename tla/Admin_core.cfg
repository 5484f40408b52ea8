SPECIFICATION Spec
CONSTANTS
  a = a
  b = b
  n1 = n1
  n2 = n2
  g1 = g1
  g2 = g2
  c1 = c1
  c2 = c2
  Queues = {a, b}
  Nodes = {n1, n2}
  Homes <- MCHomes
  Gateways = {g1, g2}
  Clients = {c1, c2}
  None = None
  Absent = Absent
  MaxOps = 4
  MaxFaults = 1
SYMMETRY Alike
CHECK_DEADLOCK FALSE
INVARIANTS
  TypeOK
  DeadLettersHaveAPlace
  NewNameIsEmpty

SPECIFICATION Spec
CONSTANTS
  n1 = n1
  n2 = n2
  d = d
  s = s
  Nodes = {n1, n2}
  Keys = {s}
  Queues = {d}
  QueueOf <- MCQueueOf
  Width <- MCWidth
  Score <- MCScore
  MaxScore = 3
  a1 = a1
  a2 = a2
  a3 = a3
  Addrs = {a1, a2, a3}
  Listens <- MCListens
  Gateways = {1}
  None = None
  Settle = 1
  MaxPerPass = 2
  MaxStarts = 2
  MaxStops = 2
  MaxFaults = 1
CHECK_DEADLOCK FALSE
INVARIANTS
  TypeOK
  ListWasTrue
  KeepsItsKey
PROPERTIES
  Converges

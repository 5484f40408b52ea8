SPECIFICATION Spec
CONSTANTS
  n1 = n1
  n2 = n2
  g1 = g1
  g2 = g2
  m1 = m1
  None = None
  Nodes = {n1, n2}
  Movers = {g1, g2}
  Reconcilers = {g2}
  Routers = {g2}
  Messages = {m1}
  Kinds = {FALSE, TRUE}
  MaxMoves = 2
  MaxFaults = 1
PROPERTIES
  AbandonedMovesEnd

SPECIFICATION Spec
CONSTANTS
  p1 = p1
  p2 = p2
  c1 = c1
  Nobody = Nobody
  NumSlots = 1
  Producers = {p1, p2}
  Consumers = {c1}
  Priorities = {25}
  Movable = {1}
  MaxDepth = 1
  MaxTries = 2
  HasTTL = TRUE
  MaxMessages = 2
  MaxAbsorbed = 1
SYMMETRY ProducersAlike
VIEW Counted
INVARIANTS
  TypeOK
  CapHolds
  DepthAccounted
  LostOnlyIfLate

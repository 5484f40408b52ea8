SPECIFICATION Spec
CONSTANTS
  p1 = p1
  c1 = c1
  c2 = c2
  Nobody = Nobody
  NumSlots = 2
  Producers = {p1}
  Consumers = {c1, c2}
  Priorities = {25, 75}
  Movable = {}
  MaxDepth = 2
  MaxTries = 1
  HasTTL = FALSE
  MaxMessages = 2
  MaxAbsorbed = 0
SYMMETRY ConsumersAlike
INVARIANTS
  NotTwice

  

SPECIFICATION Spec
CONSTANTS
  g1 = g1
  g2 = g2
  Groups = {g1, g2}
  Priorities = {25, 75}
  TTLs = {0, 1}
  Delays = {0, 1}
  Visibility = 1
  MaxRetries = 2
  HasDeadLetter = TRUE
  HeadScanLimit = 2
  MaxMessages = 2
  MaxEpoch = 3
  MaxTime = 2
SYMMETRY Symmetry
VIEW State
INVARIANTS
  TypeOK
  LockedByOneLease
  NothingStranded
  IndexExact
  Conserved
  GaugesExact
  NoIdleGroups
PROPERTIES
  OrderKept
  KeepsPromise

SPECIFICATION Spec
CONSTANTS
  t1 = t1
  t2 = t2
  Nothing = Nothing
  Threads = {t1, t2}
  Messages = {1, 2}
  SyncModes = {"always", "interval"}
  MaxAttempts = 2
  MaxOps = 4
  DiskFills = TRUE
SYMMETRY Goroutines
INVARIANTS
  TypeOK
  
  StaysGone
  AttemptsKept
  ReplaysOnce
  CommitGoesOn

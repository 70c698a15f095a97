SPECIFICATION Spec
CONSTANTS
  Keys = {k1}
  Transfers = {t1, t2}
  GlobusTasks = {g1, g2, g3}
  Rakes = {r1, r2}
  NoTransfer = NoTransfer
  NoTask = NoTask
  MaxFaults = 2
  MaxRetries = 1
SYMMETRY Symmetry
INVARIANTS
  TypeOK
  
  CopiedTwiceOnlyIfDisturbed
PROPERTY ImplementsPromise
CHECK_DEADLOCK FALSE

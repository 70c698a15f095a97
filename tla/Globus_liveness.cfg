SPECIFICATION FairSpec
CONSTANTS
  Keys = {k1, k2}
  Transfers = {t1, t2}
  GlobusTasks = {g1, g2, g3}
  Rakes = {r1}
  NoTransfer = NoTransfer
  NoTask = NoTask
  MaxFaults = 1
  MaxRetries = 0
PROPERTY KeySettles
CHECK_DEADLOCK FALSE

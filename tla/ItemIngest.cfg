SPECIFICATION MCSpec
CONSTANTS
  i1 = i1
  i2 = i2
  m1 = m1
  m2 = m2
  Rows = {d1, d2, d3}
  MaxAttempts = 1
  Items = {i1, i2}
  Flows = {w1, w2}
  Managers = {m1, m2}
  None = None
  MaxFaults = 1
INVARIANTS
  TypeOK
  IngestedIsHeld
  IngestedOnce
  IngestIsRecorded
PROPERTY RequestsSettle
CHECK_DEADLOCK FALSE

SPECIFICATION FairSpec
CONSTANTS
  Keys = {k1}
  Ingests = {i1, i2}
  Deletes = {d1}
  Foreign = Foreign
  None = None
  Rows <- MCRows
  MaxAttempts = 2
  AllowDelete = TRUE
  MaxFaults = 3
INVARIANTS
  TypeOK
  
PROPERTIES
  ContentIsKept
  EveryRequestAnswered
CHECK_DEADLOCK FALSE

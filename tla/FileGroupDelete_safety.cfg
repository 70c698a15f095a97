SPECIFICATION Spec
CONSTANTS
  Rows = {d1, d2, d3}
  Requests = {r1, r2}
  MaxAttempts = 1
  MaxFaults = 1
SYMMETRY Symmetry
INVARIANTS
  TypeOK
  
  NothingLostUnapproved
  
  NoStrandedDeletion
CHECK_DEADLOCK FALSE

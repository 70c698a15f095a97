SPECIFICATION ApprovedSpec
CONSTANTS
  Rows = {d1, d2, d3}
  Requests = {r1, r2}
  MaxAttempts = 1
  MaxFaults = 1
PROPERTIES
  
  BegunDeletionEnds
CHECK_DEADLOCK FALSE

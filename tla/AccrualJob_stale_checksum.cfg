SPECIFICATION Spec
CONSTANTS
  Rows = {d1, d2, d3}
  Requests = {r1, r2}
  Keys = {k1}
  DirKeys = {}
  CopyPaths = {"copying"}
  MaxAttempts = 1
  MaxFaults = 0
  MaxAssessments = 1
SYMMETRY RowSymmetry
INVARIANT CompletedIsAssessed
CHECK_DEADLOCK FALSE

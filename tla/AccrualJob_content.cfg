SPECIFICATION Spec
CONSTANTS
  Rows = {d1, d2, d3}
  Requests = {r1, r2}
  Keys = {k1, k2}
  DirKeys = {k2}
  CopyPaths = {"copying", "send_copy_messages"}
  MaxAttempts = 1
  MaxFaults = 1
  MaxAssessments = 1
SYMMETRY RowSymmetry
INVARIANTS
  TypeOK
  NoStrandedAccrual
  CopyOnlyAfterAdminApproval
  ConcludedBeforeGone
  
  
PROPERTY OverwriteOnlyIfAllowed
CHECK_DEADLOCK FALSE

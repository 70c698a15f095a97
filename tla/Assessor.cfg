SPECIFICATION FairSpec
CONSTANTS
  Files = {f1}
  Elements = {1, 2, 3}
  Sizes = {"small", "medium", "large"}
  GroupLimit <- MCGroupLimit
  Batches = {b1}
  Handlers = {h1, h2}
  MaxFaults = 1
INVARIANTS
  TypeOK
  
  
  OnlyFailuresLose
 
CHECK_DEADLOCK FALSE

SPECIFICATION MCSpec
CONSTANTS
  root = root
  sub = sub
  f = f
  g = g
  i1 = i1
  i2 = i2
  i3 = i3
  Ids <- MCIds
  RootId = i1
  Paths <- MCPaths
  RootPath = root
  ParentPath <- MCParentPath
  Files <- MCFiles
  Folder <- MCFolder
  Sizes = {1}
  Group = Group
  None = None
  Rows = {j1, j2, j3}
  MaxAttempts = 1
  Accrued = {g}
  Direct = {f, g}
  Requests = {q}
  Accrual = Accrual
  MaxFaults = 1
INVARIANTS
  TypeOK
  StatisticsAreTrue
  
 
CHECK_DEADLOCK FALSE

SPECIFICATION Spec
CONSTANTS
  Files = {f1, f2}
  Elements = {1, 2}
  Sizes = {"small", "five"}
  GroupLimit <- MCGroupLimit
  Batches = {b1}
  Handlers = {h1}
  MaxFaults = 0
INVARIANT UnsentHasGroup
CHECK_DEADLOCK FALSE

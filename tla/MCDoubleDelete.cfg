SPECIFICATION Spec
CONSTANTS
  p1 = p1
  p2 = p2
  Proc <- TwoThreads
  MayCall <- TwoDeleters
  Node = {1, 2, 3}
  Pair <- Star
  CL = {"tcp"}
  BootNodes = {1, 2, 3}
  MaxNodes = 3
  MaxLinks = 2
  MaxIndex = 1
  MaxOps = 4
  MaxFaults = 0
  FaultAt <- NoLabel
  LostAt <- NoLabel
CHECK_DEADLOCK FALSE
INVARIANT OneIndexPerLink

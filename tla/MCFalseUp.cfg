SPECIFICATION Spec
CONSTANTS
  p1 = p1
  p2 = p2
  Proc <- OneThread
  MayCall <- Everything
  Node = {1, 2, 3}
  Pair <- Star
  CL = {"tcp"}
  BootNodes = {1, 2, 3}
  MaxNodes = 3
  MaxLinks = 2
  MaxIndex = 1
  MaxOps = 3
  MaxFaults = 1
  FaultAt = {"cl_config"}
  LostAt <- NoLabel
CHECK_DEADLOCK FALSE
INVARIANT UpMeansConfigured

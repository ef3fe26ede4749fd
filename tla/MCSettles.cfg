SPECIFICATION FairSpec
CONSTANTS
  p1 = p1
  p2 = p2
  Proc <- TwoThreads
  MayCall <- BothDelete
  Node = {1, 2}
  Pair <- SinglePair
  CL = {"tcp"}
  BootNodes = {1, 2}
  MaxNodes = 2
  MaxLinks = 1
  MaxIndex = 0
  MaxOps = 4
  MaxFaults = 1
  FaultAt <- CallFailures
  LostAt <- AllLosses
CHECK_DEADLOCK FALSE
INVARIANT NoOrphanPlaceholder
PROPERTY PlaceholdersResolve

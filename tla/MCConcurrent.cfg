SPECIFICATION Spec
CONSTANTS
  p1 = p1
  p2 = p2
  Proc <- TwoThreads
  MayCall <- OneDeleter
  Node = {1, 2, 3}
  Pair <- Star
  CL = {"tcp"}
  BootNodes = {1, 2}
  MaxNodes = 3
  MaxLinks = 2
  MaxIndex = 1
  MaxOps = 4
  MaxFaults = 1
  FaultAt <- AllButRollback
  LostAt <- LossesButNetworks
CHECK_DEADLOCK FALSE
INVARIANT OneIndexPerLink
INVARIANT NodesMatchDocker
PROPERTY NoForeignRemoval

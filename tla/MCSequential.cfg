SPECIFICATION Spec
CONSTANTS
  p1 = p1
  p2 = p2
  Proc <- OneThread
  MayCall <- Everything
  Node = {1, 2, 3, 4}
  Pair <- Triangle
  CL = {"tcp"}
  BootNodes = {1, 2, 3}
  MaxNodes = 3
  MaxLinks = 2
  MaxIndex = 2
  MaxOps = 4
  MaxFaults = 2
  FaultAt <- BuildFailures
  LostAt <- BuildLosses
CHECK_DEADLOCK FALSE
INVARIANT TypeOK
INVARIANT OneIndexPerLink
INVARIANT NetworksReserved
INVARIANT NodesMatchDocker
INVARIANT LinksMatchDocker
INVARIANT LinksHaveNodes
INVARIANT UpMeansConfigured
INVARIANT IonMatchesLinks
INVARIANT CapsRespected

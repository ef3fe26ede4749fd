SPECIFICATION Spec
CONSTANTS
  p1 = p1
  p2 = p2
  Node = {1, 2, 3, 4}
  Pair <- Ring
  CL = {"tcp", "udp"}
  Netem <- Netems
  HandExit <- Hand
  Proc <- TwoThreads
  Scenes <- MCScenes
  Orders <- MCOrders
  MaxNodes = 4
  MaxOps = 4
  MaxFaults = 1
  FaultAt = {"made_node", "exit", "gone_net", "gone_ctr", "made_link", "rt_list", "rt_apply", "rt_verify", "hand", "tc", "list"}
CHECK_DEADLOCK FALSE
INVARIANT TypeOK
INVARIANT ReconcilesConverge
INVARIANT RoutesDeliver
INVARIANT StatusMatchesTc
INVARIANT BundleCoheres
PROPERTY ExportRebuilds

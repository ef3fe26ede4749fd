SPECIFICATION RecSpec
CONSTANTS
  p1 = p1
  MaxIndex = 2
  Node = {1, 2}
  Pair <- OnePair
  CL = {"tcp"}
  Proc <- OneThread
  MayCall <- Everything
  BootNodes = {1, 2}
  MaxNodes = 2
  MaxLinks = 1
  MaxOps = 12
  MaxFaults = 2
  FaultAt <- Failures
  LostAt <- Losses
  Files <- SomeFiles
  MaxCalls = 2
  MaxJobs = 1
  MaxBoots = 1
CHECK_DEADLOCK FALSE
INVARIANT RecTypeOK
INVARIANT IndicesSurvive
PROPERTY RestartAdopts
PROPERTY RestartTransparent
PROPERTY SweepEmptiesDocker
PROPERTY ImportAllOrNothing
PROPERTY ImportedAsFiled
PROPERTY JobsEnd

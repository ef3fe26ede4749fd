SPECIFICATION LiveSpec
CONSTANTS
  Node = {1}
  Classes <- TwoClasses
  Window = 4
  MaxTries = 2
  MaxMade = 2
  MaxBundles = 3
  MaxFaults = 1
  Scenes <- AllScenes
  Requests = {1}
  Tail100 = 2
  MaxDrops = 1
  MaxImports = 1
INVARIANT LiveTypeOK
INVARIANT EpochIdentifiesNodes
INVARIANT LinesOnceInOrder
PROPERTY StatsNeverFallBack
PROPERTY BadgesGoWithNodes
PROPERTY LinesArrive
PROPERTY ViewSettles
PROPERTY BadgesSettle
CHECK_DEADLOCK FALSE

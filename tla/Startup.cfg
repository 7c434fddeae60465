SPECIFICATION FairStart
CONSTANTS
  Configs <- MCConfigs
  Tools <- MCTools
  Batches <- MCBatches
  Anchors = {"a", "b"}
  Documents = {"f1", "f2", "f3"}
  Root = "f1"
  MaxImportDepth = 2
  Ceiling = 2
  Interval = 1
  Lifetime = 3
  SweepInterval = 1
  LogCap = 3
  MaxPasses = 2
  MaxFaults = 3
  MaxWrites = 2
CHECK_DEADLOCK FALSE
INVARIANTS ListenerInv
PROPERTIES ReadinessHolds KeepsUp

SPECIFICATION FairSpec
CHECK_DEADLOCK FALSE
CONSTANTS
  Percents <- TwoServers
  StartOptions = {0, 1}
  Batches <- AllBatches
  MaxUnit = 2
  MaxSignal = 1
  MaxStart = 2
INVARIANTS
  TypeOK
  CurvesKept
  SharesKept
PROPERTIES
  StopsWhenTold

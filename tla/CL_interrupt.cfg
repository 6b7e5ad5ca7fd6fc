SPECIFICATION FairSpec
CHECK_DEADLOCK FALSE
CONSTANTS
  Percents <- TwoServers
  StartOptions = {0, 1}
  Batches <- AllBatches
  MaxUnit = 2
  MaxSignal = 0
  MaxStart = 1
PROPERTY NoCurveIsInterrupt

SPECIFICATION FairSpec
CONSTANTS
  B1Table <- OddLevels
  MinB1 = 2
  MaxB1 = 4
  PM1Depth = 3
  PP1Depth = 3
  Client = {c1, c2}
  Junk = {0, 1}
  MaxLost = 1
  None = None
CHECK_DEADLOCK FALSE
INVARIANTS TypeOK UnitsAndEndInRange
PROPERTIES ECMInOrder EventuallyDone

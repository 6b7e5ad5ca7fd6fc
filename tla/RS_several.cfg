SPECIFICATION FairSpec
CHECK_DEADLOCK FALSE
CONSTANTS
  Unit = {"u1","u2","u3","idle","bad"}
  Batches <- Either
  Refused = {"bad"}
  Factored = {"u2"}
  Untouched = {"idle"}
  MaxSession = 5
  MaxTrouble = 2
INVARIANTS
  TypeOK
  OneCountPerFailure
  NoStaleFile
PROPERTIES
  LedgerKept
  ReturningEnds

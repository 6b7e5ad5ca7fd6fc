SPECIFICATION FairSpec
CONSTANTS
  Event = {"e1", "e2", "none"}
  Detail = {"c1", "p1", "c2"}
  Master = {"N"}
  EventOf <- AnyEventOf
  MasterOf <- AnyMasterOf
  Composites = {"c1", "c2"}
  Number = {1, 2, 3}
  Taken <- AnyTaken
  Address = {"good", "bad", "admin"}
  Finder <- AnyFinder
  FromID = "admin"
  DestID = {}
  Refused = {"bad"}
  Databases = {TRUE, FALSE}
  MaxTrouble = 2
  None = None
INVARIANTS
  TypeOK
  RecursedOnce
  OneMailPerFailure
PROPERTY
  EventuallyDone

SPECIFICATION FairSpec
CHECK_DEADLOCK FALSE
CONSTANTS
  Thread = {t1, t2}
  Return <- AllReturn
  Composite <- MCComposite
  Master = {"N"}
  User = {"u1", "u2"}
  WorkRow <- MCWorkRow
  EcmRow <- MCEcmRow
  Value = {"p", "q", "c"}
  CompositeValue = {"c"}
  MasterOf <- MCMasterOf
  RowMaster <- MCRowMaster
  CompositeOf <- AllComposite
  UserOf <- AllUser
  RowOf <- AllRow
  Details <- AllDetails
  FactorIsNumber = {"number"}
  Mismatch = {"unknown"}
  Known = {"N", "C"}
  Assigned = {"curves", "untouched"}
  Recurse = TRUE
  SlaveRows = {}
  Untouched = {"untouched"}
  Postgres = TRUE
  InstanceColumn = TRUE
  Overlooked = {"commit"}
  MaxTrouble = 1
INVARIANTS
  TypeOK
  MasterColumnsExact
  EventTablesExact
  StatsExact
  TotalWorkExact
PROPERTIES
  EventuallyCommitted

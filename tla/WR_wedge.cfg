SPECIFICATION FairSpec
CHECK_DEADLOCK FALSE
CONSTANTS
  Thread = {t1, t2}
  Return <- WedgeReturn
  Composite <- MCComposite
  Master = {"N"}
  User = {"u1", "u2"}
  WorkRow <- MCWorkRow
  EcmRow <- MCEcmRow
  Value = {"p", "q", "c"}
  CompositeValue = {"c"}
  MasterOf <- MCMasterOf
  RowMaster <- MCRowMaster
  CompositeOf <- WedgeComposite
  UserOf <- WedgeUser
  RowOf <- WedgeRow
  Details <- WedgeDetails
  FactorIsNumber = {}
  Mismatch = {}
  Known = {"N", "C"}
  Assigned = {}
  Recurse = TRUE
  SlaveRows = {}
  Untouched = {}
  Postgres = FALSE
  InstanceColumn = TRUE
  Overlooked = {}
  MaxTrouble = 0
PROPERTIES
  EventuallyCommitted

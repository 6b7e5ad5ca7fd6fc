SPECIFICATION Spec
CHECK_DEADLOCK FALSE
CONSTANTS
  Thread = {t1, t2}
  Return <- InnoReturn
  Composite <- MCComposite
  Master = {"N"}
  User = {"u1", "u2"}
  WorkRow <- MCWorkRow
  EcmRow <- MCEcmRow
  Value = {"p", "q", "c"}
  CompositeValue = {"c"}
  MasterOf <- MCMasterOf
  RowMaster <- MCRowMaster
  CompositeOf <- InnoComposite
  UserOf <- InnoUser
  RowOf <- InnoRow
  Details <- InnoDetails
  FactorIsNumber = {}
  Mismatch = {}
  Known = {"N", "C"}
  Assigned = {"curves", "untouched"}
  Recurse = TRUE
  SlaveRows = {"N"}
  Untouched = {"untouched"}
  Postgres = FALSE
  InstanceColumn = TRUE
  Overlooked = {"commit", "detail"}
  MaxTrouble = 2
INVARIANTS
  CurvesExact
  

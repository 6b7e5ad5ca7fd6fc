SPECIFICATION FairSpec
CONSTANTS
  s1 = s1 s2 = s2 k1 = k1 k2 = k2 k3 = k3 m = m
  Slave = {s1}
  Composite = {1, 2, 3}
  Later = {2, 3}
  Titled = {3}
  Curve = {k1, k2, k3}
  CompositeOf <- OnTwo
  ServerOf <- OneSlaveAt
  Master = m
  Postgres = TRUE
  MaxTrouble = 1
  None = None
INVARIANTS TypeOK SlaveNeverAhead OneRecountPerFailure NoMissedUpdate
PROPERTIES EventuallyInStep Phase1KeepsUnreported

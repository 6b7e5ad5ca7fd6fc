SPECIFICATION Spec
CONSTANTS
  s1 = s1 s2 = s2 k1 = k1 k2 = k2 k3 = k3 m = m
  Slave = {s1}
  Composite = {1}
  Later = {}
  Titled = {}
  Curve = {k1}
  CompositeOf <- OnOne
  ServerOf <- OneSlaveAt
  Master = m
  Postgres = TRUE
  MaxTrouble = 0
  None = None
INVARIANT SlaveKeepsUnreported

SPECIFICATION FairSpec
CHECK_DEADLOCK FALSE
CONSTANTS
  t1 = t1 t2 = t2
  Thread = {t1, t2}
  Candidate = {"A", "B"}
  Returned = {"A"}
  InsertOutcomes = {TRUE, FALSE}
  Postgres = TRUE
  CursorLimit = 1
  Impatient = {t1}
  SureAfter = 1
  MaxKeepAlive <- OneLine
  None = None
INVARIANTS
  TypeOK
  KeepAliveStopped
  HeldIsTracked
PROPERTIES
  EventuallyAnswered

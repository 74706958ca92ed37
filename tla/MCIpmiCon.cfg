SPECIFICATION FairSpec
CONSTANTS
  Callers = {t1, t2}
  Cmds = {get}
  MaxSeq = 3
  MaxOutstanding = 2
  Retries = 2
  MaxReconnects = 1
  None = None
CHECK_DEADLOCK FALSE
INVARIANTS
  OnePlace
  AssertionsHold
  OwnAnswer
PROPERTIES
  CallsReturn

SPECIFICATION Spec
CONSTANTS
  h1 = h1
  Resources = {r1}
  Handlers = {h1}
  Owner <- MCOwner
  Rdrs = {d1}
  MaxQueue = 3
  MaxAlarmId = 3
  Nums = {}
  States = {}
  Severities = {2, 3}
  SizeLimit = 0
  UserLimit = 0
  DatSave = FALSE
  CountMod = 1
  None = None
INVARIANT NoOrphans
CHECK_DEADLOCK FALSE

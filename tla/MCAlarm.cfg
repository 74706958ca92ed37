SPECIFICATION Spec
CONSTANTS
  Resources = {r1}
  Nums = {n1}
  States = {s1}
  Severities = {2, 3}
  SizeLimit = 2
  UserLimit = 1
  DatSave = TRUE
  CountMod = 1
  None = None
  MaxAlarmId = 3
INVARIANTS
  IdsBelowNext
  IdsNeverReused
  Limits
  NoStaleSensorAlarm
  WalkComplete

SPECIFICATION FairSpec
CONSTANTS
  Callers = {c1, c2}
  MaxCalls = 2
  MaxTimeouts = 2
  MaxSpurious = 1
CHECK_DEADLOCK FALSE
INVARIANTS
  TypeOK
  AloneWaitsForRound
  FreedUnused
PROPERTIES
  CallersReturn
  StopCompletes

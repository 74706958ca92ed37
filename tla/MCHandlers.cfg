SPECIFICATION FairSpec
CONSTANTS
  Services = {s1, s2}
  MaxHandlers = 2
  Initial = 1
  None = None
  Loops = {"evtget"}
CHECK_DEADLOCK FALSE
INVARIANTS
  FreedWhenUnused
  CallsMeetOpen
  RoundComplete
PROPERTIES
  CallsReturn
  FinitCompletes

SPECIFICATION Spec
CONSTANTS
  Threads = {t1, t2}
  MaxSid = 1
  MaxEvents = 3
  Limit = 1
SYMMETRY Symmetry
CHECK_DEADLOCK FALSE
INVARIANT OverflowReported

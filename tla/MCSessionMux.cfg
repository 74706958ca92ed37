SPECIFICATION Spec
CONSTANTS
  Threads = {t1}
  MaxSid = 2
  MaxEvents = 2
  Limit = 1
CHECK_DEADLOCK FALSE
INVARIANTS
  CompleteDelivery
PROPERTIES
  ImplementsStream

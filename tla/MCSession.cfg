SPECIFICATION FairSpec
CONSTANTS
  Threads = {t1, t2}
  MaxSid = 1
  MaxEvents = 2
  Limit = 1
CHECK_DEADLOCK FALSE
INVARIANTS
  QueueBound
  QueueAlive
  QueueFreed
  NoLeakedEvents
  UnsubscribedQueue
  InOrder
PROPERTIES
  CloseReleasesWaiters

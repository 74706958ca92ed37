SPECIFICATION FairSpec
CONSTANTS
  Clients = {c1, c2}
  Objects = {o1}
  MaxConns = 4
  MaxInputs = 4
  RPC_ATTEMPTS = 2
CHECK_DEADLOCK FALSE
INVARIANTS
  ObjectsReferenced
  UnownedUnknown
  TableAgrees
  ExecutedAsReported
PROPERTIES
  CallsReturn
  StopCompletes

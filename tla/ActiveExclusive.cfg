SPECIFICATION Spec
CONSTANTS
  Clients = {c1, c2}
  MaxWorkers = 2
  NoClient = NoClient
INVARIANT Exclusive
CHECK_DEADLOCK FALSE

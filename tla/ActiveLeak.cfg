SPECIFICATION Spec
CONSTANTS
  Clients = {c1, c2}
  MaxWorkers = 2
  NoClient = NoClient
INVARIANT RecordInProgress
CHECK_DEADLOCK FALSE

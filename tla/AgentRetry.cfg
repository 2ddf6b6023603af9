SPECIFICATION Spec
CONSTANTS
  Runs = {r1}
  MaxIterations = 1
  MaxHistory = 1
  MaxRetries = 2
  MaxCalls = 1
  None = None
PROPERTY RetryReconnects
CHECK_DEADLOCK FALSE

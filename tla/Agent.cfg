SPECIFICATION FairSpec
CONSTANTS
  Runs = {r1, r2}
  MaxIterations = 2
  MaxHistory = 4
  MaxRetries = 2
  MaxCalls = 2
  None = None
INVARIANTS CallsAnswered ListedIsServed
PROPERTIES KeepsSession RunsEnd
CHECK_DEADLOCK FALSE

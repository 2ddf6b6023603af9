SPECIFICATION FairSpec
CONSTANTS
  Clients = {c1, c2}
  MaxWorkers = 2
  NoClient = NoClient
INVARIANTS OnePolicyLoop SessionOwnsSampling SavedIsComplete
PROPERTIES LostToReleaseOnly StopReturns
CHECK_DEADLOCK FALSE

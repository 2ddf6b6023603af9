SPECIFICATION TeleopSpec
CONSTANTS
  Groups <- MCGroups
  TwistAsked <- Discovered
  JointAsked <- Discovered
  MaxSpeed = 1  MaxQueue = 2  MaxPressed = 2
INVARIANTS RestsAtEnd NoEpisodeLeft
CHECK_DEADLOCK FALSE

SPECIFICATION TeleopSpec
CONSTANTS
  Groups <- MCGroups
  TwistAsked <- Discovered
  JointAsked <- Discovered
  MaxSpeed = 1  MaxQueue = 1  MaxPressed = 2
INVARIANTS SwitchLeavesNothing
CHECK_DEADLOCK FALSE

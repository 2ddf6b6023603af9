SPECIFICATION Spec
CONSTANTS
  NoRobot = NoRobot
  NoWorld = NoWorld
  Packages <- MCPackages
INVARIANT GroupsKept
CHECK_DEADLOCK FALSE

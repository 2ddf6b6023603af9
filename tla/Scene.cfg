SPECIFICATION Spec
CONSTANTS
  NoRobot = NoRobot
  NoWorld = NoWorld
  Packages <- MCPackages
INVARIANTS AsAuthored PartsAgree
CHECK_DEADLOCK FALSE

SPECIFICATION Spec
CONSTANTS
  NoRobot = NoRobot
  NoWorld = NoWorld
  Packages <- MCPackages
INVARIANTS PybulletAsAuthored
CHECK_DEADLOCK FALSE

SPECIFICATION Spec
CONSTANTS
  a = a  f = f  c1 = c1  c2 = c2
  Clients = {c1, c2}
  Groups <- MCGroups
  Bodies <- MCBodies
  Free = Free  Absent = Absent
  MaxCommands = 2  MaxResets = 2
INVARIANTS PauseHolds StopForgets ReportedInForce
PROPERTIES PoseReachesNamed
SYMMETRY Symmetry

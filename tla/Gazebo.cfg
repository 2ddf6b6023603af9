SPECIFICATION Spec
CONSTANTS
  joints = joints
  Controllers = 1
  Topics = {joints}
  Kind <- MCKind
  Threads = {t1, t2}
  Main = main
  Clients = {c1}
  MaxStamp = 2  MaxChanges = 2  MaxGoals = 1
INVARIANTS NoProcessLeft ListedIsSubscribed
PROPERTIES ReadingsAdvance NavigationEnds
CHECK_DEADLOCK FALSE

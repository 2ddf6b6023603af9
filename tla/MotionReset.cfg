SPECIFICATION Spec
CONSTANTS
  grip = grip
  tip = tip
  stranger = stranger
  c1 = c1
  c2 = c2
  Joints = {grip, tip}
  Allowed = {grip}
  Followers <- MCFollowers
  Direction <- MCDirection
  Lower <- MCLower
  Upper <- MCUpper
  Start <- MCStart
  Home <- MCHome
  Callers = {c1, c2}
  Commands <- MCCommands
  Plans <- MCPlans
  None = None
  MaxTime = 3
  MaxResets = 1
  MaxRuns = 2
PROPERTY ResetRestores
CHECK_DEADLOCK FALSE

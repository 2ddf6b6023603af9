SPECIFICATION Spec
CONSTANTS
  Clients = {c1}
  Recorder = rec1
  Cameras = 1
  Buffers = {b1}
  MaxInstants = 2
  MaxReadings <- MCMaxReadings
  NoOne = NoOne
  Robots <- MCRobots
  Requests <- MCRequests
  Readings <- MCReadings
  MaxCommands = 1
  MaxSamples = 1
  MaxEpisodes = 1
  MaxChanges = 1
INVARIANTS OneInstant FramesTrue ByName
PROPERTY ReadingsEnd
CHECK_DEADLOCK FALSE

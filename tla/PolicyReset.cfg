SPECIFICATION PolicySpec
CONSTANTS
  Threads = {runner, stopper}
  Consumers = {runner}
  MaxCaptures = 1
  BufferCount = 2
  StepTicks = 1
  Interval = 2
  None = None
  MaxTime = 9
  MaxResets = 1
  Runner = runner
  Stopper = stopper
  Chunk = 2
INVARIANT QueueOfThisWorld
CHECK_DEADLOCK FALSE

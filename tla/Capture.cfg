SPECIFICATION FairSpec
CONSTANTS
  Threads = {t1, t2}
  Consumers = {t1}
  MaxCaptures = 2
  BufferCount = 2
  StepTicks = 3
  Interval = 2
  None = None
  MaxTime = 6
  MaxResets = 1
INVARIANTS NoBufferLost Backpressure OnSchedule OneHolder
PROPERTIES StreamSpec StopUnblocks
CHECK_DEADLOCK FALSE

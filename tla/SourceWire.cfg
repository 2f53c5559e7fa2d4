\* With audio a stop may wait for ever: a flag stored by one thread is lost when
\* another stores an older value, and the streaming thread has then ended.
SPECIFICATION Spec
CHECK_DEADLOCK FALSE
CONSTANTS
  Streams = {"video", "audio"}
  FragCounts = {2}
  AudioFile = TRUE
  MaxThreads = 2
  MaxCommands = 3
  MaxUnits = 3
  MaxFaults = 1
INVARIANTS PriorityBalanced WireOrder

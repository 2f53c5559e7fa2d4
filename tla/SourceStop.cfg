SPECIFICATION FairSpec
CONSTANTS
  Streams = {"video"}
  FragCounts = {2}
  AudioFile = TRUE
  MaxThreads = 2
  MaxCommands = 4
  MaxUnits = 3
  MaxFaults = 1
INVARIANTS AppAlive FragmentsFollow
 

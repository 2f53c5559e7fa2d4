SPECIFICATION FairSpec
CONSTANTS
  MaxQueued = 3
  CatchUp = 2
  Burst = 2
  FragCounts = {2}
  MaxUnits = 4
  MaxRestarts = 1
  MaxFaults = 2
INVARIANTS DecoderContinuity Backlog QueueIsRun FramesWhole
PROPERTIES KeyframeAccepted KeepsGoing

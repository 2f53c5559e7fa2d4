SPECIFICATION FairSpec
CONSTANTS
  RingSize = 3
  Chunk = 2
  PayloadLens = {2}
  StallTicks = 2
  MaxMedia = 2
  MaxEvents = 2
  Preemptive = TRUE
  LateCancel = TRUE
  KeepsRequest = TRUE
INVARIANTS TypeOK RingIsFifo WholePackets
PROPERTIES RingImplementsFifo BusyEnds

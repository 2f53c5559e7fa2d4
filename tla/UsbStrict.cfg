SPECIFICATION FairSpec
CONSTANTS
  RingSize = 4
  Chunk = 2
  PayloadLens = {1, 2}
  StallTicks = 2
  MaxMedia = 2
  MaxEvents = 3
  Preemptive = FALSE
  LateCancel = FALSE
  KeepsRequest = FALSE
INVARIANTS BufferOwned TransferTruthful InitOnceAndFirst
PROPERTY RingDrains

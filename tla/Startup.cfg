SPECIFICATION StartupFairSpec
CONSTANTS
  RingSize = 4
  Chunk = 3
  PayloadLens = {1}
  StallTicks = 1
  MaxMedia = 1
  MaxEvents = 1
  Preemptive = FALSE
  LateCancel = FALSE
  KeepsRequest = FALSE
  MaxFlush = 1
  SendConfig = TRUE
PROPERTIES StartsFresh StartupEnds

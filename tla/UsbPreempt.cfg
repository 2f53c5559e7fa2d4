SPECIFICATION Spec
CONSTANTS
  RingSize = 3
  Chunk = 2
  PayloadLens = {1}
  StallTicks = 2
  MaxMedia = 2
  MaxEvents = 2
  Preemptive = TRUE
  LateCancel = FALSE
  KeepsRequest = FALSE
INVARIANT PingGetsPong

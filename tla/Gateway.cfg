SPECIFICATION FairSpec
CONSTANTS
  Clients = {c1, c2}
  SockBuf = 2
  MaxMedia = 2
  MaxFaults = 1
INVARIANTS OneSession ActiveTruthful NothingLeft Relayed
PROPERTY SessionEnds

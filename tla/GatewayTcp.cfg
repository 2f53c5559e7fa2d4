SPECIFICATION Spec
CONSTANTS
  Clients = {c1, c2}
  SockBuf = 2
  MaxMedia = 1
  MaxFaults = 0
INVARIANT PipeIsOpen

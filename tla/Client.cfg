SPECIFICATION ClientSpec
CONSTANTS
  Kinds = {"usb", "tcp"}
  Programs = {"play", "diag"}
  Packets = 2
  Lens = {2, 3}
  Garbage = {0, 1, 4}
  RingSize = 9
  MaxMade = 4
  MaxCuts = 2
  Prebuffer = 2
  Target = 3
  MaxBuffer = 3
  Sizes = {0, 1, 2, 4}
  Chunks = 4
  MaxRefused = 1
  MaxSize = 7
  Slice = 2
  W = 5
  MaxSends = 8
  MaxStarts = 2
INVARIANTS  FramingSound 
PROPERTIES TraceSound ClientLive

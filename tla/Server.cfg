SPECIFICATION AllSpec
CONSTANTS
  Conn = {c1, c2}
  Handle = {h1, h2}
  NoHandle = NoHandle
  MaxOpens = 4
  MaxClients = 2
  MaxConns = 3
  App = {1, 2}
  Ops = {"close", "ping", "pingall"}
  Early = FALSE
  Threshold = 1
  MaxPing = 2
  MaxCloses = 1
  MaxFrame = 3
  MaxCtrl = 3
  MaxParts = 2
  MaxText = 4
  TextBytes = {0, 127, 128, 143, 144, 159, 160, 191, 192, 193, 194, 223, 224, 225, 236, 237, 238,
          239, 240, 241, 243, 244, 245, 255}
  MaxFile = 8
CHECK_DEADLOCK FALSE
INVARIANTS   FramesSound 
 

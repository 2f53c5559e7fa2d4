SPECIFICATION FirmwareSpec
CONSTANTS
  Configs = 2
  Frames = 2
  Retry = 1
  W = 4
  Builds = {"sample", "own"}
INVARIANTS UpstreamSound BootSound
PROPERTY FirmwareMoves

CONSTANTS
  MemCycles = 5
  LinesPerFrame = 0
  NumberOfFrames = 1
  CycleMod = 256
  LineMod = 256
  GroupMod = 8
  PlayedMax = 7
  PollLines = 2
  UpdateLines = 13
SPECIFICATION HandshakeSpec
PROPERTIES WritesBackBank StaleOnlyIfCarried TablesRenewed

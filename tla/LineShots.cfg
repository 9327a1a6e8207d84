CONSTANTS
  PointsPerLine = 2
  LinesPerFrame = 0
  NumberOfFrames = 1
  MemCycles = 1
  PulseLength = 1
  QuarterDelay = 0
  CycleMod = 256
  LineMod = 256
  GroupMod = 8
  PulseMod = 32
  MemGroups = 2
  AddrMod = 4
  TickMod = 65536
  ReadLatency = 2
  InitialTables <- MCTables
  WriteSet <- MCWrites
SPECIFICATION FairSpec
INVARIANTS WholeLine RightPixel NoShotLost
PROPERTIES ShotAtItsTime TableStableInLine KeepsMemoryContract LinesComplete

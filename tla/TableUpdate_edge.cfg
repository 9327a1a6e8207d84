CONSTANTS
  FrameColumns = 6
  FrameLines = 1
  FrameNumber = 2
  MemCyclesP = 1
  LinePoints = 2
  CycleMod = 256
  LineMod = 256
  GroupMod = 8
  MemGroups = 2
  AddrMod = 8
  TickMod = 512
  ReadLatency = 1
  FrontLatency = 2
  DrainDelay = 6
  BackLatency = 1
  MinLine = 6
  InitialTable <- MCInitialTable
  TickOf <- MCTickOf
SPECIFICATION Spec
PROPERTY EdgeTickComputedFirst

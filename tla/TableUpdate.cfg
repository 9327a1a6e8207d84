CONSTANTS
  FrameColumns = 8
  FrameLines = 1
  FrameNumber = 3
  MemCyclesP = 1
  LinePoints = 2
  CycleMod = 256
  LineMod = 256
  GroupMod = 8
  MemGroups = 3
  AddrMod = 8
  TickMod = 2048
  ReadLatency = 1
  FrontLatency = 2
  DrainDelay = 6
  BackLatency = 1
  MinLine = 6
  InitialTable <- MCInitialTable
  TickOf <- MCTickOf
SPECIFICATION FairSpec
INVARIANT FrontTableComplete
PROPERTIES EachWordOnce DelaysAddUp SchedulesAgree EveryPositionOnce UnitsRest UpdateEnds

CONSTANTS
  MemCycles = 2
  LinesPerFrame = 1
  NumberOfFrames = 2
  CycleMod = 256
  LineMod = 256
  GroupMod = 8
  PlayedMax = 5
SPECIFICATION FairSpec
INVARIANTS TypeOK QuotaInv
PROPERTIES FullQuotaUnlessCarried FrameOrder BanksAlternate

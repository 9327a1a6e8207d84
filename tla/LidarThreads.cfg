CONSTANTS
  FrameRows = 2
  NumberOfFrames = 2
  RxBufferCount = 1
  TofMax = 2
  FireMax = 2
\* The program ends when its threads have ended.
CHECK_DEADLOCK FALSE
SPECIFICATION FairSpec
INVARIANTS TypeOK WaitEndsWithElement RowsAligned FireQueuesLevel DMAEndsOnFrame
PROPERTIES CloudsGoOn WorkersEnd

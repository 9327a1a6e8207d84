CONSTANTS
  c1 = c1
  c2 = c2
  w1 = w1
  w2 = w2
  Cells = {c1, c2}
  Words = {w1, w2}
  Points <- MCPoints
  Frequency = 2
  MaxWrites = 3
SPECIFICATION AxiSpec
INVARIANT WordsReachMemory
PROPERTY ImplementsFile

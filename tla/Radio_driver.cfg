CONSTANTS
  Sizes = {1, 2, 3, 5, 6, 7, 9}
  FifoSize = 4
  FifoThresh = 2
  TxChunk = 2
SPECIFICATION Spec
INVARIANTS TypeOK TimersOfState WholeFrames FifoKept
PROPERTIES Reported

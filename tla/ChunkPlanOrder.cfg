CONSTANTS
  MaxInt = 15
  ChunkSize = 3
  FileSizes <- MCFileSizes
  Entropy = {0, 1}
  MaxMillis = 2
  MaxChunk = 12
  RecvLimits = {3}
  Overhead = 1
SPECIFICATION PlanSpec
CHECK_DEADLOCK FALSE
INVARIANTS
  OrderedInMillisecond

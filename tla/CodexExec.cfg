CONSTANTS
  Bound <- MCBound
  Chunk = 2
  Capacity = 2
  MaxOutput = 4
SPECIFICATION MCExecSpec
INVARIANT
  PrintedIsTheLast
CHECK_DEADLOCK FALSE

CONSTANTS
  Bound <- MCBound
  Chunk = 2
  Capacity = 2
  MaxOutput = 4
SPECIFICATION SubprocessSpec
PROPERTY HardTimeout

CONSTANTS
  NoId = NoId
  Message <- MCMessage
  MaxLength = 6
  MaxChars = 4
  MaxSegment = 5
  NoIndex = NoIndex
  NoCallId = NoCallId
  Absent = Absent
  StreamChunk <- MCStreamChunk
  MaxChunks = 4
  Sessions = {s1, s2}
  SegmentSize = 2
  ReplaySize = 2
  NoMessages = NoMessages
  MaxGroups = 3
  MaxLives = 1
SPECIFICATION ReadingSpec
INVARIANTS
  ReplaySafetyIsPairing
  RequestIsLargestWindow
  FilesCarryTheHistory
  AssembledIsWhatWasSent
  SweepIsComplete
PROPERTIES
  ShowAgrees
SYMMETRY MCSymmetry
CHECK_DEADLOCK FALSE

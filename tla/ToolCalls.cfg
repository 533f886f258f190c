CONSTANTS
  MaxChanges = 3
  Bound <- MCBound
  Chunk = 2
  Capacity = 2
  MaxOutput = 4
  p1 = p1
  p2 = p2
  Proc <- MCProc
  ApiKey = {"openai"}
  Codex = "codex"
  Nobody = Nobody
  NoName = NoName
  MaxVersion = 2
SPECIFICATION ToolSpec
INVARIANTS
  TypeOK
  NothingLeftBehind
  ResultIsTruthful
  AnswerIsTheLast
  FileIsWellFormed
  SecretMatchesProfile
PROPERTIES
  WriteIsAtomic
  CallReturns
  FailedConnectRestores
  EveryCommandEnds
CHECK_DEADLOCK FALSE

CONSTANTS
  NoId = NoId
  Read = {"read"}
  Guarded = {"write", "python"}
  Call <- MCCall
  MaxCalls = 1
  MaxResponses = 2
  MaxAttempts = 1
  MaxChars = 12
  ResultSize = {1}
  Initial <- MCInitial
SPECIFICATION Spec
INVARIANT
  DeniedIsNotOk
CHECK_DEADLOCK FALSE

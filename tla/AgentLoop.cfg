CONSTANTS
  NoId = NoId
  Read = {"read"}
  Guarded = {"write", "python"}
  Call <- MCCall
  MaxCalls = 2
  MaxResponses = 3
  MaxAttempts = 2
  MaxChars = 12
  ResultSize = {1, 12}
  Initial <- MCInitial
SPECIFICATION Spec
INVARIANTS
  RunsExactlyTheAllowed
  DisabledStaysDisabled
  CheckpointsAreReplaySafe
  EffectsAreRemembered
  SummaryAgrees
PROPERTIES
  RunEnds
CHECK_DEADLOCK FALSE

CONSTANTS
  MaxGroup = 4
  MaxReplay = 2
  dir = dir
  file = file
  Path <- MCPath
  Directory <- MCDirectory
  Below <- MCBelow
  Absent = Absent
  Codes = {"good", "drifted"}
  Sound = {"good"}
  Audited = {"good", "drifted"}
  Secure = {"good"}
  Aligned = {"good"}
  Packageable = {"good", "drifted"}
  AsAssessed = {"good"}
  Published <- MCPublished
  Dispositions <- MCDispositions
  Gates <- MCGates
  Minors = 2
  MaxCommits = 3
  MaxCommands = 4
  MaxEdits = 2
SPECIFICATION StoreSpec
INVARIANTS
  TypeOK
  LoadableIsWhole
  LatestRecoverable
  MarkCoversHistory
  NoUnconsentedSensitive
  CandidateRestsOnItsChain
  WrittenTogether
PROPERTIES
  ReturnedCheckpointIsLoadable
  AuthorityNeverWeakens
  ImplementsDurableHistory
  CandidateIsItsRevision

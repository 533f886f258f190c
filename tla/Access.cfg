CONSTANTS
  p1 = p1
  p2 = p2
  Runner <- MCRunner
  Deleter <- MCDeleter
  Prober <- MCProber
  Nobody = Nobody
  Absent = Absent
  MaxBirth = 3
  MaxLock = 2
  MaxCommit = 2
  Paths <- MCPaths
  AbsoluteSuffixes <- MCAbsoluteSuffixes
  AbsoluteSequences <- MCAbsoluteSequences
  SensitiveSuffixes <- MCSensitiveSuffixes
  SensitiveSequences <- MCSensitiveSequences
  OtherNames <- MCOtherNames
  IgnoreFiles <- MCIgnoreFiles
  NoPolicy = NoPolicy
  MaxAlterations = 2
SPECIFICATION AccessSpec
INVARIANTS
  TypeOK
  OneHolder
  OwnerSeesItsSession
  ShownIsAllowed
  DeniedStaysDenied
  RenewedAuthority
PROPERTIES
  WaitEnds

CONSTANTS
  Paths <- MCPaths
  AbsoluteSuffixes <- MCAbsoluteSuffixes
  AbsoluteSequences <- MCAbsoluteSequences
  SensitiveSuffixes <- MCSensitiveSuffixes
  SensitiveSequences <- MCSensitiveSequences
  OtherNames <- MCOtherNames
  IgnoreFiles <- MCIgnoreFiles
  NoPolicy = NoPolicy
  MaxAlterations = 0
SPECIFICATION PrivacySpec
INVARIANT
  ListedAsRead

CONSTANTS
  MaxGroup = 4
  MaxReplay = 2
  dir = dir
  file = file
  Path <- MCPath
  Directory <- MCDirectory
  Below <- MCBelow
  Absent = Absent
SPECIFICATION Spec
INVARIANT FullHistoryRemains

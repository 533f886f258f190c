CONSTANTS
  p1 = p1
  p2 = p2
  Runner <- MCRunner
  Deleter <- MCDeleter
  Prober <- MCProber
  Nobody = Nobody
  Absent = Absent
  MaxBirth = 3
  MaxLock = 2
  MaxCommit = 2
SPECIFICATION Spec
INVARIANT OneProcessOwns

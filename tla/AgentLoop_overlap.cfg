CONSTANTS
  p1 = p1  p2 = p2  p3 = p3  d1 = d1  d2 = d2
  Procs <- SameHost
  Dirs <- OneDir
  DirOf <- SharedDir
  Keep = 4
  BailAt = 3
  MaxTurns = 5
  Adhoc = FALSE
  Overlap = TRUE
  DiskMayFail = FALSE
SPECIFICATION Spec
INVARIANT CheckpointWhole

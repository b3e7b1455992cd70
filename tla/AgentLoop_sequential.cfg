CONSTANTS
  p1 = p1  p2 = p2  p3 = p3  d1 = d1  d2 = d2
  Procs <- MCProcs
  Dirs <- MCDirs
  DirOf <- MCDirOf
  Keep = 4
  BailAt = 3
  MaxTurns = 5
  Adhoc = FALSE
  Overlap = FALSE
  DiskMayFail = TRUE
SPECIFICATION Spec
INVARIANT TypeOK
INVARIANT ConversationWellFormed
INVARIANT PromptKept
INVARIANT CheckpointWhole
PROPERTY NoRepeatAfterSave
PROPERTY CheckpointGrows
PROPERTY ImplementsResumableRun
SYMMETRY AnyOfHost

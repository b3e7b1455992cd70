CONSTANTS
  p1 = p1  p2 = p2  t1 = t1  t2 = t2
  Procs <- MCProcs
  Tasks <- MCTasks
  Kinds <- MCKinds
  DiskMayFail = TRUE
  MaxStarts = 2
  MaxCreates = 2
  MaxIterations = 2
  MaxTestIterations = 1
  PipeSize = 1
SPECIFICATION BuildFairSpec
INVARIANT BuildTypeOK
INVARIANT SchedulesWhatIsThere
 
PROPERTY RefusedForCause
PROPERTY BuildEnds
CHECK_DEADLOCK FALSE

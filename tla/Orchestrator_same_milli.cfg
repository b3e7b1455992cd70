CONSTANTS
  j1 = j1  j2 = j2  j3 = j3  t1 = t1  t2 = t2
  NoRun = NoRun
  Jobs <- MCJobs
  Tasks <- MCTasks
  TaskOf <- MCTaskOf
  MaxMilli <- MCMaxMilli
  ChanSize = 1
  MaxConcurrent = 2
  DefaultMaxRetries = 2
  TaskMaxRetries <- MCTaskMaxRetries
  UniqueMillis = FALSE
  DiskMayFail = FALSE
SPECIFICATION Spec
INVARIANT OneRecordPerRun

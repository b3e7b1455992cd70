CONSTANTS
  j1 = j1  j2 = j2  t1 = t1  w1 = w1  w2 = w2
  NoRun = NoRun  NoChan = NoChan  NoMsg = NoMsg
  Jobs <- MCJobs
  Tasks <- MCTasks
  TaskOf <- MCTaskOf
  MaxMilli <- MCMaxMilli
  ChanSize = 1
  MaxConcurrent = 1
  DefaultMaxRetries = 0
  TaskMaxRetries <- MCTaskMaxRetries
  UniqueMillis = TRUE
  DiskMayFail = FALSE
  Lossy = TRUE
  Workers <- MCWorkers
SPECIFICATION CPFairSpec
PROPERTY WaiterTimesOut

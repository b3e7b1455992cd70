CONSTANTS
  j1 = j1  j2 = j2  t1 = t1  w1 = w1  w2 = w2
  NoRun = NoRun  NoChan = NoChan  NoMsg = NoMsg
  Jobs <- MCJobs
  Tasks <- MCTasks
  TaskOf <- MCTaskOf
  MaxMilli <- MCMaxMilli
  ChanSize = 2
  MaxConcurrent = 2
  DefaultMaxRetries = 2
  TaskMaxRetries <- MCTaskMaxRetries
  UniqueMillis = TRUE
  DiskMayFail = FALSE
  Lossy = TRUE
  Workers <- MCWorkers
SPECIFICATION CPSpec
INVARIANT CPTypeOK
INVARIANT OneHolder
INVARIANT ResultReachesWaiter
INVARIANT OwnResult
INVARIANT InflightIsWaiting
PROPERTY ImplementsWorkerContract
SYMMETRY Interchangeable

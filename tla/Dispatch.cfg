CONSTANTS
  a = a  soon = soon  now = now  None = None
  Unparsable = Unparsable
  Loaded <- MCLoaded
  Requests <- MCRequests
  Interval <- MCInterval
  RunRequests <- MCRunRequests
  ChanSize = 2
  AddSize = 1
  SemCap = 1
  MaxLate = 1
SPECIFICATION DispatchFairSpec
INVARIANT DispatchTypeOK
PROPERTY ImplementsScheduler
PROPERTY EveryTaskRuns
PROPERTY EveryRequestRuns

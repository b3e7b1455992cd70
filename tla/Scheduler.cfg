CONSTANTS
  a = a  b = b  soon = soon  bad = bad  None = None
  Unparsable = Unparsable
  Loaded <- MCLoaded
  Requests <- MCRequests
  Interval <- MCInterval
  ChanSize = 1
  AddSize = 1
  MaxLate = 2
SPECIFICATION FairSpec
INVARIANT TypeOK
INVARIANT EntryKept
INVARIANT TimerForSoonest
PROPERTY FiresInOrder
PROPERTY NoBurst
PROPERTY EveryTaskFires

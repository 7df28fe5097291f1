SPECIFICATION FairSpec
CONSTANTS
  t1 = t1
  t2 = t2
  i1 = i1
  i2 = i2
  i3 = i3
  Threads <- MCThreads
  Items <- MCItems
  MAX_ITEMS = 2
  MaxCalls = 2
INVARIANTS NothingLost CloseSendsAll FlushLeavesNone
PROPERTIES CloseEnds EventuallySent

SPECIFICATION FairSpec
CONSTANTS
  t1 = t1
  t2 = t2
  s1 = s1
  s2 = s2
  k1 = k1
  None = None
  Worker = Worker
  Threads <- MCThreads
  Session <- MCSession1
  KeyOf <- MCKeyOf1
  MAX_SESSION_ITEMS = 1
  FullAtDrop = TRUE
  MaxEvents = 1
  MaxCalls = 1
PROPERTY DropReturns
CHECK_DEADLOCK FALSE

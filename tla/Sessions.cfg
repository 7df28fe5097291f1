SPECIFICATION FairSpec
CONSTANTS
  t1 = t1
  t2 = t2
  s1 = s1
  s2 = s2
  k1 = k1
  None = None
  Worker = Worker
  Threads <- MCThreads
  Session <- MCSession
  KeyOf <- MCKeyOf
  MAX_SESSION_ITEMS = 2
  FullAtDrop = FALSE
  MaxEvents = 1
  MaxCalls = 1
INVARIANTS TypeOK OneInitOneEnd LastWord NoUpdateLost
PROPERTIES EndReported

SPECIFICATION FairSpec
CONSTANTS
  t1 = t1
  t2 = t2
  Threads <- MCThreads
  NC = 2
  NR = 2
  Envelopes <- MCEnvelopes
  MaxLosses = 2
INVARIANTS NoStrandedLoss BooksBalance
PROPERTIES LedgerSpec AllReported

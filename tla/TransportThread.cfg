SPECIFICATION FairSpec
CONSTANTS
  c1 = c1
  c2 = c2
  e1 = e1
  e2 = e2
  Callers <- MCCallers
  Envelopes <- MCEnvelopes
  Contents <- MCContents
  Capacity = 2
  Limits <- MCLimits
  MaxFlush <- MCMaxFlush
INVARIANTS FlushTruthful AllAccounted
PROPERTIES SettledOnce RespectsLimits FlushReturns DropEnds

SPECIFICATION FairSpec
CONSTANTS
  Client = {c1}
  MaxRetries = 3
  defaultBackoff = 1
  Delays = {0, 1, 3}
  floodFallback = 2
INVARIANTS TypeOK ResultIsFaithful
PROPERTIES DelayHonoured RetriesAreSpaced OnlyTransientIsRetried DoReturns

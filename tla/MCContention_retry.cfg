SPECIFICATION FairSpec
CONSTANTS
  Client = {c1, c2}
  None = None
  MaxDone = 2
  MaxExpired = 1
INVARIANT TypeOK
INVARIANT TypePromise
INVARIANT BusyMeansTimeout
INVARIANT LocksEndWithScope
INVARIANT ContentionIsRetried
INVARIANT NoDeadlock
PROPERTY NoLostUpdate
PROPERTY RetriesEnd

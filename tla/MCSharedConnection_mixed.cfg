SPECIFICATION FairSpec
CONSTANTS
  t1 = t1
  t2 = t2
  t3 = t3
  Thread = {t1, t2}
  Guarded = {t1}
  NoThread = NoThread
  MaxInserts = 1
  MaxDepth = 1
  LeaveOnError = TRUE
  NoMemory = FALSE
INVARIANT OutcomeIsMine
INVARIANT Isolation
PROPERTY GuardedCallsEnd
PROPERTY GuardedCallsAdvance

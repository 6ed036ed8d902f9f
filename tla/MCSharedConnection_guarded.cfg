SPECIFICATION Spec
CONSTANTS
  t1 = t1
  t2 = t2
  t3 = t3
  Thread = {t1, t2}
  Guarded = {t1, t2}
  NoThread = NoThread
  MaxInserts = 2
  MaxDepth = 2
  LeaveOnError = TRUE
  NoMemory = FALSE
INVARIANT TypeOK
INVARIANT NothingBeforeCommit
INVARIANT ScopeEndsTransaction
SYMMETRY GuardedSymmetry
PROPERTY ScopesAreTransactions

SPECIFICATION Spec
CONSTANTS
  Object = {s1, s2}
  Sql <- MCSql
  Failure = {"BUSY", "CONSTRAINT"}
  MaxValues = 2
  MaxIterators = 2
  PrepareOnce = TRUE
  AssertsOn = FALSE
INVARIANT TypeOK
INVARIANT NoDoubleExecution
INVARIANT FailureIsRaised
INVARIANT ExecuteCountsItsRun
INVARIANT ResetRearms
PROPERTY ObjectsAreCursors
\* The process stops at a failed assertion, at an exception that leaves a
\* noexcept function and at a dereferenced null handle.
CHECK_DEADLOCK FALSE

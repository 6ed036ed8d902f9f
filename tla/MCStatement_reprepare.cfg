SPECIFICATION Spec
CONSTANTS
  Object = {s1}
  Sql <- MCSql
  Failure = {"BUSY", "CONSTRAINT"}
  MaxValues = 2
  MaxIterators = 2
  PrepareOnce = FALSE
  AssertsOn = TRUE
INVARIANT FalseMeansNoMoreRows
\* The process stops at a failed assertion, at an exception that leaves a
\* noexcept function and at a dereferenced null handle.
CHECK_DEADLOCK FALSE

SPECIFICATION Spec
CONSTANTS
  Content = {c1, c2}
  MaxPages = 3
  Failure = {"BUSY"}
INVARIANT StepReportsErrors
\* The process stops when a null handle is dereferenced.
CHECK_DEADLOCK FALSE

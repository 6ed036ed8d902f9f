SPECIFICATION Spec
CONSTANTS
  Content = {c1, c2}
  MaxPages = 3
  Failure = {"BUSY", "READONLY"}
INVARIANT TypeOK
INVARIANT FailureIsRaised
PROPERTY CopiesWhole
PROPERTY DoneMeansCopied
PROPERTY SaveCopies
\* The process stops when a null handle is dereferenced.
CHECK_DEADLOCK FALSE

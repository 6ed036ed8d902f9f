SPECIFICATION Spec
CONSTANTS
  Object = {d1, d2, d3}
  Transaction = {t1, t2}
  Borrower = {b1, b2}
  Connection = {c1, c2, c3}
  Null = Null
  NoObject = NoObject
SYMMETRY Symmetry
INVARIANT TypeOK
INVARIANT NothingDangles
INVARIANT ClosedUnlessRefused
INVARIANT TransactionHasItsObject

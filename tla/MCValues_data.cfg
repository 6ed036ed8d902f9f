SPECIFICATION Spec
CONSTANTS
  Value = {v1, v2}
  Blob = {b1, b2}
  Id = {d1, d2, d3}
  Length = {0, 1}
  None = None
SYMMETRY Symmetry
CHECK_DEADLOCK FALSE
INVARIANT TypeOK
INVARIANT OneOwner
INVARIANT ContentSurvives
INVARIANT BlobIsWhole
INVARIANT BlobReadsAsStored
PROPERTY StoredIsBound

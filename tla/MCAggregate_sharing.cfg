SPECIFICATION Spec
CONSTANTS
  q1 = q1
  q2 = q2
  q3 = q3
  None = None
  Query = {q1, q3}
  Uses <- MCUses
  Distinct <- MCDistinct
  w1 = w1
  w2 = w2
  w3 = w3
  Wrapper = {w1, w2, w3}
  MaxRows = 2
  MaxHeld = 4
  MaxLeaked = 1
SYMMETRY symmetry
INVARIANT TypeOK
INVARIANT Owned
INVARIANT ResultOfOwnRows

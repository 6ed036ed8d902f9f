SPECIFICATION Spec
CONSTANTS
  q1 = q1
  q2 = q2
  q3 = q3
  None = None
  Query = {q1, q3}
  Uses <- MCUses
  Distinct <- MCNoDistinct
  w1 = w1
  w2 = w2
  w3 = w3
  Wrapper = {w1, w2, w3}
  MaxRows = 1
  MaxHeld = 2
  MaxLeaked = 1
SYMMETRY symmetry
INVARIANT SameInputsSameResult

SPECIFICATION Spec
CONSTANTS
  Lists = {l1}
  Entries = {e1, e2, e3}
  s1 = s1
  s2 = s2
  Songs = {s1}
  Hideable = {s1}
  Requests = {r1, r2}
  File <- OneSong
  MaxAdd = 1
  MaxPosition = 3
  None = None
SYMMETRY Interchangeable
INVARIANT TypeOK
PROPERTY EntriesKept
PROPERTY AppendsWhenAlone
PROPERTY ReordersWhenAlone
PROPERTY HealsPositions

SPECIFICATION Spec
CONSTANTS
  Library = {l1}
  Uploads = {u1}
  Scans = {s1}
  w1 = w1
  w2 = w2
  Workers = {w1}
  DeleteMissing = FALSE
  Form <- FullForm
  Genre <- OneGenre
  RewriteGap = 2
  MaxTime = 6
  MaxFaults = 0
  None = None
INVARIANT GenreAssigned

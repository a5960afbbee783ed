SPECIFICATION FairSpec
CONSTANTS
  Library = {l1}
  Uploads = {u1}
  Scans = {s1}
  w1 = w1
  w2 = w2
  Workers = {w1}
  DeleteMissing = TRUE
  Form <- FullForm
  Genre <- OneGenre
  RewriteGap = 2
  MaxTime = 6
  MaxFaults = 1
  None = None
PROPERTY PrunedWasGone
PROPERTY ScansKeepUp
PROPERTY NoGhostRows

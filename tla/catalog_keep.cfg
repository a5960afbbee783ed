SPECIFICATION Spec
CONSTANTS
  Library = {l1}
  Uploads = {u1}
  Scans = {s1, s2}
  w1 = w1
  w2 = w2
  Workers = {w1, w2}
  DeleteMissing = FALSE
  Form <- FullForm
  Genre <- OneGenre
  RewriteGap = 2
  MaxTime = 6
  MaxFaults = 1
  None = None
SYMMETRY Interchangeable
INVARIANT Sound
INVARIANT UnchangedMeansIndexed
INVARIANT AcknowledgedUpload
INVARIANT AttachedUnlessFault
PROPERTY RowsKept
PROPERTY OverrideSurvivesLaterScans

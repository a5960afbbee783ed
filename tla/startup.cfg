SPECIFICATION Spec
CONSTANTS
  Instances = {p1, p2}
  Conns = {k1, k2}
  Last = 3
  Multiuser = 2
  Legacy = {"playlists", "history"}
  Paths = {x1, x2}
  Commands = {c1, c2}
  MaxFailures = 3
  Builds = 2
  Order <- MCOrder
  Versioned = {"app.js"}
  MaxPuts = 2
  MaxFaults = 1
  None = None
INVARIANT Sound
PROPERTY SongsKept
PROPERTY EveryInstanceServes
PROPERTY BackfilledUnlessFault
PROPERTY UpgradeEnds
PROPERTY CatchesUp
CHECK_DEADLOCK FALSE

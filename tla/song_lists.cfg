SPECIFICATION Spec
CONSTANTS
  CategorySongs = {c1, c2}
  Forms = {f1, f2}
  Upload = Upload
  Songs <- MCSongs
  Catalogues <- MCCatalogues
  PlayWeight <- MCPlayWeight
  LikeWeight <- MCLikeWeight
  Cap = 1
  Limit = 3
  MaxPlays = 1
  MaxSignals = 4
  None = None
  Paths = {p1, p2}
  Names = {"a", "b"}
  Titles = {"t"}
  Tags <- MCTags
  Ids <- MCIds
  Begun <- MCBegun
  Workers = {w1, w2}
  MaxFiles = 2
  MaxRenames = 1
  MaxPrunes = 1
  MaxFaults = 1
  Ghost = Ghost
  Tabs = {"users", "songs"}
  UsersTab = "users"
  Rows = "rows"
  Empty = "empty"
  MaxRevision = 2
  MaxFlying = 3
  Folders <- MCFolders
  Offered = {"b1", "b2"}
  MaxLoops = 2
  MaxChoices = 3
SYMMETRY Interchangeable
INVARIANT Sound
INVARIANT RankingSound
PROPERTY OthersKeepOrder
PROPERTY KeepsAlbums
PROPERTY PrunesOrphans
CHECK_DEADLOCK FALSE

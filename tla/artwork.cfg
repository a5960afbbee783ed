SPECIFICATION MCSpec
CONSTANTS
  a1 = a1
  a2 = a2
  s1 = s1
  l1 = l1
  c1 = c1
  r1 = r1
  r2 = r2
  u1 = u1
  u2 = u2
  z1 = z1
  z2 = z2
  Albums <- MCAlbums
  Songs <- MCSongs
  Lists <- MCLists
  Categories <- MCCategories
  Embedded <- MCSongs
  Folders <- MCFolders
  Sizes <- MCSizes
  Serves <- MCServes
  Admins <- MCAdmins
  RedisUsed = TRUE
  Faults = TRUE
  Restarts = TRUE
  Limit = 2
  MaxUploads = 2
  None = None
  Placeholder = Placeholder
SYMMETRY Interchangeable
INVARIANT Sound
INVARIANT StaleOnlyIfExcused

SPECIFICATION Spec
CONSTANTS
  Songs = {g1}
  Requests = {r1, r2, r3}
  Slack = 1
  Limit = 0
  MaxTime = 3
  MaxVersion = 2
  MaxFaults = 1
  None = None
SYMMETRY Interchangeable
INVARIANT FreshnessSound
PROPERTY CacheNeverOlder

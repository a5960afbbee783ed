SPECIFICATION FairSpec
CONSTANTS
  Songs = {g1, g2}
  Requests = {r1, r2}
  Slack = 2
  Limit = 1
  MaxTime = 1
  MaxVersion = 1
  MaxFaults = 2
  None = None
INVARIANT Sound
INVARIANT CacheFitsWhenQuiet
PROPERTY EveryRequestAnswered

SPECIFICATION Spec
CONSTANTS
  Queues <- MCQueues
  MaxTasks = 3
  Tabs = {t1}
  Users = {u1, u2}
  Queries = {q1, q2}
  MaxTokens = 1
  MaxRequests = 2
  Nobody = Nobody
  Songs = {"g1", "g2"}
  MayFail = TRUE
  Patient = FALSE
  MaxClicks = 1
  Accounts = {a, b}
  MaxPlays = 1
  Length = 6
  Enough = 3
  Rates = {1, 2}
  SeekTo = {2}
  Slack = 1
  Gap = 2
  MaxHeard = 3
  MaxRevision = 1
  MaxFlying = 2
  MaxChanges = 1
  NoLists = NoLists
  Spinner = Spinner
  None = None
INVARIANT Sound
INVARIANT HonestWhenSettled
PROPERTY CachesOwned
PROPERTY TokenChanges
PROPERTY RowAnswersOwnSong

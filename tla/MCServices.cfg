SPECIFICATION ServicesSpec
CONSTANTS
  LoginThreads = {l1, l2}
  Ids = {s1}
  MaxErrorTime = 2
  LockHold = 1
  HoldTime = 1
  Word = 64
  MaxClock = 2
  NoTime = NoTime
  Editors = {e1, e2}
  Builders = {b1, b2}
  MaxVersion = 4
  Workers = {w1, w2}
  Jobs <- MCJobs
  NoJob = NoJob
  Handlers = {h1, h2}
  Urls = {"a", "b"}
  NoUrl = NoUrl
  MaxPhoto = 2
  MaxPosts = 2
  MaxJobs = 4
  MaxDeaths = 1
  Threads = {t1, t2, t3, t4}
  NoThread = NoThread
INVARIANTS LimitIsSeen StaleIsMarked FeedIsFresh NoTaskForgotten DimsFollowUrl MapTypeOK Exclusion
PROPERTIES EarlyUnlockIsARace SweepSparesSeen SessionsExpire PoolKeepsPromise JobsEnd Implements WritersGetIn

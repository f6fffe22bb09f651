SPECIFICATION ObservedSpec
CONSTANTS
  LoginThreads = {l1, l2}
  Ids = {s1}
  MaxErrorTime = 2
  LockHold = 1
  HoldTime = 1
  Word = 64
  MaxClock = 3
  NoTime = NoTime
INVARIANT LockHolds

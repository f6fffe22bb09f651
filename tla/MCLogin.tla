------------------------------- MODULE MCLogin -------------------------------
(* The login with an observer that counts failures in a row, as a reader of   *)
(* the guide would.                                                           *)
EXTENDS AdminLogin

VARIABLES
  failures,  \* in a row, since the last success, unlock or full count
  reached    \* when they last came to MaxErrorTime

Failing    == \E t \in LoginThreads : lpc[t] = "wrong" /\ lpc'[t] = "count"
Succeeding == \E t \in LoginThreads : lpc[t] = "right" /\ lpc'[t] = "enter"
Unlocking  == \E t \in LoginThreads : lpc[t] = "due" /\ lpc'[t] = "unlocked"

Observe ==
  /\ failures' = IF Succeeding \/ Unlocking THEN 0
                 ELSE IF Failing THEN (failures + 1) % MaxErrorTime
                 ELSE failures
  /\ reached' = IF Succeeding THEN NoTime
                ELSE IF Failing /\ failures + 1 = MaxErrorTime THEN now
                ELSE reached

ObservedInit == LoginInit /\ failures = 0 /\ reached = NoTime

ObservedSpec == ObservedInit /\ [][LoginNext /\ Observe]_<<loginVars, failures, reached>>

\* "After five failures in a row the account is locked for sixty minutes": for
\* LockHold after the failures have reached the limit the login is locked, once the
\* requests in flight are through.  The code breaks it: a request that comes between
\* mIsLocked and mLockTime of another judges the new lock by the time of the one
\* before, or of none, and lifts it; and one that has set mIsLocked = FALSE and not
\* yet mFailedCount = 0 takes away failures that others have added in between.
LockHolds ==
  (reached # NoTime /\ now - reached <= LockHold /\ \A t \in LoginThreads : lpc[t] = "idle")
    => mIsLocked
=============================================================================

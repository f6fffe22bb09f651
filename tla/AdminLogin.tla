----------------------------- MODULE AdminLogin -----------------------------
(***************************************************************************)
(* The administrator's login and the sessions it opens.  Requests to log   *)
(* in are handled in parallel, one per sub-loop; AdminLogin keeps a lock    *)
(* flag, a count of failures and the time of the lock, each written on its *)
(* own.  The main thread erases the sessions whose time has passed.        *)
(***************************************************************************)
EXTENDS Integers, FiniteSets

CONSTANTS LoginThreads,  \* sub-loops that handle a request to log in
          Ids,           \* identifiers generateSessionId may return
          MaxErrorTime,  \* sMaxErrorTime
          LockHold,      \* 60 minutes
          HoldTime,      \* sessionHoldTime
          Word,          \* differences of times are taken modulo this
          MaxClock,      \* bound: the clock stops here
          NoTime         \* no session has this identifier

ASSUME LoginThreadsAssumption == IsFiniteSet(LoginThreads)
ASSUME LoginTimesAssumption ==
  /\ MaxErrorTime \in Nat \ {0} /\ LockHold \in Nat /\ HoldTime \in Nat
  /\ MaxClock \in Nat /\ Word \in Nat /\ Word > HoldTime + MaxClock
  /\ NoTime \notin Int

VARIABLES
  now,
  mIsLocked, mFailedCount, mLockTime,
  sessions,            \* mSessionMap: the lastTime of each session
  lpc, lseen,          \* step of each login; the mLockTime that isOnLock saw
  spc, sweepTime, toErase, \* checkOverdue
  lockedAt             \* history: when mIsLocked was set

lockVars  == <<mIsLocked, mFailedCount, mLockTime, lockedAt>>
sweepVars == <<spc, sweepTime, toErase>>
loginVars == <<now, lockVars, sessions, lpc, lseen, sweepVars>>

\* A time_point that was never set is the epoch.
Epoch == -(LockHold + 1)

LoginInit ==
  /\ now = 0
  /\ mIsLocked = FALSE
  /\ mFailedCount = 0
  /\ mLockTime = Epoch
  /\ lockedAt = Epoch
  /\ sessions = [id \in Ids |-> NoTime]
  /\ lpc = [t \in LoginThreads |-> "idle"]
  /\ lseen = [t \in LoginThreads |-> Epoch]
  /\ spc = "idle"
  /\ sweepTime = 0
  /\ toErase = {}

Tick ==
  /\ now < MaxClock
  /\ now' = now + 1
  /\ UNCHANGED <<lockVars, sessions, lpc, lseen, sweepVars>>

-----------------------------------------------------------------------------
(* AdminController::Login *)

Goto(t, from, to) ==
  /\ lpc[t] = from
  /\ lpc' = [lpc EXCEPT ![t] = to]

ReadLocked(t) ==
  /\ Goto(t, "idle", IF mIsLocked THEN "locked" ELSE "login")
  /\ UNCHANGED <<now, lockVars, sessions, lseen, sweepVars>>

\* isOnLock
JudgeLock(t) ==
  /\ IF now - mLockTime > LockHold
     THEN Goto(t, "locked", "due") /\ lseen' = [lseen EXCEPT ![t] = mLockTime]
     ELSE Goto(t, "locked", "idle") /\ UNCHANGED lseen
  /\ UNCHANGED <<now, lockVars, sessions, sweepVars>>

Unlock(t) ==
  /\ Goto(t, "due", "unlocked")
  /\ mIsLocked' = FALSE
  /\ lseen' = [lseen EXCEPT ![t] = Epoch]
  /\ UNCHANGED <<now, mFailedCount, mLockTime, lockedAt, sessions, sweepVars>>

ResetCount(t) ==
  /\ Goto(t, "unlocked", "login")
  /\ mFailedCount' = 0
  /\ UNCHANGED <<now, mIsLocked, mLockTime, lockedAt, sessions, lseen, sweepVars>>

\* AdminLogin::Login, from here; right: user name and password are.
CompareNames(t, right) ==
  /\ Goto(t, "login", IF mIsLocked THEN "idle" ELSE IF right THEN "right" ELSE "wrong")
  /\ UNCHANGED <<now, lockVars, sessions, lseen, sweepVars>>

RightPassword(t) ==
  /\ Goto(t, "right", "enter")
  /\ mFailedCount' = 0
  /\ UNCHANGED <<now, mIsLocked, mLockTime, lockedAt, sessions, lseen, sweepVars>>

AddSession(t, id) ==
  /\ sessions[id] = NoTime
  /\ Goto(t, "enter", "count")
  /\ sessions' = [sessions EXCEPT ![id] = now]
  /\ UNCHANGED <<now, lockVars, lseen, sweepVars>>

WrongPassword(t) ==
  /\ Goto(t, "wrong", "count")
  /\ mFailedCount' = mFailedCount + 1
  /\ UNCHANGED <<now, mIsLocked, mLockTime, lockedAt, sessions, lseen, sweepVars>>

\* Wrong on purpose: one failure too many is let pass.
AtLimitLate == mFailedCount > MaxErrorTime

AtLimit == mFailedCount >= MaxErrorTime

CountFailures(t) ==
  /\ Goto(t, "count", IF AtLimit THEN "lock" ELSE "idle")
  /\ UNCHANGED <<now, lockVars, sessions, lseen, sweepVars>>

Lock(t) ==
  /\ Goto(t, "lock", "stamp")
  /\ mIsLocked' = TRUE
  /\ lockedAt' = now
  /\ UNCHANGED <<now, mFailedCount, mLockTime, sessions, lseen, sweepVars>>

\* Wrong on purpose: the lock keeps the time of the one before.
LockTimeOld == mLockTime

LockTime == now

StampLock(t) ==
  /\ Goto(t, "stamp", "clear")
  /\ mLockTime' = LockTime
  /\ UNCHANGED <<now, mIsLocked, mFailedCount, lockedAt, sessions, lseen, sweepVars>>

ClearCount(t) ==
  /\ Goto(t, "clear", "idle")
  /\ mFailedCount' = 0
  /\ UNCHANGED <<now, mIsLocked, mLockTime, lockedAt, sessions, lseen, sweepVars>>

-----------------------------------------------------------------------------
(* SessionManager::checkOverdue, called from tickUserEvent *)

\* Wrong on purpose: a session ends when its time is just reached.
OverdueAtOnce(time, created) == (time - created) % Word >= HoldTime

\* Wrong on purpose: the hold time is taken for seconds.
OverdueSeconds(time, created) == (time - created) % Word > HoldTime * 1000

\* Unsigned: a session younger than time is overdue.
Overdue(time, created) == (time - created) % Word > HoldTime

ReadClock ==
  /\ spc = "idle"
  /\ spc' = "collect"
  /\ sweepTime' = now
  /\ UNCHANGED <<now, lockVars, sessions, lpc, lseen, toErase>>

Collect ==
  /\ spc = "collect"
  /\ spc' = "erase"
  /\ toErase' = {id \in Ids : sessions[id] # NoTime /\ Overdue(sweepTime, sessions[id])}
  /\ UNCHANGED <<now, lockVars, sessions, lpc, lseen, sweepTime>>

Erase(id) ==
  /\ spc = "erase"
  /\ id \in toErase
  /\ toErase' = toErase \ {id}
  /\ sessions' = [sessions EXCEPT ![id] = NoTime]
  /\ UNCHANGED <<now, lockVars, lpc, lseen, spc, sweepTime>>

EndSweep ==
  /\ spc = "erase" /\ toErase = {}
  /\ spc' = "idle"
  /\ sweepTime' = 0
  /\ UNCHANGED <<now, lockVars, sessions, lpc, lseen, toErase>>

-----------------------------------------------------------------------------
LoginStep(t) ==
  \/ ReadLocked(t) \/ JudgeLock(t) \/ Unlock(t) \/ ResetCount(t)
  \/ \E right \in BOOLEAN : CompareNames(t, right)
  \/ RightPassword(t) \/ (\E id \in Ids : AddSession(t, id)) \/ WrongPassword(t)
  \/ CountFailures(t) \/ Lock(t) \/ StampLock(t) \/ ClearCount(t)

Sweep == ReadClock \/ Collect \/ (\E id \in Ids : Erase(id)) \/ EndSweep

LoginNext == Tick \/ (\E t \in LoginThreads : LoginStep(t)) \/ Sweep

LoginSpec == LoginInit /\ [][LoginNext]_loginVars

-----------------------------------------------------------------------------
LoginSteps == {"idle", "locked", "due", "unlocked", "login", "right", "enter", "wrong",
               "count", "lock", "stamp", "clear"}

LoginTypeOK ==
  /\ now \in 0 .. MaxClock
  /\ mIsLocked \in BOOLEAN
  /\ mFailedCount \in Nat
  /\ mLockTime \in Int /\ lockedAt \in Int
  /\ sessions \in [Ids -> (0 .. MaxClock) \cup {NoTime}]
  /\ lpc \in [LoginThreads -> LoginSteps]
  /\ lseen \in [LoginThreads -> Int]
  /\ spc \in {"idle", "collect", "erase"}
  /\ sweepTime \in 0 .. MaxClock
  /\ toErase \subseteq Ids

\* Logins between their failure and the end of the lock it may cause.
Acting == {t \in LoginThreads : lpc[t] \in {"count", "lock", "stamp", "clear"}}

\* A count at the limit is seen: as long as it stands there, a login is on its way to
\* test or to clear it, and each of those has added at most one failure since.  This
\* does not say that a lock follows: an unlocker may clear the count before it is
\* tested, see MCLogin.
LimitIsSeen ==
  mFailedCount >= MaxErrorTime => mFailedCount < MaxErrorTime + Cardinality(Acting)

\* The lock is lifted early only by a race: the login that lifts it has judged by an
\* older mLockTime than the lock has now, or another has set the flag and not yet the
\* time.  Every other unlock comes when LockHold has passed.
EarlyUnlockIsARace ==
  [][mIsLocked /\ ~mIsLocked' =>
       \/ now - lockedAt > LockHold
       \/ \E t \in LoginThreads : lpc[t] = "due" /\ lpc'[t] # "due" /\ lseen[t] # mLockTime
       \/ \E t \in LoginThreads : lpc[t] = "stamp"]_loginVars

\* Of the sessions that were there when the sweep read the clock it ends only those
\* whose time has passed.  The promise of the documents is wider: a session opened
\* after that, younger than any other, is ended as well, because its age wraps.
SweepSparesSeen ==
  [][\A id \in Ids : sessions[id] # NoTime /\ sessions'[id] = NoTime =>
       now - sessions[id] > HoldTime \/ sessions[id] > sweepTime]_loginVars

\* A session whose time has passed is ended.
SessionsExpire ==
  \A id \in Ids :
    (sessions[id] # NoTime /\ now > HoldTime + sessions[id]) ~> sessions[id] = NoTime
=============================================================================

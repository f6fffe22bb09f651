-------------------------- MODULE AdminLoginProofs --------------------------
(***************************************************************************)
(* For any finite number of logins and any clock: a count of failures at   *)
(* the limit is on its way to be tested or cleared, a lock is lifted before*)
(* its time by one of two races only, and of the sessions that were there  *)
(* when a sweep read the clock it ends those whose time has passed.  That  *)
(* the races happen, and break what the guide promises, MCLogin shows.     *)
(*                                                                         *)
(* LimitIsSeen is inductive with the types.  SweepSparesSeen needs what   *)
(* the sweep has collected to stay overdue until it is erased;             *)
(* EarlyUnlockIsARace needs the time that a login has judged by to stay    *)
(* past, and the time of the lock to be no older than the lock unless      *)
(* somebody has yet to set it.                                             *)
(***************************************************************************)
EXTENDS AdminLogin, FiniteSetTheorems, TLAPS

SweepIsPast ==
  /\ spc # "erase" => toErase = {}
  /\ sweepTime <= now
  /\ \A id \in toErase :
       /\ sessions[id] # NoTime
       /\ sessions[id] > sweepTime \/ sweepTime - sessions[id] > HoldTime

LockIsStamped ==
  /\ lockedAt <= now
  /\ (\A t \in LoginThreads : lpc[t] # "stamp") => lockedAt <= mLockTime
  /\ \A t \in LoginThreads : lpc[t] = "due" => now - lseen[t] > LockHold

-----------------------------------------------------------------------------
\* A clock that has not passed the word: an overdue session is old, or from the future.
LEMMA OverdueIsPast ==
  ASSUME NEW time \in 0 .. MaxClock, NEW created \in 0 .. MaxClock, Overdue(time, created)
  PROVE  created > time \/ time - created > HoldTime
<1> SUFFICES ASSUME created <= time PROVE time - created > HoldTime
  BY LoginTimesAssumption
<1>1. time - created \in 0 .. MaxClock
  BY LoginTimesAssumption
<1>2. MaxClock < Word /\ Word \in Nat
  BY LoginTimesAssumption
<1>3. \A n \in Int, m \in Int : 0 <= n /\ n < m => n % m = n
  OBVIOUS
<1>4. (time - created) % Word = time - created
  BY <1>1, <1>2, <1>3, LoginTimesAssumption
<1> QED
  BY <1>4 DEF Overdue

\* The logins that act are finitely many.
LEMMA ActingIsFinite ==
  /\ IsFiniteSet(Acting) /\ Cardinality(Acting) \in Nat
  /\ Cardinality(Acting) = 0 => Acting = {}
<1>1. Acting \subseteq LoginThreads
  BY DEF Acting
<1>2. IsFiniteSet(Acting)
  BY <1>1, LoginThreadsAssumption, FS_Subset
<1> QED
  BY <1>2, FS_CardinalityType, FS_EmptySet

\* A login that begins to act is counted.
LEMMA ActingGrows ==
  ASSUME NEW t \in LoginThreads, t \notin Acting, Acting' = Acting \cup {t}
  PROVE  Cardinality(Acting)' = Cardinality(Acting) + 1
<1>1. Cardinality(Acting \cup {t}) = Cardinality(Acting) + 1
  BY ActingIsFinite, FS_AddElement
<1> QED
  BY <1>1

LEMMA LoginInitInv == LoginInit => LoginTypeOK /\ LimitIsSeen /\ SweepIsPast
<1> SUFFICES ASSUME LoginInit PROVE LoginTypeOK /\ LimitIsSeen /\ SweepIsPast
  OBVIOUS
<1>1. LoginTypeOK
  <2>1. mIsLocked \in BOOLEAN
    BY Zenon DEF LoginInit
  <2>2. Epoch \in Int /\ 0 \in 0 .. MaxClock
    BY LoginTimesAssumption DEF Epoch
  <2>3. /\ now \in 0 .. MaxClock /\ sweepTime \in 0 .. MaxClock /\ mFailedCount \in Nat
        /\ mLockTime \in Int /\ lockedAt \in Int
    BY <2>2 DEF LoginInit
  <2>4. /\ sessions \in [Ids -> (0 .. MaxClock) \cup {NoTime}]
        /\ lpc \in [LoginThreads -> LoginSteps] /\ lseen \in [LoginThreads -> Int]
    BY <2>2 DEF LoginInit, LoginSteps
  <2>5. spc \in {"idle", "collect", "erase"} /\ toErase \subseteq Ids
    BY DEF LoginInit
  <2> QED
    BY ONLY <2>1, <2>3, <2>4, <2>5, Zenon DEF LoginTypeOK
<1>2. LimitIsSeen
  BY LoginTimesAssumption DEF LoginInit, LimitIsSeen
<1>3. SweepIsPast
  BY LoginTimesAssumption DEF LoginInit, SweepIsPast
<1> QED
  BY <1>1, <1>2, <1>3

-----------------------------------------------------------------------------
\* Types are kept by a login.
LEMMA LoginStepType ==
  ASSUME LoginTypeOK, NEW t \in LoginThreads, LoginStep(t)
  PROVE  LoginTypeOK'
<1> USE DEF Goto, lockVars, sweepVars
<1>1. CASE ReadLocked(t)
  BY <1>1 DEF ReadLocked, LoginTypeOK, LoginSteps
<1>2. CASE JudgeLock(t)
  BY <1>2 DEF JudgeLock, LoginTypeOK, LoginSteps
<1>3. CASE Unlock(t)
  <2>1. mIsLocked' \in BOOLEAN
    BY <1>3, Zenon DEF Unlock
  <2>2. Epoch \in Int
    BY LoginTimesAssumption DEF Epoch
  <2>3. lpc' \in [LoginThreads -> LoginSteps] /\ lseen' \in [LoginThreads -> Int]
    BY <1>3, <2>2 DEF Unlock, LoginTypeOK, LoginSteps
  <2>4. UNCHANGED <<now, mFailedCount, mLockTime, lockedAt, sessions, spc, sweepTime, toErase>>
    BY <1>3 DEF Unlock
  <2> QED
    BY <2>1, <2>3, <2>4, Zenon DEF LoginTypeOK
<1>4. CASE ResetCount(t)
  BY <1>4 DEF ResetCount, LoginTypeOK, LoginSteps
<1>5. CASE \E right \in BOOLEAN : CompareNames(t, right)
  BY <1>5 DEF CompareNames, LoginTypeOK, LoginSteps
<1>6. CASE RightPassword(t)
  BY <1>6 DEF RightPassword, LoginTypeOK, LoginSteps
<1>7. CASE \E id \in Ids : AddSession(t, id)
  BY <1>7 DEF AddSession, LoginTypeOK, LoginSteps
<1>8. CASE WrongPassword(t)
  BY <1>8 DEF WrongPassword, LoginTypeOK, LoginSteps
<1>9. CASE CountFailures(t)
  BY <1>9 DEF CountFailures, LoginTypeOK, LoginSteps
<1>10. CASE Lock(t)
  BY <1>10 DEF Lock, LoginTypeOK, LoginSteps
<1>11. CASE StampLock(t)
  BY <1>11 DEF StampLock, LoginTypeOK, LoginSteps, LockTime
<1>12. CASE ClearCount(t)
  BY <1>12 DEF ClearCount, LoginTypeOK, LoginSteps
<1> QED
  BY <1>1, <1>2, <1>3, <1>4, <1>5, <1>6, <1>7, <1>8, <1>9, <1>10, <1>11, <1>12 DEF LoginStep

\* Types are kept by the clock and the sweep.
LEMMA SweepType ==
  ASSUME LoginTypeOK, Tick \/ Sweep
  PROVE  LoginTypeOK'
<1> USE DEF lockVars, sweepVars
<1>1. CASE Tick
  BY <1>1, LoginTimesAssumption DEF Tick, LoginTypeOK
<1>2. CASE ReadClock
  BY <1>2 DEF ReadClock, LoginTypeOK
<1>3. CASE Collect
  BY <1>3 DEF Collect, LoginTypeOK
<1>4. CASE \E id \in Ids : Erase(id)
  BY <1>4 DEF Erase, LoginTypeOK
<1>5. CASE EndSweep
  BY <1>5, LoginTimesAssumption DEF EndSweep, LoginTypeOK
<1> QED
  BY <1>1, <1>2, <1>3, <1>4, <1>5 DEF Sweep

-----------------------------------------------------------------------------
\* Who acts after a login has taken a step.
LEMMA ActingAfter ==
  ASSUME LoginTypeOK, NEW t \in LoginThreads, NEW p, lpc' = [lpc EXCEPT ![t] = p]
  PROVE  Acting' = IF p \in {"count", "lock", "stamp", "clear"}
                   THEN Acting \cup {t} ELSE Acting \ {t}
BY DEF LoginTypeOK, Acting

\* A login that goes on acting, one that begins to and one that ends.
LEMMA ActingGoesOn ==
  ASSUME LoginTypeOK, NEW t \in Acting, NEW p \in {"count", "lock", "stamp", "clear"},
         lpc' = [lpc EXCEPT ![t] = p]
  PROVE  Acting' = Acting
<1>1. t \in LoginThreads
  BY DEF Acting
<1>2. Acting' = Acting \cup {t}
  BY <1>1, ActingAfter, Zenon
<1> QED
  BY <1>2

\* A login keeps the limit: it adds a failure as it begins to act, and does not
\* end before it has found the limit unreached or has reset the count.
LEMMA LoginStepLimit ==
  ASSUME LoginTypeOK, LimitIsSeen, NEW t \in LoginThreads, LoginStep(t)
  PROVE  LimitIsSeen'
<1> USE DEF Goto, lockVars
<1>0. MaxErrorTime \in Nat /\ MaxErrorTime > 0 /\ mFailedCount \in Nat
  BY LoginTimesAssumption DEF LoginTypeOK
<1>1. CASE mFailedCount' = 0
  BY <1>0, <1>1 DEF LimitIsSeen
<1>2. CASE /\ mFailedCount' = mFailedCount
           /\ Acting' = Acting
  BY <1>2 DEF LimitIsSeen
<1>3. CASE WrongPassword(t)
  <2>1. lpc' = [lpc EXCEPT ![t] = "count"] /\ t \notin Acting /\ mFailedCount' = mFailedCount + 1
    BY <1>3 DEF WrongPassword, Acting
  <2>2. Acting' = Acting \cup {t}
    BY <2>1, ActingAfter
  <2>3. Cardinality(Acting)' = Cardinality(Acting) + 1
    BY <2>1, <2>2, ActingGrows
  <2> QED
    BY <1>0, <2>1, <2>3, ActingIsFinite DEF LimitIsSeen
<1>4. CASE \E id \in Ids : AddSession(t, id)
  <2>1. lpc' = [lpc EXCEPT ![t] = "count"] /\ t \notin Acting /\ mFailedCount' = mFailedCount
    BY <1>4 DEF AddSession, Acting
  <2>2. Acting' = Acting \cup {t}
    BY <2>1, ActingAfter
  <2>3. Cardinality(Acting)' = Cardinality(Acting) + 1
    BY <2>1, <2>2, ActingGrows
  <2> QED
    BY <1>0, <2>1, <2>3, ActingIsFinite DEF LimitIsSeen
<1>5. CASE CountFailures(t)
  <2>1. CASE AtLimit
    <3>1. lpc' = [lpc EXCEPT ![t] = "lock"] /\ t \in Acting /\ mFailedCount' = mFailedCount
      BY <1>5, <2>1 DEF CountFailures, Acting
    <3>2. Acting' = Acting
      BY <3>1, ActingGoesOn
    <3> QED
      BY <3>1, <3>2, <1>2
  <2>2. CASE ~AtLimit
    BY <1>0, <1>5, <2>2 DEF CountFailures, AtLimit, LimitIsSeen
  <2> QED
    BY <2>1, <2>2
<1>6. CASE Lock(t)
  <2>1. lpc' = [lpc EXCEPT ![t] = "stamp"] /\ t \in Acting /\ mFailedCount' = mFailedCount
    BY <1>6 DEF Lock, Acting
  <2>2. Acting' = Acting
    BY <2>1, ActingGoesOn
  <2> QED
    BY <2>1, <2>2, <1>2
<1>7. CASE StampLock(t)
  <2>1. lpc' = [lpc EXCEPT ![t] = "clear"] /\ t \in Acting /\ mFailedCount' = mFailedCount
    BY <1>7 DEF StampLock, Acting
  <2>2. Acting' = Acting
    BY <2>1, ActingGoesOn
  <2> QED
    BY <2>1, <2>2, <1>2
<1>8. CASE ReadLocked(t)
  <2>1. lpc[t] = "idle" /\ mFailedCount' = mFailedCount /\ lpc' \in {[lpc EXCEPT ![t] = "locked"],
                                                                   [lpc EXCEPT ![t] = "login"]}
    BY <1>8 DEF ReadLocked
  <2>2. Acting' = Acting
    BY <2>1, ActingAfter DEF Acting
  <2> QED
    BY <2>1, <2>2, <1>2
<1>9. CASE JudgeLock(t)
  <2>1. lpc[t] = "locked" /\ mFailedCount' = mFailedCount /\ lpc' \in {[lpc EXCEPT ![t] = "due"],
                                                                     [lpc EXCEPT ![t] = "idle"]}
    BY <1>9 DEF JudgeLock
  <2>2. Acting' = Acting
    BY <2>1, ActingAfter DEF Acting
  <2> QED
    BY <2>1, <2>2, <1>2
<1>10. CASE Unlock(t)
  <2>1. lpc[t] = "due" /\ mFailedCount' = mFailedCount /\ lpc' = [lpc EXCEPT ![t] = "unlocked"]
    BY <1>10 DEF Unlock
  <2>2. Acting' = Acting
    BY <2>1, ActingAfter DEF Acting
  <2> QED
    BY <2>1, <2>2, <1>2
<1>11. CASE \E right \in BOOLEAN : CompareNames(t, right)
  <2>1. lpc[t] = "login" /\ mFailedCount' = mFailedCount
    BY <1>11 DEF CompareNames
  <2>2. lpc' \in {[lpc EXCEPT ![t] = "idle"], [lpc EXCEPT ![t] = "right"],
                  [lpc EXCEPT ![t] = "wrong"]}
    BY <1>11 DEF CompareNames
  <2>3. Acting' = Acting
    BY <2>1, <2>2, ActingAfter DEF Acting
  <2> QED
    BY <2>1, <2>3, <1>2
<1>12. CASE ResetCount(t) \/ RightPassword(t) \/ ClearCount(t)
  BY <1>1, <1>12 DEF ResetCount, RightPassword, ClearCount
<1> QED
  BY <1>3, <1>4, <1>5, <1>6, <1>7, <1>8, <1>9, <1>10, <1>11, <1>12 DEF LoginStep

-----------------------------------------------------------------------------
\* What a sweep has collected stays overdue: only it erases, and a new session
\* takes no identifier in use.
LEMMA SweepStaysPast ==
  ASSUME LoginTypeOK, SweepIsPast, LoginNext
  PROVE  SweepIsPast'
<1>0. now \in Int /\ sweepTime \in Int
  BY LoginTimesAssumption DEF LoginTypeOK
<1>1. CASE Tick
  BY <1>0, <1>1 DEF Tick, SweepIsPast, sweepVars
<1>2. ASSUME NEW t \in LoginThreads, NEW id \in Ids, AddSession(t, id) PROVE SweepIsPast'
  <2>1. \A i \in toErase : i # id /\ sessions'[i] = sessions[i]
    BY <1>2 DEF AddSession, SweepIsPast, LoginTypeOK
  <2> QED
    BY <1>2, <2>1 DEF AddSession, SweepIsPast, sweepVars
<1>3. ASSUME NEW t \in LoginThreads, LoginStep(t), ~ \E id \in Ids : AddSession(t, id)
      PROVE  SweepIsPast'
  <2>1. UNCHANGED <<now, sessions, sweepVars>>
    BY <1>3 DEF LoginStep, ReadLocked, JudgeLock, Unlock, ResetCount, CompareNames, RightPassword,
                WrongPassword, CountFailures, Lock, StampLock, ClearCount
  <2> QED
    BY <2>1 DEF SweepIsPast, sweepVars
<1>4. CASE ReadClock
  <2>1. sweepTime' = now /\ now' = now /\ sessions' = sessions /\ toErase' = toErase
    BY <1>4 DEF ReadClock
  <2> QED
    BY <1>0, <2>1, <1>4 DEF SweepIsPast, ReadClock
<1>5. CASE Collect
  <2>1. UNCHANGED <<now, sessions, sweepTime>> /\ spc' = "erase"
    BY <1>5 DEF Collect
  <2>2. \A id \in toErase' : sessions[id] \in 0 .. MaxClock /\ Overdue(sweepTime, sessions[id])
    BY <1>5 DEF Collect, LoginTypeOK
  <2>3. sweepTime \in 0 .. MaxClock
    BY DEF LoginTypeOK
  <2>4. \A id \in toErase' : sessions[id] > sweepTime \/ sweepTime - sessions[id] > HoldTime
    BY <2>2, <2>3, OverdueIsPast
  <2>5. \A id \in toErase' : sessions[id] # NoTime
    BY <1>5 DEF Collect
  <2> QED
    BY <2>1, <2>4, <2>5 DEF SweepIsPast
<1>6. ASSUME NEW id \in Ids, Erase(id) PROVE SweepIsPast'
  <2>1. \A i \in toErase' : i \in toErase /\ i # id /\ sessions'[i] = sessions[i]
    BY <1>6 DEF Erase, LoginTypeOK
  <2> QED
    BY <1>6, <2>1 DEF Erase, SweepIsPast
<1>7. CASE EndSweep
  BY <1>7, LoginTimesAssumption DEF EndSweep, SweepIsPast, LoginTypeOK
<1> QED
  BY <1>1, <1>2, <1>3, <1>4, <1>5, <1>6, <1>7 DEF LoginNext, Sweep
-----------------------------------------------------------------------------
LEMMA LoginInv ==
  LoginSpec => [](LoginTypeOK /\ LimitIsSeen /\ SweepIsPast)
<1>1. LoginTypeOK /\ LimitIsSeen /\ SweepIsPast /\ [LoginNext]_loginVars
        => (LoginTypeOK /\ LimitIsSeen /\ SweepIsPast)'
  <2> SUFFICES ASSUME LoginTypeOK, LimitIsSeen, SweepIsPast, [LoginNext]_loginVars
               PROVE  (LoginTypeOK /\ LimitIsSeen /\ SweepIsPast)'
    OBVIOUS
  <2>1. CASE UNCHANGED loginVars
    BY <2>1 DEF loginVars, lockVars, sweepVars, LoginTypeOK, LimitIsSeen, Acting, SweepIsPast
  <2>2. CASE LoginNext
    <3>1. SweepIsPast'
      BY <2>2, SweepStaysPast
    <3>2. CASE Tick \/ Sweep
      <4>1. UNCHANGED <<mFailedCount, lpc>>
        BY <3>2 DEF Tick, Sweep, ReadClock, Collect, Erase, EndSweep, lockVars
      <4> QED
        BY <3>1, <3>2, <4>1, SweepType DEF LimitIsSeen, Acting
    <3>3. CASE \E t \in LoginThreads : LoginStep(t)
      BY <3>1, <3>3, LoginStepType, LoginStepLimit
    <3> QED
      BY <2>2, <3>2, <3>3 DEF LoginNext
  <2> QED
    BY <2>1, <2>2
<1> QED
  BY <1>1, LoginInitInv, PTL DEF LoginSpec

\* The types of the login and its sessions.
THEOREM LoginTypes == LoginSpec => []LoginTypeOK
BY LoginInv, PTL

\* LimitIsSeen: while the count is at MaxErrorTime some login is about to test or to
\* clear it, and it exceeds the limit by fewer than those.
THEOREM LoginLimit == LoginSpec => []LimitIsSeen
BY LoginInv, PTL

\* SweepSparesSeen: of the sessions opened before it read the clock checkOverdue ends
\* those whose time has passed.  It says nothing of a session opened after that, which
\* the code ends at once.
THEOREM LoginSweep == LoginSpec => SweepSparesSeen
<1>1. LoginTypeOK /\ SweepIsPast /\ [LoginNext]_loginVars
        => [\A id \in Ids : sessions[id] # NoTime /\ sessions'[id] = NoTime =>
              now - sessions[id] > HoldTime \/ sessions[id] > sweepTime]_loginVars
  <2> SUFFICES ASSUME LoginTypeOK, SweepIsPast, LoginNext,
                      NEW id \in Ids, sessions[id] # NoTime, sessions'[id] = NoTime
               PROVE  now - sessions[id] > HoldTime \/ sessions[id] > sweepTime
    OBVIOUS
  <2>1. id \in toErase
    <3>1. CASE Tick \/ ReadClock \/ Collect \/ EndSweep
      BY <3>1 DEF Tick, ReadClock, Collect, EndSweep
    <3>2. CASE \E t \in LoginThreads : LoginStep(t)
      <4>1. ASSUME NEW t \in LoginThreads, NEW i \in Ids, AddSession(t, i) PROVE FALSE
        <5>1. now # NoTime
          BY LoginTimesAssumption DEF LoginTypeOK
        <5> QED
          BY <4>1, <5>1 DEF AddSession, LoginTypeOK
      <4> QED
        BY <3>2, <4>1 DEF LoginStep, ReadLocked, JudgeLock, Unlock, ResetCount, CompareNames,
             RightPassword, WrongPassword, CountFailures, Lock, StampLock, ClearCount
    <3>3. CASE \E i \in Ids : Erase(i)
      BY <3>3 DEF Erase, LoginTypeOK
    <3> QED
      BY <3>1, <3>2, <3>3 DEF LoginNext, Sweep
  <2>2. now \in Int /\ sweepTime \in Int /\ sessions[id] \in Int /\ HoldTime \in Int
    BY LoginTimesAssumption DEF LoginTypeOK
  <2> QED
    BY <2>1, <2>2 DEF SweepIsPast
<1> QED
  BY <1>1, LoginInv, PTL DEF LoginSpec, SweepSparesSeen

-----------------------------------------------------------------------------
\* Only who locks leaves the time of the lock behind, and who judges it as past
\* remembers a time that stays past.
LEMMA LockStaysStamped ==
  ASSUME LoginTypeOK, LockIsStamped, LoginNext
  PROVE  LockIsStamped'
<1> USE DEF Goto, lockVars, sweepVars
<1>0. /\ now \in Int /\ lockedAt \in Int /\ mLockTime \in Int /\ LockHold \in Int
      /\ \A t \in LoginThreads : lseen[t] \in Int
  BY LoginTimesAssumption DEF LoginTypeOK
<1>1. CASE Tick
  BY <1>0, <1>1 DEF Tick, LockIsStamped
<1>2. CASE Sweep
  BY <1>2 DEF Sweep, ReadClock, Collect, Erase, EndSweep, LockIsStamped
<1>3. ASSUME NEW t \in LoginThreads, JudgeLock(t) PROVE LockIsStamped'
  <2>1. UNCHANGED <<now, lockedAt, mLockTime>> /\ lpc[t] = "locked"
    BY <1>3 DEF JudgeLock
  <2>2. \A v \in LoginThreads : v # t => lpc'[v] = lpc[v] /\ lseen'[v] = lseen[v]
    BY <1>3 DEF JudgeLock, LoginTypeOK
  <2>3. lpc'[t] # "stamp" /\ (lpc'[t] = "due" => now - lseen'[t] > LockHold)
    BY <1>3 DEF JudgeLock, LoginTypeOK
  <2> QED
    BY <2>1, <2>2, <2>3 DEF LockIsStamped
<1>4. ASSUME NEW t \in LoginThreads, Lock(t) PROVE LockIsStamped'
  <2>1. /\ lockedAt' = now /\ UNCHANGED <<now, mLockTime, lseen>>
        /\ lpc' = [lpc EXCEPT ![t] = "stamp"]
    BY <1>4 DEF Lock
  <2>2. lpc'[t] = "stamp" /\ \A v \in LoginThreads : v # t => lpc'[v] = lpc[v]
    BY <2>1 DEF LoginTypeOK
  <2> QED
    BY <1>0, <2>1, <2>2 DEF LockIsStamped
<1>5. ASSUME NEW t \in LoginThreads, StampLock(t) PROVE LockIsStamped'
  <2>1. /\ mLockTime' = now /\ UNCHANGED <<now, lockedAt, lseen>>
        /\ lpc' = [lpc EXCEPT ![t] = "clear"]
    BY <1>5 DEF StampLock, LockTime
  <2>2. lpc'[t] = "clear" /\ \A v \in LoginThreads : v # t => lpc'[v] = lpc[v]
    BY <2>1 DEF LoginTypeOK
  <2> QED
    BY <1>0, <2>1, <2>2 DEF LockIsStamped
<1>6. ASSUME NEW t \in LoginThreads, LoginStep(t), ~JudgeLock(t), ~Lock(t), ~StampLock(t)
      PROVE  LockIsStamped'
  <2>1. UNCHANGED <<now, lockedAt, mLockTime>>
    BY <1>6 DEF LoginStep, ReadLocked, Unlock, ResetCount, CompareNames, RightPassword,
                AddSession, WrongPassword, CountFailures, ClearCount
  <2>2. lpc[t] # "stamp" /\ lpc'[t] \notin {"stamp", "due"}
    BY <1>6 DEF LoginStep, ReadLocked, Unlock, ResetCount, CompareNames, RightPassword,
                AddSession, WrongPassword, CountFailures, ClearCount, LoginTypeOK
  <2>3. \A v \in LoginThreads : v # t => lpc'[v] = lpc[v] /\ lseen'[v] = lseen[v]
    BY <1>6 DEF LoginStep, ReadLocked, Unlock, ResetCount, CompareNames, RightPassword,
                AddSession, WrongPassword, CountFailures, ClearCount, LoginTypeOK
  <2> QED
    BY <2>1, <2>2, <2>3 DEF LockIsStamped
<1> QED
  BY <1>1, <1>2, <1>3, <1>4, <1>5, <1>6 DEF LoginNext

\* EarlyUnlockIsARace: a lock that is lifted before LockHold has passed is lifted by a
\* login that judged by an older time than the lock has now, or while another has set
\* the flag and not yet the time.  These are the ways in which the code breaks the
\* sixty minutes of the guide by an unlock; the theorem says there are no others.
THEOREM LoginUnlock == LoginSpec => EarlyUnlockIsARace
<1>1. LoginInit => LockIsStamped
  BY LoginTimesAssumption DEF LoginInit, LockIsStamped, Epoch
<1>2. LoginTypeOK /\ LockIsStamped /\ [LoginNext]_loginVars => LockIsStamped'
  BY LockStaysStamped DEF loginVars, lockVars, LockIsStamped
<1>3. LoginTypeOK /\ LockIsStamped /\ [LoginNext]_loginVars
        => [mIsLocked /\ ~mIsLocked' =>
              \/ now - lockedAt > LockHold
              \/ \E t \in LoginThreads :
                   lpc[t] = "due" /\ lpc'[t] # "due" /\ lseen[t] # mLockTime
              \/ \E t \in LoginThreads : lpc[t] = "stamp"]_loginVars
  <2> SUFFICES ASSUME LoginTypeOK, LockIsStamped, LoginNext, mIsLocked, ~mIsLocked',
                      \A t \in LoginThreads : lpc[t] # "stamp"
               PROVE  \/ now - lockedAt > LockHold
                      \/ \E t \in LoginThreads :
                           lpc[t] = "due" /\ lpc'[t] # "due" /\ lseen[t] # mLockTime
    OBVIOUS
  <2>1. PICK t \in LoginThreads : Unlock(t)
    <3>1. mIsLocked' # mIsLocked
      BY Zenon
    <3>2. Tick \/ Sweep => mIsLocked' = mIsLocked
      BY Zenon DEF Tick, Sweep, ReadClock, Collect, Erase, EndSweep, lockVars
    <3>3. \A t \in LoginThreads : LoginStep(t) =>
            Unlock(t) \/ Lock(t) \/ mIsLocked' = mIsLocked
      BY Zenon DEF LoginStep, ReadLocked, JudgeLock, ResetCount, CompareNames, RightPassword,
         AddSession, WrongPassword, CountFailures, StampLock, ClearCount, lockVars
    <3>4. \A t \in LoginThreads : Lock(t) => mIsLocked'
      BY Zenon DEF Lock
    <3> QED
      BY <3>1, <3>2, <3>3, <3>4, Zenon DEF LoginNext
  <2>2. lpc[t] = "due" /\ lpc'[t] = "unlocked"
    BY <2>1 DEF Unlock, Goto, LoginTypeOK
  <2>3. now - lseen[t] > LockHold /\ lockedAt <= mLockTime
    BY <2>2 DEF LockIsStamped
  <2>4. now \in Int /\ lockedAt \in Int /\ mLockTime \in Int /\ LockHold \in Int
        /\ lseen[t] \in Int
    BY LoginTimesAssumption DEF LoginTypeOK
  <2>5. lseen[t] = mLockTime => now - lockedAt > LockHold
    BY <2>3, <2>4
  <2> QED
    BY <2>2, <2>5
<1> QED
  BY <1>1, <1>2, <1>3, LoginInv, PTL DEF LoginSpec, EarlyUnlockIsARace
=============================================================================

------------------------ MODULE FConcurrentMapProofs ------------------------
(***************************************************************************)
(* For any finite set of threads: the counters of the lock never go        *)
(* negative, erase, clear and insert run alone in the map, and the lock    *)
(* implements ReadersWriter.                                               *)
(*                                                                         *)
(* Exclusion is not inductive.  The strengthening says what the counters   *)
(* count, who holds which mutex, and that from the moment a writer has     *)
(* seen the readers drained until it has withdrawn no reader is counted.   *)
(***************************************************************************)
EXTENDS FConcurrentMap, FiniteSetTheorems, TLAPS

Readers == {t \in Threads : Reading(t)}
Writers == {t \in Threads : Announced(t)}

CountsCount ==
  /\ mReadingCounts = Cardinality(Readers)
  /\ mWriteLock = Cardinality(Writers)

InMutex == {"checkRead", "counted", "announce", "announced", "leave", "left"}

MutexesHeld ==
  \A t \in Threads :
    /\ pc[t] \in InMutex <=> mWriteMutex = t
    /\ pc[t] = "writing" <=> mModifyMutex = t

DrainedStays ==
  \A t, u \in Threads :
    pc[t] \in {"lockModify", "writing", "wantLeave", "leave"} => ~Reading(u)

IInv == MapTypeOK /\ CountsCount /\ MutexesHeld /\ DrainedStays

-----------------------------------------------------------------------------
\* A counter is zero exactly when nobody is counted.
LEMMA ZeroIsNobody ==
  ASSUME CountsCount
  PROVE  /\ IsFiniteSet(Readers) /\ IsFiniteSet(Writers)
         /\ mReadingCounts \in Nat /\ mWriteLock \in Nat
         /\ mReadingCounts = 0 => \A t \in Threads : ~Reading(t)
         /\ mWriteLock = 0 => \A t \in Threads : ~Announced(t)
<1>1. IsFiniteSet(Readers) /\ IsFiniteSet(Writers)
  BY ThreadsAssumption, FS_Subset DEF Readers, Writers
<1>2. Cardinality(Readers) \in Nat /\ Cardinality(Writers) \in Nat
  BY <1>1, FS_CardinalityType
<1>3. Cardinality(Readers) = 0 => Readers = {}
  BY <1>1, FS_EmptySet
<1>4. Cardinality(Writers) = 0 => Writers = {}
  BY <1>1, FS_EmptySet
<1> QED
  BY <1>1, <1>2, <1>3, <1>4 DEF CountsCount, Readers, Writers

\* Nobody is counted and both mutexes are free at first.
LEMMA MapInitInv == MapInit => IInv
<1> SUFFICES ASSUME MapInit PROVE IInv
  OBVIOUS
<1>1. MapTypeOK
  BY DEF MapInit, MapTypeOK, Points
<1>2. Readers = {} /\ Writers = {}
  BY DEF MapInit, Readers, Writers, Reading, Announced
<1>3. CountsCount
  BY <1>2, FS_EmptySet DEF MapInit, CountsCount
<1>4. MutexesHeld /\ DrainedStays
  BY NoThreadAssumption DEF MapInit, MutexesHeld, InMutex, DrainedStays, Reading
<1> QED
  BY <1>1, <1>3, <1>4 DEF IInv

\* A step that changes neither counter, and moves t between two points that
\* count alike, keeps the counters true.
LEMMA SameCounts ==
  ASSUME IInv, NEW t \in Threads, NEW from, NEW to \in Points, Go(t, from, to),
         UNCHANGED <<mReadingCounts, mWriteLock>>,
         Reading(t)' <=> Reading(t), Announced(t)' <=> Announced(t)
  PROVE  CountsCount'
<1>1. \A u \in Threads : u # t => pc'[u] = pc[u]
  BY DEF IInv, MapTypeOK, Go
<1>2. \A u \in Threads : (Reading(u)' <=> Reading(u)) /\ (Announced(u)' <=> Announced(u))
  BY <1>1 DEF Reading, Announced
<1>3. Readers' = Readers /\ Writers' = Writers
  BY <1>2 DEF Readers, Writers
<1> QED
  BY <1>3 DEF IInv, CountsCount

\* The strengthened invariant is inductive.
LEMMA MapNextInv == IInv /\ [MapNext]_mapVars => IInv'
<1> SUFFICES ASSUME IInv, [MapNext]_mapVars PROVE IInv'
  OBVIOUS
<1> USE DEF IInv
<1>1. CASE UNCHANGED mapVars
  BY <1>1 DEF mapVars, MapTypeOK, CountsCount, Readers, Writers, Reading, Announced,
              MutexesHeld, DrainedStays
<1>2. ASSUME NEW t \in Threads, Start(t) \/ Proceed(t) PROVE IInv'
  <2>1. CASE StartRead(t)
    <3>1. CountsCount'
      BY <2>1, SameCounts DEF StartRead, Go, MapTypeOK, Points, Reading, Announced
    <3>2. MapTypeOK' /\ MutexesHeld' /\ DrainedStays'
      BY <2>1 DEF StartRead, Go, MapTypeOK, Points, MutexesHeld, InMutex, DrainedStays, Reading
    <3> QED BY <3>1, <3>2
  <2>2. CASE StartWrite(t)
    <3>1. CountsCount'
      BY <2>2, SameCounts DEF StartWrite, Go, MapTypeOK, Points, Reading, Announced
    <3>2. MapTypeOK' /\ MutexesHeld' /\ DrainedStays'
      BY <2>2 DEF StartWrite, Go, MapTypeOK, Points, MutexesHeld, InMutex, DrainedStays, Reading
    <3> QED BY <3>1, <3>2
  <2>3. ASSUME NEW from, NEW to, LockMutex(t, from, to),
               <<from, to>> \in {<<"wantRead", "checkRead">>, <<"wantWrite", "announce">>,
                                 <<"wantLeave", "leave">>}
        PROVE  IInv'
    <3>1. CountsCount'
      BY <2>3, SameCounts DEF LockMutex, Go, MapTypeOK, Points, Reading, Announced
    <3>2. MapTypeOK'
      BY <2>3 DEF LockMutex, Go, MapTypeOK, Points
    <3>3. MutexesHeld'
      BY <2>3, NoThreadAssumption DEF LockMutex, Go, MapTypeOK, Points, MutexesHeld, InMutex
    <3>4. DrainedStays'
      BY <2>3 DEF LockMutex, Go, MapTypeOK, Points, DrainedStays, Reading
    <3> QED BY <3>1, <3>2, <3>3, <3>4
  <2>4. ASSUME NEW from, NEW to, UnlockMutex(t, from, to),
               <<from, to>> \in {<<"checkRead", "wantRead">>, <<"counted", "reading">>,
                                 <<"announced", "drain">>, <<"left", "idle">>}
        PROVE  IInv'
    <3>1. CountsCount'
      BY <2>4, SameCounts DEF UnlockMutex, Go, MapTypeOK, Points, Reading, Announced
    <3>2. MapTypeOK'
      BY <2>4 DEF UnlockMutex, Go, MapTypeOK, Points
    <3>3. MutexesHeld'
      BY <2>4, NoThreadAssumption DEF UnlockMutex, Go, MapTypeOK, Points, MutexesHeld, InMutex
    <3>4. DrainedStays'
      BY <2>4 DEF UnlockMutex, Go, MapTypeOK, Points, DrainedStays, Reading
    <3> QED BY <3>1, <3>2, <3>3, <3>4
  <2>5. CASE CountIn(t)
    <3>1. \A u \in Threads : ~Announced(u)
      BY <2>5, ZeroIsNobody DEF CountIn
    <3>2. Readers' = Readers \cup {t} /\ t \notin Readers /\ Writers' = Writers
      BY <2>5 DEF CountIn, Go, MapTypeOK, Readers, Writers, Reading, Announced
    <3>3. CountsCount'
      BY <2>5, <3>2, ZeroIsNobody, FS_AddElement DEF CountIn, CountsCount
    <3>4. MapTypeOK'
      BY <2>5 DEF CountIn, Go, MapTypeOK, Points
    <3>5. MutexesHeld'
      BY <2>5 DEF CountIn, Go, MapTypeOK, MutexesHeld, InMutex
    <3>6. DrainedStays'
      BY <2>5, <3>1 DEF CountIn, Go, MapTypeOK, DrainedStays, Announced
    <3> QED BY <3>3, <3>4, <3>5, <3>6
  <2>6. CASE TryUnlockRead(t)
    <3>1. Readers' = Readers \ {t} /\ t \in Readers /\ Writers' = Writers
      BY <2>6 DEF TryUnlockRead, Go, MapTypeOK, Readers, Writers, Reading, Announced
    <3>2. CountsCount'
      BY <2>6, <3>1, ZeroIsNobody, FS_RemoveElement DEF TryUnlockRead, CountsCount
    <3>3. mReadingCounts' \in Nat
      BY <3>1, <3>2, ZeroIsNobody, FS_RemoveElement, FS_CardinalityType DEF CountsCount
    <3>4. MapTypeOK'
      BY <2>6, <3>3 DEF TryUnlockRead, Go, MapTypeOK, Points
    <3>5. MutexesHeld' /\ DrainedStays'
      BY <2>6 DEF TryUnlockRead, Go, MapTypeOK, MutexesHeld, InMutex, DrainedStays, Reading
    <3> QED BY <3>2, <3>4, <3>5
  <2>7. CASE Announce(t)
    <3>1. Readers' = Readers /\ t \notin Writers /\ Writers' = Writers \cup {t}
      BY <2>7 DEF Announce, Go, MapTypeOK, Readers, Writers, Reading, Announced
    <3>2. CountsCount'
      BY <2>7, <3>1, ZeroIsNobody, FS_AddElement DEF Announce, CountsCount
    <3>3. MapTypeOK'
      BY <2>7 DEF Announce, Go, MapTypeOK, Points
    <3>4. MutexesHeld' /\ DrainedStays'
      BY <2>7 DEF Announce, Go, MapTypeOK, MutexesHeld, InMutex, DrainedStays, Reading
    <3> QED BY <3>2, <3>3, <3>4
  <2>8. CASE Drained(t)
    <3>1. CountsCount'
      BY <2>8, SameCounts DEF Drained, Go, MapTypeOK, Points, Reading, Announced
    <3>2. \A u \in Threads : ~Reading(u)
      BY <2>8, ZeroIsNobody DEF Drained
    <3>3. MapTypeOK'
      BY <2>8 DEF Drained, Go, MapTypeOK, Points
    <3>4. MutexesHeld'
      BY <2>8 DEF Drained, Go, MapTypeOK, MutexesHeld, InMutex
    <3>5. DrainedStays'
      BY <2>8, <3>2 DEF Drained, Go, MapTypeOK, DrainedStays, Reading
    <3> QED BY <3>1, <3>3, <3>4, <3>5
  <2>9. CASE LockModify(t)
    <3>1. CountsCount'
      BY <2>9, SameCounts DEF LockModify, Go, MapTypeOK, Points, Reading, Announced
    <3>2. MapTypeOK'
      BY <2>9 DEF LockModify, Go, MapTypeOK, Points
    <3>3. MutexesHeld'
      BY <2>9, NoThreadAssumption DEF LockModify, Go, MapTypeOK, MutexesHeld, InMutex
    <3>4. DrainedStays'
      BY <2>9 DEF LockModify, Go, MapTypeOK, DrainedStays, Reading
    <3> QED BY <3>1, <3>2, <3>3, <3>4
  <2>10. CASE UnlockModify(t)
    <3>1. CountsCount'
      BY <2>10, SameCounts DEF UnlockModify, Go, MapTypeOK, Points, Reading, Announced
    <3>2. MapTypeOK'
      BY <2>10 DEF UnlockModify, Go, MapTypeOK, Points
    <3>3. MutexesHeld'
      BY <2>10, NoThreadAssumption DEF UnlockModify, Go, MapTypeOK, MutexesHeld, InMutex
    <3>4. DrainedStays'
      BY <2>10 DEF UnlockModify, Go, MapTypeOK, DrainedStays, Reading
    <3> QED BY <3>1, <3>2, <3>3, <3>4
  <2>11. CASE CountOut(t)
    <3>1. Readers' = Readers /\ t \in Writers /\ Writers' = Writers \ {t}
      BY <2>11 DEF CountOut, Go, MapTypeOK, Readers, Writers, Reading, Announced
    <3>2. CountsCount'
      BY <2>11, <3>1, ZeroIsNobody, FS_RemoveElement DEF CountOut, CountsCount
    <3>3. mWriteLock' \in Nat
      BY <3>1, <3>2, ZeroIsNobody, FS_RemoveElement, FS_CardinalityType DEF CountsCount
    <3>4. MapTypeOK'
      BY <2>11, <3>3 DEF CountOut, Go, MapTypeOK, Points
    <3>5. MutexesHeld' /\ DrainedStays'
      BY <2>11 DEF CountOut, Go, MapTypeOK, MutexesHeld, InMutex, DrainedStays, Reading
    <3> QED BY <3>2, <3>4, <3>5
  <2> QED
    BY <1>2, <2>1, <2>2, <2>3, <2>4, <2>5, <2>6, <2>7, <2>8, <2>9, <2>10, <2>11
    DEF Start, Proceed, TryLockRead, Refused, TryLockWrite, TryUnlockWrite
<1> QED
  BY <1>1, <1>2 DEF MapNext

\* The counters, the mutexes and the drained map are as IInv says in every
\* reachable state.
THEOREM Invariance == MapSpec => []IInv
<1> QED
  BY MapInitInv, MapNextInv, PTL DEF MapSpec

\* The counters count, and never below zero (ReadCheck and WriteCheck).
THEOREM TypeCorrect == MapSpec => []MapTypeOK
<1>1. IInv => MapTypeOK
  BY DEF IInv
<1> QED
  BY <1>1, Invariance, PTL

\* erase, clear and insert have the map to themselves.
THEOREM ExclusionHolds == MapSpec => []Exclusion
<1>1. IInv => Exclusion
  BY NoThreadAssumption
  DEF IInv, MapTypeOK, MutexesHeld, DrainedStays, Exclusion, Reading
<1> QED
  BY <1>1, Invariance, PTL

-----------------------------------------------------------------------------
\* The lock implements ReadersWriter: CountIn is BeginRead, TryUnlockRead is
\* EndRead, Announce is Claim, LockModify is BeginWrite, UnlockModify is
\* EndWrite, CountOut is Withdraw, and every other step is invisible.
LEMMA StepRefines == IInv /\ [MapNext]_mapVars => [RW!Next]_([t \in Threads |-> Phase(t)])
<1> DEFINE phase == [t \in Threads |-> Phase(t)]
<1> SUFFICES ASSUME IInv, [MapNext]_mapVars PROVE RW!Next \/ phase' = phase
  OBVIOUS
<1> USE DEF IInv
<1>1. CASE UNCHANGED mapVars
  BY <1>1 DEF mapVars, Phase, Reading
<1>2. ASSUME NEW t \in Threads, Start(t) \/ Proceed(t) PROVE RW!Next \/ phase' = phase
  <2>0. ASSUME NEW from, NEW to, Go(t, from, to)
        PROVE  phase' = [phase EXCEPT ![t] = Phase(t)']
    BY <2>0 DEF Go, MapTypeOK, Phase, Reading
  <2>1. CASE CountIn(t)
    <3>1. \A u \in Threads : ~Announced(u)
      BY <2>1, ZeroIsNobody DEF CountIn
    <3>2. \A u \in Threads : Phase(u) \in {"idle", "reading"}
      BY <3>1 DEF Phase, Announced
    <3>3. Phase(t) = "idle" /\ Phase(t)' = "reading"
      BY <2>1 DEF CountIn, Go, MapTypeOK, Phase, Reading
    <3>4. RW!BeginRead(t)
      BY <2>0, <2>1, <3>2, <3>3 DEF CountIn, RW!BeginRead, RW!Go
    <3> QED BY <3>4 DEF RW!Next
  <2>2. CASE TryUnlockRead(t)
    <3>1. Phase(t) = "reading" /\ Phase(t)' = "idle"
      BY <2>2 DEF TryUnlockRead, Go, MapTypeOK, Phase, Reading
    <3>2. RW!EndRead(t)
      BY <2>0, <2>2, <3>1 DEF TryUnlockRead, RW!EndRead, RW!Go
    <3> QED BY <3>2 DEF RW!Next
  <2>3. CASE Announce(t)
    <3>1. Phase(t) = "idle" /\ Phase(t)' = "claimed"
      BY <2>3 DEF Announce, Go, MapTypeOK, Phase, Reading
    <3>2. RW!Claim(t)
      BY <2>0, <2>3, <3>1 DEF Announce, RW!Claim, RW!Go
    <3> QED BY <3>2 DEF RW!Next
  <2>4. CASE LockModify(t)
    <3>1. Phase(t) = "claimed" /\ Phase(t)' = "writing"
      BY <2>4 DEF LockModify, Go, MapTypeOK, Phase, Reading
    <3>2. \A u \in Threads : Phase(u) \notin {"reading", "writing"}
      BY <2>4, NoThreadAssumption
      DEF LockModify, Go, MapTypeOK, Points, Phase, Reading, DrainedStays, MutexesHeld
    <3>3. RW!BeginWrite(t)
      BY <2>0, <2>4, <3>1, <3>2 DEF LockModify, RW!BeginWrite, RW!Go
    <3> QED BY <3>3 DEF RW!Next
  <2>5. CASE UnlockModify(t)
    <3>1. Phase(t) = "writing" /\ Phase(t)' = "written"
      BY <2>5 DEF UnlockModify, Go, MapTypeOK, Phase, Reading
    <3>2. RW!EndWrite(t)
      BY <2>0, <2>5, <3>1 DEF UnlockModify, RW!EndWrite, RW!Go
    <3> QED BY <3>2 DEF RW!Next
  <2>6. CASE CountOut(t)
    <3>1. Phase(t) = "written" /\ Phase(t)' = "idle"
      BY <2>6 DEF CountOut, Go, MapTypeOK, Phase, Reading
    <3>2. RW!Withdraw(t)
      BY <2>0, <2>6, <3>1 DEF CountOut, RW!Withdraw, RW!Go
    <3> QED BY <3>2 DEF RW!Next
  <2>7. ASSUME NEW from, NEW to, Go(t, from, to),
               <<from, to>> \in {<<"idle", "wantRead">>, <<"idle", "wantWrite">>,
                                 <<"wantRead", "checkRead">>, <<"checkRead", "wantRead">>,
                                 <<"counted", "reading">>, <<"wantWrite", "announce">>,
                                 <<"announced", "drain">>, <<"drain", "lockModify">>,
                                 <<"wantLeave", "leave">>, <<"left", "idle">>}
        PROVE  phase' = phase
    <3>1. Phase(t)' = Phase(t)
      BY <2>7 DEF Go, MapTypeOK, Phase, Reading
    <3> QED BY <2>0, <2>7, <3>1
  <2> QED
    BY <1>2, <2>1, <2>2, <2>3, <2>4, <2>5, <2>6, <2>7
    DEF Start, Proceed, StartRead, StartWrite, TryLockRead, Refused, LockMutex, UnlockMutex,
        TryLockWrite, Drained, TryUnlockWrite
<1> QED
  BY <1>1, <1>2 DEF MapNext

\* Readers are kept out from the announcement of a writer to its withdrawal, and
\* writers by readers and by each other.
THEOREM Refinement == MapSpec => Implements
<1>1. MapInit => RW!Init
  BY DEF MapInit, RW!Init, Phase, Reading
<1>2. IInv /\ [MapNext]_mapVars => [RW!Next]_([t \in Threads |-> Phase(t)])
  BY StepRefines
<1> QED
  BY <1>1, <1>2, Invariance, PTL DEF MapSpec, Implements, RW!Spec
=============================================================================

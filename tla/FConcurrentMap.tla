--------------------------- MODULE FConcurrentMap ---------------------------
(***************************************************************************)
(* The lock of FConcurrentHashMap and FConcurrentMap (FConcurrentMap.h):   *)
(* read operations count themselves in mReadingCounts, write operations    *)
(* announce themselves in mWriteLock, wait for the readers to drain, and   *)
(* exclude each other by mModifyMutex.  Both counters are written under    *)
(* mWriteMutex, except that readers leave, and writers drain, without it.  *)
(***************************************************************************)
EXTENDS Integers, FiniteSets

CONSTANTS Threads,   \* the threads that use one map
          NoThread   \* the holder of a mutex that is free

ASSUME ThreadsAssumption == IsFiniteSet(Threads)
ASSUME NoThreadAssumption == NoThread \notin Threads

VARIABLES
  pc,              \* program point of each thread
  mWriteMutex,     \* the thread that holds it
  mModifyMutex,    \* the thread that holds it
  mReadingCounts,
  mWriteLock

mapVars == <<pc, mWriteMutex, mModifyMutex, mReadingCounts, mWriteLock>>

Points ==
  {"idle",
   "wantRead", "checkRead", "counted", "reading",
   "wantWrite", "announce", "announced", "drain", "lockModify", "writing",
   "wantLeave", "leave", "left"}

MapInit ==
  /\ pc = [t \in Threads |-> "idle"]
  /\ mWriteMutex = NoThread
  /\ mModifyMutex = NoThread
  /\ mReadingCounts = 0
  /\ mWriteLock = 0

Go(t, from, to) ==
  /\ pc[t] = from
  /\ pc' = [pc EXCEPT ![t] = to]

-----------------------------------------------------------------------------
(* mWriteMutex *)

LockMutex(t, from, to) ==
  /\ Go(t, from, to)
  /\ mWriteMutex = NoThread
  /\ mWriteMutex' = t
  /\ UNCHANGED <<mModifyMutex, mReadingCounts, mWriteLock>>

UnlockMutex(t, from, to) ==
  /\ Go(t, from, to)
  /\ mWriteMutex' = NoThread
  /\ UNCHANGED <<mModifyMutex, mReadingCounts, mWriteLock>>

-----------------------------------------------------------------------------
(* A read operation: find, traversal, and in FConcurrentHashMap              *)
(* findAndModifyLocked, in FConcurrentMap insert.                            *)

StartRead(t) ==
  /\ Go(t, "idle", "wantRead")
  /\ UNCHANGED <<mWriteMutex, mModifyMutex, mReadingCounts, mWriteLock>>

\* Wrong on purpose: one announced writer does not stop a reader.
CountInLate(t) ==
  /\ Go(t, "checkRead", "counted")
  /\ mWriteLock <= 1
  /\ mReadingCounts' = mReadingCounts + 1
  /\ UNCHANGED <<mWriteMutex, mModifyMutex, mWriteLock>>

\* tryLockRead: no writer has announced itself.
CountIn(t) ==
  /\ Go(t, "checkRead", "counted")
  /\ mWriteLock = 0
  /\ mReadingCounts' = mReadingCounts + 1
  /\ UNCHANGED <<mWriteMutex, mModifyMutex, mWriteLock>>

\* tryLockRead: one has; the mutex is released for the next turn of the loop.
Refused(t) ==
  /\ mWriteLock # 0
  /\ UnlockMutex(t, "checkRead", "wantRead")

TryLockRead(t) ==
  \/ LockMutex(t, "wantRead", "checkRead")
  \/ CountIn(t)
  \/ Refused(t)
  \/ UnlockMutex(t, "counted", "reading")

\* Wrong on purpose: a read operation that returns early and stays counted.
TryUnlockReadForgotten(t) ==
  /\ Go(t, "reading", "idle")
  /\ UNCHANGED <<mWriteMutex, mModifyMutex, mReadingCounts, mWriteLock>>

TryUnlockRead(t) ==
  /\ Go(t, "reading", "idle")
  /\ mReadingCounts' = mReadingCounts - 1
  /\ UNCHANGED <<mWriteMutex, mModifyMutex, mWriteLock>>

-----------------------------------------------------------------------------
(* A write operation: erase, clear, and in FConcurrentHashMap insert, in     *)
(* FConcurrentMap findAndModifyLocked.                                       *)

StartWrite(t) ==
  /\ Go(t, "idle", "wantWrite")
  /\ UNCHANGED <<mWriteMutex, mModifyMutex, mReadingCounts, mWriteLock>>

Announce(t) ==
  /\ Go(t, "announce", "announced")
  /\ mWriteLock' = mWriteLock + 1
  /\ UNCHANGED <<mWriteMutex, mModifyMutex, mReadingCounts>>

\* Wrong on purpose: off by one.
DrainedEarly(t) ==
  /\ Go(t, "drain", "lockModify")
  /\ ~(mReadingCounts > 1)
  /\ UNCHANGED <<mWriteMutex, mModifyMutex, mReadingCounts, mWriteLock>>

\* The spin on mReadingCounts ends.
Drained(t) ==
  /\ Go(t, "drain", "lockModify")
  /\ ~(mReadingCounts > 0)
  /\ UNCHANGED <<mWriteMutex, mModifyMutex, mReadingCounts, mWriteLock>>

LockModify(t) ==
  /\ Go(t, "lockModify", "writing")
  /\ mModifyMutex = NoThread
  /\ mModifyMutex' = t
  /\ UNCHANGED <<mWriteMutex, mReadingCounts, mWriteLock>>

TryLockWrite(t) ==
  \/ LockMutex(t, "wantWrite", "announce")
  \/ Announce(t)
  \/ UnlockMutex(t, "announced", "drain")
  \/ Drained(t)
  \/ LockModify(t)

UnlockModify(t) ==
  /\ Go(t, "writing", "wantLeave")
  /\ mModifyMutex' = NoThread
  /\ UNCHANGED <<mWriteMutex, mReadingCounts, mWriteLock>>

\* Wrong on purpose: the writer leaves twice.
CountOutTwice(t) ==
  /\ Go(t, "leave", "left")
  /\ mWriteLock' = mWriteLock - 2
  /\ UNCHANGED <<mWriteMutex, mModifyMutex, mReadingCounts>>

CountOut(t) ==
  /\ Go(t, "leave", "left")
  /\ mWriteLock' = mWriteLock - 1
  /\ UNCHANGED <<mWriteMutex, mModifyMutex, mReadingCounts>>

TryUnlockWrite(t) ==
  \/ UnlockModify(t)
  \/ LockMutex(t, "wantLeave", "leave")
  \/ CountOut(t)
  \/ UnlockMutex(t, "left", "idle")

-----------------------------------------------------------------------------
Start(t) == StartRead(t) \/ StartWrite(t)

Proceed(t) ==
  TryLockRead(t) \/ TryUnlockRead(t) \/ TryLockWrite(t) \/ TryUnlockWrite(t)

MapNext == \E t \in Threads : Start(t) \/ Proceed(t)

MapSpec == MapInit /\ [][MapNext]_mapVars

-----------------------------------------------------------------------------
Reading(t) == pc[t] \in {"counted", "reading"}

Announced(t) ==
  pc[t] \in {"announced", "drain", "lockModify", "writing", "wantLeave", "leave"}

\* Type invariant, with the assertions ReadCheck and WriteCheck: neither
\* counter is ever negative.
MapTypeOK ==
  /\ pc \in [Threads -> Points]
  /\ mWriteMutex \in Threads \cup {NoThread}
  /\ mModifyMutex \in Threads \cup {NoThread}
  /\ mReadingCounts \in Nat
  /\ mWriteLock \in Nat

\* While one thread changes the map by erase, clear or insert, no other thread
\* is in it.
Exclusion ==
  \A t, u \in Threads :
    (t # u /\ pc[t] = "writing") => pc[u] \notin {"reading", "writing"}

\* The lock implements ReadersWriter.
Phase(t) ==
  IF Reading(t) THEN "reading"
  ELSE IF pc[t] \in {"announced", "drain", "lockModify"} THEN "claimed"
  ELSE IF pc[t] = "writing" THEN "writing"
  ELSE IF pc[t] \in {"wantLeave", "leave"} THEN "written"
  ELSE "idle"

RW == INSTANCE ReadersWriter WITH phase <- [t \in Threads |-> Phase(t)]

\* The refinement as a property of its own: readers are kept out from the moment
\* a writer is announced, writers by readers and by each other.
Implements == RW!Spec

\* A writer that has announced itself gets the readers out: it, or another
\* writer, is let into the map.
WritersGetIn ==
  \A t \in Threads :
    (pc[t] = "drain") ~> (\E u \in Threads : pc[u] = "writing")
=============================================================================

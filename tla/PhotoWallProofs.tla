-------------------------- MODULE PhotoWallProofs --------------------------
(***************************************************************************)
(* For any threads and any jobs: the pool forgets no task and keeps the    *)
(* promise of JobQueue; for any handlers and urls, the photo wall uses the *)
(* pool as it is meant to be used, and dimensions follow their photo's url.*)
(*                                                                         *)
(* The pool: a lost wake-up is excluded by who is awake - a worker only    *)
(* goes when the queue of a stopped pool is empty, and nobody waits once   *)
(* the destructor has notified.  That each job is run once rests on the    *)
(* queue and the workers never sharing a job.                              *)
(*                                                                         *)
(* The photo wall: for a photo that is not excused at most one handler, one*)
(* task or the start of the server is on its way (Alone), and it carries   *)
(* the url the photo has (Heads).  Every step but a few leaves a photo     *)
(* untouched; of those that touch it, each hands it on.                    *)
(***************************************************************************)
EXTENDS PhotoWall, SequenceTheorems, WellFoundedInduction, TLAPS

HasTask == \A w \in Workers : worker[w] = "run" <=> task[w] # NoJob

Departed ==
  /\ stop_ <=> destructor # "none"
  /\ destructor \in {"notified", "joined"} => \A w \in Workers : worker[w] # "waiting"
  /\ (\E w \in Workers : worker[w] = "gone") => stop_ /\ tasks_ = <<>>
  /\ destructor = "joined" => \A w \in Workers : worker[w] = "gone"

EachOnce ==
  /\ \A i, j \in DOMAIN tasks_ : tasks_[i] = tasks_[j] => i = j
  /\ \A w, v \in Workers : task[w] = task[v] /\ task[w] # NoJob => w = v
  /\ \A i \in DOMAIN tasks_, w \in Workers : tasks_[i] # task[w]

PoolInv == PoolTypeOK /\ HasTask /\ Departed /\ EachOnce /\ NoLostWakeup

-----------------------------------------------------------------------------
\* What the queue holds after an append, and after its head was taken.
LEMMA AppendQueue ==
  ASSUME NEW s \in Seq(Jobs), NEW j \in Jobs
  PROVE  /\ Append(s, j) \in Seq(Jobs)
         /\ DOMAIN Append(s, j) = 1 .. Len(s) + 1 /\ DOMAIN s = 1 .. Len(s) /\ Len(s) \in Nat
         /\ Append(s, j)[Len(s) + 1] = j
         /\ \A i \in 1 .. Len(s) : Append(s, j)[i] = s[i]
BY LenProperties, AppendProperties

LEMMA TailQueue ==
  ASSUME NEW s \in Seq(Jobs), s # <<>>
  PROVE  /\ Tail(s) \in Seq(Jobs) /\ Head(s) \in Jobs /\ Head(s) = s[1]
         /\ DOMAIN Tail(s) = 1 .. Len(s) - 1 /\ DOMAIN s = 1 .. Len(s) /\ Len(s) \in Nat \ {0}
         /\ \A i \in 1 .. Len(s) - 1 : Tail(s)[i] = s[i + 1]
<1>1. Tail(s) \in Seq(Jobs) /\ Len(Tail(s)) = Len(s) - 1 /\ Head(s) \in Jobs
      /\ \A i \in 1 .. Len(Tail(s)) : Tail(s)[i] = s[i + 1]
  BY HeadTailProperties
<1>2. DOMAIN Tail(s) = 1 .. Len(Tail(s)) /\ DOMAIN s = 1 .. Len(s)
  BY <1>1, LenProperties
<1>3. Len(s) \in Nat \ {0}
  BY EmptySeq
<1>4. Head(s) = s[1]
  OBVIOUS
<1> QED
  BY <1>1, <1>2, <1>3, <1>4

-----------------------------------------------------------------------------
LEMMA PoolInitInv == PoolInit => PoolInv
<1> SUFFICES ASSUME PoolInit PROVE PoolInv
  OBVIOUS
<1>1. PoolTypeOK
  <2>1. stop_ \in BOOLEAN
    BY Zenon DEF PoolInit
  <2>2. tasks_ \in Seq(Jobs) /\ ended \subseteq Jobs /\ notifies \in Nat
    BY EmptySeq DEF PoolInit
  <2>3. /\ worker \in [Workers -> {"test", "waiting", "run", "gone"}]
        /\ task \in [Workers -> Jobs \cup {NoJob}]
    BY DEF PoolInit
  <2>4. destructor \in {"none", "stopped", "notified", "joined"}
    BY DEF PoolInit
  <2> QED
    BY ONLY <2>1, <2>2, <2>3, <2>4, Zenon DEF PoolTypeOK
<1>2. HasTask /\ Departed /\ NoLostWakeup
  BY DEF PoolInit, HasTask, Departed, NoLostWakeup
<1>3. DOMAIN tasks_ = {}
  BY DEF PoolInit
<1>4. EachOnce
  BY <1>3 DEF PoolInit, EachOnce
<1> QED
  BY <1>1, <1>2, <1>4 DEF PoolInv

\* A new job is at the end of the queue, and a call has still to notify.
LEMMA PushInv ==
  ASSUME PoolInv, NEW j \in Jobs, Fresh(j), Push(j) PROVE PoolInv'
<1>1. tasks_ \in Seq(Jobs) /\ notifies \in Nat
  BY DEF PoolInv, PoolTypeOK
<1>2. /\ tasks_' = Append(tasks_, j) /\ notifies' = notifies + 1 /\ destructor = "none"
      /\ UNCHANGED <<stop_, worker, task, ended, destructor>>
  BY DEF Push
<1>3. PoolTypeOK'
  BY <1>1, <1>2, AppendQueue DEF PoolInv, PoolTypeOK
<1>4. HasTask' /\ NoLostWakeup'
  BY <1>1, <1>2 DEF PoolInv, HasTask, NoLostWakeup
<1>5. Departed'
  BY <1>2 DEF PoolInv, Departed
<1>6. /\ \A i \in DOMAIN tasks_ : tasks_[i] # j
      /\ \A w \in Workers : task[w] # j
  BY PoolAssumption DEF Fresh, Queued, Running
<1>7. EachOnce'
  <2>1. \A i \in DOMAIN tasks_' : \/ i \in DOMAIN tasks_ /\ tasks_'[i] = tasks_[i]
                                  \/ i = Len(tasks_) + 1 /\ tasks_'[i] = j
    BY <1>1, <1>2, AppendQueue
  <2> QED
    BY <1>2, <1>6, <2>1 DEF PoolInv, EachOnce
<1> QED
  BY <1>3, <1>4, <1>5, <1>7 DEF PoolInv

\* A worker that waited is awake - or nobody waits, and who is not awake has found
\* the queue empty.
LEMMA NotifyOneInv ==
  ASSUME PoolInv, NotifyOne PROVE PoolInv'
<1>1. UNCHANGED <<tasks_, stop_, task, ended, destructor>> /\ notifies' \in Nat
  BY DEF NotifyOne, PoolInv, PoolTypeOK
<1>2. EachOnce'
  BY <1>1 DEF PoolInv, EachOnce
<1>3. ASSUME NEW w \in Workers, worker[w] = "waiting", worker' = [worker EXCEPT ![w] = "test"]
      PROVE  PoolInv'
  <2>1. PoolTypeOK' /\ HasTask'
    BY <1>1, <1>3 DEF PoolInv, PoolTypeOK, HasTask
  <2>2. worker'[w] = "test" /\ \A v \in Workers : v # w => worker'[v] = worker[v]
    BY <1>3 DEF PoolInv, PoolTypeOK
  <2>3. NoLostWakeup'
    BY <2>2 DEF NoLostWakeup
  <2>4. Departed'
    BY <1>1, <1>3, <2>2 DEF PoolInv, Departed
  <2> QED
    BY <1>2, <2>1, <2>3, <2>4 DEF PoolInv
<1>4. ASSUME \A w \in Workers : worker[w] # "waiting", worker' = worker
      PROVE  PoolInv'
  <2>1. PoolTypeOK' /\ HasTask' /\ Departed'
    BY <1>1, <1>4 DEF PoolInv, PoolTypeOK, HasTask, Departed
  <2>2. NoLostWakeup'
    BY <1>1, <1>4, PoolAssumption DEF PoolInv, PoolTypeOK, Departed, NoLostWakeup
  <2> QED
    BY <1>2, <2>1, <2>2 DEF PoolInv
<1> QED
  BY <1>3, <1>4 DEF NotifyOne

\* A worker waits on an empty queue, wakes up, or goes when it is told to.
LEMMA WaitInv ==
  ASSUME PoolInv, NEW w \in Workers, Wait(w) \/ WakeUp(w) \/ Return(w) PROVE PoolInv'
<1>1. UNCHANGED <<tasks_, stop_, task, notifies, ended, destructor>>
  BY DEF Wait, WakeUp, Return
<1>2. PICK to \in {"test", "waiting", "gone"} :
        /\ worker' = [worker EXCEPT ![w] = to]
        /\ to = "waiting" => ~stop_ /\ tasks_ = <<>>
        /\ to = "gone" => stop_ /\ tasks_ = <<>>
        /\ worker[w] = (IF to = "test" THEN "waiting" ELSE "test")
  BY DEF Wait, WakeUp, Return, MayWait, MayReturn
<1>3. worker'[w] = to /\ \A v \in Workers : v # w => worker'[v] = worker[v]
  BY <1>2 DEF PoolInv, PoolTypeOK
<1>4. PoolTypeOK'
  BY <1>1, <1>2 DEF PoolInv, PoolTypeOK
<1>5. HasTask' /\ EachOnce' /\ NoLostWakeup'
  BY <1>1, <1>2, <1>3 DEF PoolInv, HasTask, EachOnce, NoLostWakeup
<1>6. Departed'
  BY <1>1, <1>2, <1>3 DEF PoolInv, Departed
<1> QED
  BY <1>4, <1>5, <1>6 DEF PoolInv

\* A worker takes the head of the queue: it was nobody's.
LEMMA TakeInv ==
  ASSUME PoolInv, NEW w \in Workers, Take(w) PROVE PoolInv'
<1>1. tasks_ \in Seq(Jobs) /\ tasks_ # <<>>
  BY DEF PoolInv, PoolTypeOK, Take
<1>2. /\ worker[w] = "test" /\ worker' = [worker EXCEPT ![w] = "run"]
      /\ task' = [task EXCEPT ![w] = Head(tasks_)] /\ tasks_' = Tail(tasks_)
      /\ UNCHANGED <<stop_, notifies, ended, destructor>>
  BY DEF Take, NextTask
<1>3. PoolTypeOK'
  BY <1>1, <1>2, TailQueue DEF PoolInv, PoolTypeOK
<1>4. /\ worker'[w] = "run" /\ task'[w] = Head(tasks_) /\ Head(tasks_) # NoJob
      /\ \A v \in Workers : v # w => worker'[v] = worker[v] /\ task'[v] = task[v]
  BY <1>1, <1>2, TailQueue, PoolAssumption DEF PoolInv, PoolTypeOK
<1>5. HasTask' /\ NoLostWakeup'
  BY <1>4 DEF PoolInv, HasTask, NoLostWakeup
<1>6. Departed'
  BY <1>1, <1>2, <1>4 DEF PoolInv, Departed
<1>7. EachOnce'
  <2>1. /\ DOMAIN tasks_ = 1 .. Len(tasks_) /\ Len(tasks_) \in Nat \ {0}
        /\ DOMAIN tasks_' = 1 .. Len(tasks_) - 1 /\ Head(tasks_) = tasks_[1]
        /\ \A i \in DOMAIN tasks_' : tasks_'[i] = tasks_[i + 1]
    BY <1>1, <1>2, TailQueue
  <2>2. \A i \in DOMAIN tasks_' : i + 1 \in DOMAIN tasks_ /\ i + 1 # 1 /\ i \in Int
    BY <2>1
  <2>3. 1 \in DOMAIN tasks_
    BY <2>1
  <2>4. \A i \in DOMAIN tasks_' : tasks_'[i] # Head(tasks_)
    BY <2>1, <2>2, <2>3 DEF PoolInv, EachOnce
  <2>5. \A i, j \in DOMAIN tasks_' : tasks_'[i] = tasks_'[j] => i = j
    BY <2>1, <2>2 DEF PoolInv, EachOnce
  <2>6. \A v \in Workers : task[v] # Head(tasks_)
    BY <2>1, <2>3 DEF PoolInv, EachOnce
  <2>7. \A i \in DOMAIN tasks_', v \in Workers : tasks_'[i] # task'[v]
    BY <2>1, <2>2, <2>4, <1>4 DEF PoolInv, EachOnce
  <2>8. \A u, v \in Workers : task'[u] = task'[v] /\ task'[u] # NoJob => u = v
    BY <2>6, <1>4 DEF PoolInv, EachOnce
  <2> QED
    BY <2>5, <2>7, <2>8 DEF EachOnce
<1> QED
  BY <1>3, <1>5, <1>6, <1>7 DEF PoolInv

\* A worker that has run its task looks at the queue again.
LEMMA FinishInv ==
  ASSUME PoolInv, NEW w \in Workers, Finish(w) PROVE PoolInv'
<1>1. /\ worker[w] = "run" /\ worker' = [worker EXCEPT ![w] = "test"]
      /\ task' = [task EXCEPT ![w] = NoJob] /\ ended' = ended \cup {task[w]}
      /\ UNCHANGED <<tasks_, stop_, notifies, destructor>>
  BY DEF Finish
<1>2. PoolTypeOK'
  BY <1>1 DEF PoolInv, PoolTypeOK, HasTask
<1>3. /\ worker'[w] = "test" /\ task'[w] = NoJob
      /\ \A v \in Workers : v # w => worker'[v] = worker[v] /\ task'[v] = task[v]
  BY <1>1 DEF PoolInv, PoolTypeOK
<1>4. HasTask' /\ NoLostWakeup'
  BY <1>3 DEF PoolInv, HasTask, NoLostWakeup
<1>5. Departed'
  BY <1>1, <1>3 DEF PoolInv, Departed
<1>6. \A i \in DOMAIN tasks_ : tasks_[i] # NoJob
  BY PoolAssumption, LenProperties, ElementOfSeq DEF PoolInv, PoolTypeOK
<1>7. EachOnce'
  BY <1>1, <1>3, <1>6 DEF PoolInv, EachOnce
<1> QED
  BY <1>2, <1>4, <1>5, <1>7 DEF PoolInv

\* The destructor tells the workers to go, and waits until they have.
LEMMA DestructorInv ==
  ASSUME PoolInv, Stop \/ NotifyAll \/ Join PROVE PoolInv'
<1>1. UNCHANGED <<tasks_, task, notifies, ended>>
  BY DEF Stop, NotifyAll, Join
<1>2. EachOnce'
  BY <1>1 DEF PoolInv, EachOnce
<1>3. CASE Stop
  <2>1. stop_' = TRUE /\ destructor' = "stopped" /\ worker' = worker
    BY <1>3, Zenon DEF Stop
  <2>2. PoolTypeOK'
    BY <1>1, <2>1, Zenon DEF PoolInv, PoolTypeOK
  <2>3. HasTask' /\ NoLostWakeup'
    BY <1>1, <2>1 DEF PoolInv, HasTask, NoLostWakeup
  <2>4. Departed'
    <3>1. \A w \in Workers : worker[w] = "gone" => tasks_ = <<>>
      BY DEF PoolInv, Departed
    <3>2. stop_'
      BY <2>1, Zenon
    <3>3. destructor' # "none" /\ destructor' \notin {"notified", "joined"}
      BY <2>1
    <3> QED
      BY <1>1, <2>1, <3>1, <3>2, <3>3 DEF Departed
  <2> QED
    BY <1>2, <2>2, <2>3, <2>4 DEF PoolInv
<1>4. CASE NotifyAll
  <2>1. /\ stop_' = stop_ /\ destructor = "stopped" /\ destructor' = "notified"
        /\ worker' = [w \in Workers |-> IF worker[w] = "waiting" THEN "test" ELSE worker[w]]
    BY <1>4 DEF NotifyAll
  <2>2. \A w \in Workers : worker'[w] = IF worker[w] = "waiting" THEN "test" ELSE worker[w]
    BY <2>1
  <2>3. PoolTypeOK'
    BY <1>1, <2>1 DEF PoolInv, PoolTypeOK
  <2>4. HasTask' /\ NoLostWakeup'
    BY <1>1, <2>2 DEF PoolInv, HasTask, NoLostWakeup
  <2>5. Departed'
    BY <1>1, <2>1, <2>2 DEF PoolInv, Departed
  <2> QED
    BY <1>2, <2>3, <2>4, <2>5 DEF PoolInv
<1>5. CASE Join
  <2>1. /\ stop_' = stop_ /\ destructor = "notified" /\ destructor' = "joined" /\ worker' = worker
        /\ \A w \in Workers : worker[w] = "gone"
    BY <1>5 DEF Join
  <2>2. PoolTypeOK'
    BY <1>1, <2>1 DEF PoolInv, PoolTypeOK
  <2> QED
    BY <1>1, <1>2, <2>1, <2>2 DEF PoolInv, HasTask, Departed, NoLostWakeup
<1> QED
  BY <1>3, <1>4, <1>5

\* After a death all is as at first, but for what was run.
LEMMA DieInv ==
  ASSUME PoolInv, Die PROVE PoolInv'
<1>1. /\ tasks_' = <<>> /\ worker' = [w \in Workers |-> "test"]
      /\ task' = [w \in Workers |-> NoJob] /\ notifies' = 0 /\ destructor' = "none"
      /\ ended' = ended
  BY DEF Die
<1>2. ~stop_' /\ stop_' \in BOOLEAN
  BY Zenon DEF Die
<1>3. PoolTypeOK'
  <2>1. tasks_' \in Seq(Jobs) /\ ended' \subseteq Jobs /\ notifies' \in Nat
    BY <1>1, EmptySeq DEF PoolInv, PoolTypeOK
  <2>2. /\ worker' \in [Workers -> {"test", "waiting", "run", "gone"}]
        /\ task' \in [Workers -> Jobs \cup {NoJob}]
    BY <1>1
  <2>3. destructor' \in {"none", "stopped", "notified", "joined"}
    BY <1>1
  <2> QED
    BY ONLY <1>2, <2>1, <2>2, <2>3, Zenon DEF PoolTypeOK
<1>4. HasTask' /\ NoLostWakeup'
  BY <1>1 DEF HasTask, NoLostWakeup
<1>5. Departed'
  BY <1>1, <1>2 DEF Departed
<1>6. DOMAIN tasks_' = {}
  BY <1>1
<1>7. EachOnce'
  BY <1>1, <1>6 DEF EachOnce
<1> QED
  BY <1>3, <1>4, <1>5, <1>7 DEF PoolInv

LEMMA PoolNextInv ==
  ASSUME PoolInv, [PoolNext]_poolVars PROVE PoolInv'
<1>1. CASE UNCHANGED poolVars
  BY <1>1 DEF poolVars, PoolInv, PoolTypeOK, HasTask, Departed, EachOnce, NoLostWakeup
<1>2. CASE PoolNext
  BY <1>2, PushInv, NotifyOneInv, WaitInv, TakeInv, FinishInv, DestructorInv, DieInv
  DEF PoolNext, Work
<1> QED
  BY <1>1, <1>2

LEMMA PoolInvariant == PoolSpec => []PoolInv
BY PoolInitInv, PoolNextInv, PTL DEF PoolSpec

-----------------------------------------------------------------------------
\* NoTaskForgotten: a queued task has somebody who will look at the queue, and the
\* destructor ends when all that was submitted has been run.
THEOREM PoolForgetsNothing == PoolSpec => []NoTaskForgotten
<1>1. PoolInv => NoTaskForgotten
  <2> SUFFICES ASSUME PoolInv, destructor = "joined"
               PROVE  tasks_ = <<>> /\ Running = {}
    BY DEF PoolInv, NoTaskForgotten
  <2>1. \A w \in Workers : worker[w] = "gone"
    BY DEF PoolInv, Departed
  <2>2. \A w \in Workers : task[w] = NoJob
    BY <2>1 DEF PoolInv, HasTask
  <2>3. tasks_ = <<>>
    BY <2>1, PoolAssumption DEF PoolInv, Departed
  <2> QED
    BY <2>2, <2>3 DEF Running
<1> QED
  BY <1>1, PoolInvariant, PTL

-----------------------------------------------------------------------------
\* Steps that leave tasks, running jobs and ended jobs alone are stutters.
LEMMA StutterIsKept ==
  ASSUME UNCHANGED <<tasks_, task, ended>> PROVE UNCHANGED Promise!jobVars
BY DEF Promise!jobVars, Running

\* Each step of the pool is a step of the promise.
LEMMA StepKeepsPromise ==
  ASSUME PoolInv, PoolNext PROVE [Promise!Next]_(Promise!jobVars)
<1>1. ASSUME NEW j \in Jobs, Fresh(j), Push(j) PROVE Promise!Next
  <2>1. Promise!Submit(j)
    BY <1>1 DEF Push, Fresh, Queued, Running, Promise!Submit, Promise!InQueue
  <2> QED
    BY <2>1 DEF Promise!Next
<1>2. ASSUME NEW w \in Workers, Take(w) PROVE Promise!Next
  <2>1. Running' = Running \cup {Head(tasks_)}
    <3>1. task[w] = NoJob /\ worker[w] = "test" /\ tasks_ \in Seq(Jobs) /\ tasks_ # <<>>
      BY <1>2 DEF Take, PoolInv, HasTask, PoolTypeOK
    <3>2. Head(tasks_) # NoJob
      BY <3>1, TailQueue, PoolAssumption
    <3>3. task'[w] = Head(tasks_) /\ \A v \in Workers : v # w => task'[v] = task[v]
      BY <1>2 DEF Take, NextTask, PoolInv, PoolTypeOK
    <3> QED
      BY <3>1, <3>2, <3>3 DEF Running
  <2>2. Promise!Begin
    BY <1>2, <2>1 DEF Take, Promise!Begin
  <2> QED
    BY <2>2 DEF Promise!Next
<1>3. ASSUME NEW w \in Workers, Finish(w) PROVE Promise!Next
  <2>1. task[w] \in Running /\ task[w] \in Jobs
    BY <1>3 DEF Finish, PoolInv, HasTask, PoolTypeOK, Running
  <2>2. Running' = Running \ {task[w]}
    <3>1. task'[w] = NoJob /\ \A v \in Workers : v # w => task'[v] = task[v]
      BY <1>3 DEF Finish, PoolInv, PoolTypeOK
    <3>2. \A v \in Workers : v # w => task[v] # task[w]
      BY <2>1 DEF PoolInv, EachOnce, Running
    <3> QED
      BY <3>1, <3>2 DEF Running
  <2>3. Promise!End(task[w])
    BY <1>3, <2>1, <2>2 DEF Finish, Promise!End
  <2> QED
    BY <2>1, <2>3 DEF Promise!Next
<1>4. CASE Die
  <2>1. Running' = {}
    BY <1>4 DEF Die, Running
  <2>2. Promise!Lose
    BY <1>4, <2>1 DEF Die, Promise!Lose
  <2> QED
    BY <2>2 DEF Promise!Next
<1>5. CASE NotifyOne \/ Stop \/ NotifyAll \/ Join
           \/ \E w \in Workers : Wait(w) \/ Return(w) \/ WakeUp(w)
  BY <1>5, StutterIsKept DEF NotifyOne, Stop, NotifyAll, Join, Wait, Return, WakeUp
<1> QED
  BY <1>1, <1>2, <1>3, <1>4, <1>5 DEF PoolNext, Work

\* PoolKeepsPromise: the pool implements JobQueue - jobs begin in the order of
\* submit(), each once, and none is dropped while the process lives.
THEOREM PoolRefines == PoolSpec => PoolKeepsPromise
<1>1. PoolInit => Promise!Init
  BY DEF PoolInit, Promise!Init, Running
<1>2. PoolInv /\ [PoolNext]_poolVars => [Promise!Next]_(Promise!jobVars)
  BY StepKeepsPromise, StutterIsKept DEF poolVars
<1> QED
  BY <1>1, <1>2, PoolInvariant, PTL DEF PoolSpec, PoolKeepsPromise, Promise!Spec

-----------------------------------------------------------------------------
PhotoTypeOK ==
  /\ url \in [Photos -> Links \cup {"none", "deleted"}]
  /\ dims \in [Photos -> Links]
  /\ hpc \in [Handlers -> {"idle", "readBack", "update", "submit"}]
  /\ hphoto \in [Handlers -> Photos \cup {NoPhoto}]
  /\ hurl \in [Handlers -> Links]
  /\ refreshId \in [Handlers -> Photos \cup {NoPhoto}]
  /\ jobs \in Nat
  /\ missing \subseteq Photos

Active == Queued \cup Running

\* The handler is at work on the photo.
At(h, p) == hpc[h] # "idle" /\ p \in {hphoto[h], refreshId[h]}

\* The tasks are numbered as they are submitted.
JobsNumbered == \A j \in Active \cup ended : j.n <= jobs

\* What a handler holds at each of its steps.
HandlerHolds ==
  \A h \in Handlers :
    /\ hpc[h] # "idle" => hphoto[h] \in Photos /\ hurl[h] \in Links
    /\ hpc[h] = "readBack" => refreshId[h] = NoPhoto
    /\ hpc[h] = "update" => refreshId[h] \in {NoPhoto, hphoto[h]}
    /\ hpc[h] = "submit" => refreshId[h] \in Photos

\* A process that is down, or has yet to submit what is missing, has no handler at
\* work; one that is down has no tasks either.
StartIsAlone ==
  /\ down \/ missing # {} => \A h \in Handlers : hpc[h] = "idle"
  /\ down => missing = {} /\ Active = {}
  /\ \A p \in missing : Exists(p)

\* One post or job at a time is on its way for a photo that is not excused, ...
Alone(p) ==
  /\ \A j, k \in Active : j.photo = p /\ k.photo = p => j = k
  /\ \A h, g \in Handlers : At(h, p) /\ At(g, p) => h = g
  /\ \A j \in Active : j.photo = p => p \notin missing /\ \A h \in Handlers : ~At(h, p)
  /\ \A h \in Handlers :
       At(h, p) => hphoto[h] = p /\ (hpc[h] = "submit" => refreshId[h] = p)

\* ... and ends in the dimensions of the url the photo has.
Heads(p) ==
  /\ \A j \in Active : j.photo = p => url[p] = j.url
  /\ \A h \in Handlers : At(h, p) =>
       /\ hpc[h] # "update" => url[p] = hurl[h]
       /\ hpc[h] = "update" /\ refreshId[h] = NoPhoto => url[p] = hurl[h]
       /\ hpc[h] = "update" /\ url[p] \in Urls => dims[p] = url[p]
  /\ ~InFlight(p) /\ url[p] \in Urls => dims[p] = url[p]

Tidy(p) == Alone(p) /\ (Exists(p) => Heads(p))

PhotoInv ==
  /\ PhotoTypeOK /\ JobsNumbered /\ HandlerHolds /\ StartIsAlone
  /\ \A p \in Photos \ excused : Tidy(p)

-----------------------------------------------------------------------------
\* A non-empty set of numbers has a least one.
LEMMA Least ==
  ASSUME NEW T \in SUBSET Nat, T # {}
  PROVE  \E x \in T : \A y \in T : ~(y < x)
<1> DEFINE R == OpToRel(<, Nat)
<1>1. IsWellFoundedOn(R, Nat)
  BY NatLessThanWellFounded
<1>2. \A x, y \in Nat : x < y => <<x, y>> \in R
  BY DEF OpToRel
<1> HIDE DEF R
<1>3. PICK x \in T : \A y \in T : ~(<<y, x>> \in R)
  BY <1>1, WFMin
<1> QED
  BY <1>2, <1>3

\* The newest of some photos is one of them.
LEMMA NewestIsOne ==
  ASSUME NEW S \in SUBSET Photos, S # {}
  PROVE  Max(S) \in S
<1>0. MaxPhoto \in Nat /\ \A p \in S : p \in Nat /\ p <= MaxPhoto
  BY PhotoAssumption DEF Photos
<1> DEFINE rest == {MaxPhoto - p : p \in S}
<1>1. rest \in SUBSET Nat /\ rest # {}
  BY <1>0
<1>2. PICK n \in rest : \A m \in rest : ~(m < n)
  BY <1>1, Least
<1>3. PICK p \in S : n = MaxPhoto - p
  BY <1>2
<1>4. \A q \in S : ~(MaxPhoto - q < MaxPhoto - p)
  BY <1>2, <1>3
<1>5. \A q \in S : p >= q
  BY <1>0, <1>4
<1> QED
  BY <1>5 DEF Max

-----------------------------------------------------------------------------
\* What is queued or run after each step of the pool.
LEMMA ActiveOfTypes == PoolTypeOK => Active \subseteq Jobs
BY LenProperties, ElementOfSeq DEF PoolTypeOK, Active, Queued, Running

\* A new task is one more.
LEMMA ActivePush ==
  ASSUME PoolTypeOK, NEW j \in Jobs, Push(j) PROVE Active' = Active \cup {j}
<1>1. tasks_ \in Seq(Jobs) /\ tasks_' = Append(tasks_, j) /\ task' = task
  BY DEF PoolTypeOK, Push
<1>2. /\ DOMAIN tasks_' = 1 .. Len(tasks_) + 1 /\ DOMAIN tasks_ = 1 .. Len(tasks_)
      /\ Len(tasks_) \in Nat /\ tasks_'[Len(tasks_) + 1] = j
      /\ \A i \in 1 .. Len(tasks_) : tasks_'[i] = tasks_[i]
  BY <1>1, AppendQueue
<1>3. Queued' = Queued \cup {j}
  BY <1>2 DEF Queued
<1> QED
  BY <1>1, <1>3 DEF Active, Running

\* A task that is taken goes from the queue to a worker.
LEMMA ActiveTake ==
  ASSUME PoolInv, NEW w \in Workers, Take(w) PROVE Active' = Active
<1>1. /\ tasks_ \in Seq(Jobs) /\ tasks_ # <<>> /\ tasks_' = Tail(tasks_)
      /\ task' = [task EXCEPT ![w] = Head(tasks_)] /\ task \in [Workers -> Jobs \cup {NoJob}]
      /\ worker[w] = "test"
  BY DEF PoolInv, PoolTypeOK, Take, NextTask
<1>2. /\ Head(tasks_) \in Jobs /\ Head(tasks_) = tasks_[1]
      /\ DOMAIN tasks_' = 1 .. Len(tasks_) - 1 /\ DOMAIN tasks_ = 1 .. Len(tasks_)
      /\ Len(tasks_) \in Nat \ {0}
      /\ \A i \in 1 .. Len(tasks_) - 1 : tasks_'[i] = tasks_[i + 1]
  BY <1>1, TailQueue
<1>3. Queued = Queued' \cup {Head(tasks_)}
  <2>1. \A i \in 1 .. Len(tasks_) : i = 1 \/ (i - 1 \in DOMAIN tasks_' /\ tasks_'[i - 1] = tasks_[i])
    BY <1>2
  <2>2. \A i \in DOMAIN tasks_' : i + 1 \in DOMAIN tasks_ /\ tasks_'[i] = tasks_[i + 1]
    BY <1>2
  <2>3. 1 \in DOMAIN tasks_
    BY <1>2
  <2> QED
    BY <1>2, <2>1, <2>2, <2>3 DEF Queued
<1>4. Running' = Running \cup {Head(tasks_)}
  <2>1. task[w] = NoJob
    BY <1>1 DEF PoolInv, HasTask
  <2>2. task'[w] = Head(tasks_) /\ \A v \in Workers : v # w => task'[v] = task[v]
    BY <1>1
  <2>3. Head(tasks_) # NoJob
    BY <1>2, PoolAssumption
  <2> QED
    BY <2>1, <2>2, <2>3 DEF Running
<1> QED
  BY <1>3, <1>4 DEF Active

\* A task that was run is nowhere else.
LEMMA ActiveFinish ==
  ASSUME PoolInv, NEW w \in Workers, Finish(w)
  PROVE  task[w] \in Active /\ Active' = Active \ {task[w]}
<1>1. task[w] \in Running
  BY DEF PoolInv, HasTask, Finish, Running
<1>2. Queued' = Queued /\ task[w] \notin Queued
  BY DEF Finish, PoolInv, EachOnce, Queued
<1>3. task'[w] = NoJob /\ \A v \in Workers : v # w => task'[v] = task[v]
  BY DEF Finish, PoolInv, PoolTypeOK
<1>4. \A v \in Workers : v # w => task[v] # task[w]
  BY <1>1 DEF PoolInv, EachOnce, Running
<1>5. Running' = Running \ {task[w]}
  BY <1>1, <1>3, <1>4 DEF Running
<1> QED
  BY <1>1, <1>2, <1>5 DEF Active

LEMMA ActiveDie == ASSUME Die PROVE Active' = {}
BY DEF Die, Active, Queued, Running

LEMMA ActiveElse ==
  ASSUME PoolInv,
         \/ UNCHANGED poolVars \/ NotifyOne \/ Stop \/ NotifyAll \/ Join
         \/ \E w \in Workers : Wait(w) \/ WakeUp(w) \/ Return(w) \/ Take(w)
  PROVE  Active' = Active /\ ended' = ended
<1>1. CASE \E w \in Workers : Take(w)
  BY <1>1, ActiveTake DEF Take
<1>2. CASE ~ \E w \in Workers : Take(w)
  <2>1. UNCHANGED <<tasks_, task, ended>>
    BY <1>2 DEF poolVars, NotifyOne, Stop, NotifyAll, Join, Wait, WakeUp, Return
  <2> QED
    BY <2>1 DEF Active, Queued, Running
<1> QED
  BY <1>1, <1>2

-----------------------------------------------------------------------------
\* A photo that a step does not touch stays as it was.
Touched(p) ==
  \/ url'[p] # url[p] \/ dims'[p] # dims[p]
  \/ ~(p \in missing' <=> p \in missing)
  \/ \E j \in Jobs : j.photo = p /\ ~(j \in Active' <=> j \in Active)
  \/ \E h \in Handlers :
       \/ ~(At(h, p)' <=> At(h, p))
       \/ At(h, p) /\ <<hpc[h], hphoto[h], hurl[h], refreshId[h]>>'
                        # <<hpc[h], hphoto[h], hurl[h], refreshId[h]>>

LEMMA InFlightIs ==
  \A p : InFlight(p) <=> \/ p \in missing
                         \/ \E j \in Active : j.photo = p
                         \/ \E h \in Handlers : At(h, p)
BY DEF InFlight, Active, At

LEMMA UntouchedStaysTidy ==
  ASSUME NEW p \in Photos, Tidy(p), ~Touched(p), Active \subseteq Jobs, Active' \subseteq Jobs
  PROVE  Tidy(p)'
<1>1. /\ url'[p] = url[p] /\ dims'[p] = dims[p]
      /\ p \in missing' <=> p \in missing
      /\ \A j \in Jobs : j.photo = p => (j \in Active' <=> j \in Active)
  BY DEF Touched
<1>2. \A h \in Handlers : At(h, p)' <=> At(h, p)
  BY DEF Touched
<1>3. \A h \in Handlers : At(h, p) => /\ hpc'[h] = hpc[h] /\ hphoto'[h] = hphoto[h]
                                      /\ hurl'[h] = hurl[h] /\ refreshId'[h] = refreshId[h]
  BY DEF Touched
<1>4. Alone(p)'
  BY <1>1, <1>2, <1>3 DEF Tidy, Alone
<1>5. InFlight(p)' <=> InFlight(p)
  <2>1. InFlight(p) <=> \/ p \in missing
                        \/ \E j \in Active : j.photo = p
                        \/ \E h \in Handlers : At(h, p)
    BY InFlightIs
  <2>2. InFlight(p)' <=> \/ p \in missing'
                         \/ \E j \in Active' : j.photo = p
                         \/ \E h \in Handlers : At(h, p)'
    BY DEF InFlight, Active, At
  <2> QED
    BY <1>1, <1>2, <2>1, <2>2
<1>6. Exists(p)' <=> Exists(p)
  BY <1>1 DEF Exists, Photos
<1>7. Heads(p) => Heads(p)'
  BY <1>1, <1>2, <1>3, <1>5 DEF Heads
<1> QED
  BY <1>4, <1>6, <1>7 DEF Tidy

\* So a step has to see to the photos it touches.
LEMMA RestStaysTidy ==
  ASSUME PoolInv, PoolInv', PhotoInv,
         NEW p \in Photos \ excused', p \notin excused \/ Touched(p), Touched(p) => Tidy(p)'
  PROVE  Tidy(p)'
<1>1. Active \subseteq Jobs
  BY ActiveOfTypes DEF PoolInv
<1>2. PoolTypeOK' => Active' \subseteq Jobs
  BY LenProperties, ElementOfSeq DEF PoolTypeOK, Active, Queued, Running
<1>3. Active' \subseteq Jobs
  BY <1>2 DEF PoolInv
<1> QED
  BY <1>1, <1>3, UntouchedStaysTidy DEF PhotoInv

-----------------------------------------------------------------------------
\* The number of a new task is nobody's.
LEMMA TaskIsFresh ==
  ASSUME PoolInv, PhotoInv, NEW p \in Photos, NEW u \in Links, NewJob(p, u)
  PROVE  \E j \in Jobs : /\ j.n = jobs + 1 /\ j.photo = p /\ j.url = u
                         /\ Fresh(j) /\ Push(j) /\ jobs' = jobs + 1
<1> DEFINE j == [n |-> jobs + 1, photo |-> p, url |-> u]
<1>1. jobs \in Nat /\ jobs + 1 \in 1 .. MaxJobs
  BY PhotoAssumption DEF NewJob, PhotoInv, PhotoTypeOK
<1>2. j \in Jobs
  BY <1>1, PhotoAssumption
<1>3. \A k \in Active \cup ended : k.n # jobs + 1
  BY <1>1, PhotoAssumption, ActiveOfTypes DEF PhotoInv, JobsNumbered, PoolInv, PoolTypeOK
<1>4. j \notin Active \cup ended
  BY <1>3
<1> QED
  BY <1>2, <1>4 DEF NewJob, Fresh, Active

LEMMA HoldsOfSubmit ==
  ASSUME PhotoInv, NEW h \in Handlers, Submit(h)
  PROVE  /\ refreshId[h] \in Photos /\ hurl[h] \in Links /\ hphoto[h] \in Photos
         /\ At(h, refreshId[h])
         /\ IF hurl[h] = NoUrl THEN UNCHANGED <<poolVars, jobs>>
                              ELSE NewJob(refreshId[h], hurl[h])
BY DEF Submit, PhotoInv, HandlerHolds, At

\* Each step of the photo wall is one of the pool, or none.
LEMMA PhotoStepsPool ==
  ASSUME PoolInv, PhotoInv, PhotoNext PROVE [PoolNext]_poolVars
<1>1. ASSUME NEW h \in Handlers, NEW u \in Links, NEW p \in Photos,
             InsertPhoto(h, u) \/ QueryPhoto(h, p, u)
      PROVE  UNCHANGED poolVars
  BY <1>1 DEF InsertPhoto, QueryPhoto, Begin
<1>2. ASSUME NEW h \in Handlers, NEW u \in Links, InsertPhoto(h, u)
      PROVE  UNCHANGED poolVars
  BY <1>2 DEF InsertPhoto, Begin
<1>3. ASSUME NEW h \in Handlers, ReadBack(h) \/ UpdatePhoto(h) \/ UpdateFails(h)
      PROVE  UNCHANGED poolVars
  BY <1>3 DEF ReadBack, UpdatePhoto, UpdateFails
<1>4. ASSUME NEW h \in Handlers, Submit(h) PROVE PoolNext \/ UNCHANGED poolVars
  BY <1>4, HoldsOfSubmit, TaskIsFresh DEF PoolNext
<1>5. ASSUME NEW p \in Photos, DeletePhoto(p) PROVE UNCHANGED poolVars
  BY <1>5 DEF DeletePhoto
<1>6. ASSUME NEW w \in Workers, WorkerStep(w) \/ PoolStep(WakeUp(w)) PROVE PoolNext
  BY <1>6 DEF WorkerStep, PoolStep, RunJob, PoolNext, Work
<1>7. CASE PoolStep(NotifyOne) \/ Exit \/ PoolStep(NotifyAll) \/ PoolStep(Join) \/ EndProcess
  BY <1>7 DEF Exit, PoolStep, EndProcess, PoolNext
<1>8. CASE Restart
  BY <1>8 DEF Restart
<1>9. ASSUME NEW p \in Photos, Backfill(p) PROVE PoolNext
  <2>1. url[p] \in Links /\ NewJob(p, url[p])
    BY <1>9 DEF Backfill, PhotoInv, StartIsAlone, Exists
  <2> QED
    BY <2>1, TaskIsFresh DEF PoolNext
<1> QED
  BY <1>1, <1>2, <1>3, <1>4, <1>5, <1>6, <1>7, <1>8, <1>9 DEF PhotoNext, HandlerStep

-----------------------------------------------------------------------------
\* A handler that begins: what was on its way for the photo excuses it.
LEMMA BeginInv ==
  ASSUME PoolInv, PhotoInv, PoolInv',
         NEW h \in Handlers, NEW u \in Links, NEW p \in Photos,
         (InsertPhoto(h, u) /\ hphoto'[h] = p) \/ QueryPhoto(h, p, u)
  PROVE  PhotoInv'
<1>1. PICK pc \in {"readBack", "update"}, r \in {NoPhoto, p}, unnoticed \in BOOLEAN :
        /\ Begin(h, pc, p, u, r, unnoticed)
        /\ pc = "readBack" => url' = [url EXCEPT ![p] = u] /\ r = NoPhoto
        /\ pc = "update" => url' = url
        /\ pc = "update" /\ ~unnoticed /\ r = NoPhoto /\ Exists(p) => url[p] = u
  <2>1. CASE InsertPhoto(h, u) /\ hphoto'[h] = p
    <3>1. PICK q \in Photos :
            Begin(h, "readBack", q, u, NoPhoto, FALSE) /\ url' = [url EXCEPT ![q] = u]
      BY <2>1 DEF InsertPhoto
    <3>2. q = p
      BY <2>1, <3>1 DEF Begin, PhotoInv, PhotoTypeOK
    <3> QED
      BY <3>1, <3>2
  <2>2. CASE QueryPhoto(h, p, u)
    <3> DEFINE changed == Exists(p) /\ Changed(p, u)
               r == IF changed THEN p ELSE NoPhoto
    <3>1. /\ \/ Begin(h, "update", p, u, r, FALSE)
             \/ Begin(h, "update", p, u, NoPhoto, changed)
          /\ url' = url
      BY <2>2 DEF QueryPhoto
    <3>2. /\ r = NoPhoto /\ Exists(p) => url[p] = u
          /\ ~changed /\ Exists(p) => url[p] = u
      BY DEF Changed, Photos, NoPhoto
    <3>3. r \in {NoPhoto, p} /\ changed \in BOOLEAN
      OBVIOUS
    <3> HIDE DEF r, changed
    <3> QED
      BY <3>1, <3>2, <3>3
  <2> QED
    BY <2>1, <2>2
<1>2. /\ hpc[h] = "idle" /\ ~down /\ missing = {}
      /\ hpc' = [hpc EXCEPT ![h] = pc] /\ hphoto' = [hphoto EXCEPT ![h] = p]
      /\ hurl' = [hurl EXCEPT ![h] = u] /\ refreshId' = [refreshId EXCEPT ![h] = r]
      /\ excused' = IF InFlight(p) \/ unnoticed THEN excused \cup {p} ELSE excused
      /\ UNCHANGED <<dims, jobs, down, missing>>
  BY <1>1 DEF Begin
<1>3. Active' = Active /\ ended' = ended
  BY <1>1, ActiveElse DEF Begin
<1>4. /\ hpc'[h] = pc /\ hphoto'[h] = p /\ hurl'[h] = u /\ refreshId'[h] = r
      /\ \A g \in Handlers : g # h =>
           /\ hpc'[g] = hpc[g] /\ hphoto'[g] = hphoto[g]
           /\ hurl'[g] = hurl[g] /\ refreshId'[g] = refreshId[g]
  BY <1>2 DEF PhotoInv, PhotoTypeOK
<1>5. url'[p] = (IF pc = "readBack" THEN u ELSE url[p])
      /\ \A q \in Photos : q # p => url'[q] = url[q]
  BY <1>1 DEF PhotoInv, PhotoTypeOK
<1>6. PhotoTypeOK'
  BY <1>1, <1>2 DEF PhotoInv, PhotoTypeOK
<1>7. JobsNumbered' /\ StartIsAlone'
  BY <1>2, <1>3 DEF PhotoInv, JobsNumbered, StartIsAlone
<1>8. HandlerHolds'
  BY <1>1, <1>4 DEF PhotoInv, HandlerHolds
<1>9. \A q \in Photos \ excused' : Touched(q) => q = p
  <2> SUFFICES ASSUME NEW q \in Photos, q # p PROVE ~Touched(q)
    OBVIOUS
  <2>1. ~At(h, q) /\ ~At(h, q)'
    BY <1>2, <1>4 DEF At, Photos, NoPhoto
  <2>2. \A g \in Handlers : g # h => (At(g, q)' <=> At(g, q))
    BY <1>4 DEF At
  <2> QED
    BY <1>2, <1>3, <1>4, <1>5, <2>1, <2>2 DEF Touched
<1>10. p \notin excused' => Tidy(p)'
  <2> SUFFICES ASSUME p \notin excused' PROVE Tidy(p)'
    OBVIOUS
  <2>1. p \notin excused /\ ~InFlight(p) /\ ~unnoticed
    BY <1>2
  <2>2. Tidy(p) /\ \A g \in Handlers : ~At(g, p)
    BY <2>1, InFlightIs DEF PhotoInv
  <2>3. \A j \in Active : j.photo # p
    BY <2>1, InFlightIs
  <2>4. At(h, p)' /\ \A g \in Handlers : g # h => ~At(g, p)'
    BY <1>4, <2>2 DEF At
  <2>5. Alone(p)'
    BY <1>3, <1>4, <2>3, <2>4 DEF Alone
  <2>6. InFlight(p)'
    BY <2>4 DEF InFlight, At
  <2>7. Exists(p)' => Heads(p)'
    <3>1. /\ r = NoPhoto /\ pc = "update" /\ Exists(p) => url[p] = u
          /\ Exists(p) /\ url[p] \in Urls => dims[p] = url[p]
      BY <1>1, <2>1, <2>2 DEF Tidy, Heads
    <3>2. pc = "update" => (Exists(p)' <=> Exists(p))
      BY <1>5 DEF Exists
    <3>3. \A j \in Active' : j.photo # p
      BY <1>3, <2>3
    <3> QED
      BY <1>2, <1>4, <1>5, <2>4, <2>6, <3>1, <3>2, <3>3 DEF Heads
  <2> QED
    BY <2>5, <2>7 DEF Tidy
<1>11. p \in excused => p \in excused'
  BY <1>2
<1>12. \A q \in Photos \ excused' : Tidy(q)'
  <2> SUFFICES ASSUME NEW q \in Photos \ excused' PROVE Tidy(q)'
    OBVIOUS
  <2>1. q \notin excused
    BY <1>2
  <2> QED
    BY <1>9, <1>10, <2>1, RestStaysTidy
<1> QED
  BY <1>6, <1>7, <1>8, <1>12 DEF PhotoInv

\* A photo the handler is not at, and the step leaves alone.
LEMMA OthersKept ==
  ASSUME PhotoInv, NEW h \in Handlers, NEW p \in Photos,
         \A g \in Handlers : g # h =>
           /\ hpc'[g] = hpc[g] /\ hphoto'[g] = hphoto[g]
           /\ hurl'[g] = hurl[g] /\ refreshId'[g] = refreshId[g],
         ~At(h, p), ~At(h, p)', url'[p] = url[p], dims'[p] = dims[p],
         p \in missing' <=> p \in missing,
         \A j \in Jobs : j.photo = p => (j \in Active' <=> j \in Active)
  PROVE  ~Touched(p)
<1>1. \A g \in Handlers : g # h => (At(g, p)' <=> At(g, p))
  BY DEF At
<1> QED
  BY <1>1 DEF Touched

\* A handler that finds another photo than the one it inserted excuses both.
LEMMA ReadBackInv ==
  ASSUME PoolInv, PhotoInv, PoolInv', NEW h \in Handlers, ReadBack(h)
  PROVE  PhotoInv'
<1> DEFINE found == {p \in Photos : url[p] = hurl[h]}
<1>1. PICK newest \in {NoPhoto} \cup (IF found = {} THEN {} ELSE {Max(found)}) :
        /\ hpc[h] = "readBack" /\ UNCHANGED <<url, dims, jobs, down, missing>>
        /\ excused' = IF newest = hphoto[h] THEN excused ELSE excused \cup {newest, hphoto[h]}
        /\ IF newest = NoPhoto
           THEN Done(h)
           ELSE /\ refreshId' = [refreshId EXCEPT ![h] = newest]
                /\ hpc' = [hpc EXCEPT ![h] = "submit"]
                /\ UNCHANGED <<hphoto, hurl>>
  BY DEF ReadBack
<1>2. newest \in Photos \cup {NoPhoto}
  <2>1. found \in SUBSET Photos
    OBVIOUS
  <2>2. found # {} => Max(found) \in Photos
    BY <2>1, NewestIsOne
  <2> QED
    BY <2>2
<1> HIDE DEF found
<1>3. Active' = Active /\ ended' = ended
  BY ActiveElse DEF ReadBack
<1>4. hphoto[h] \in Photos /\ hurl[h] \in Links /\ refreshId[h] = NoPhoto
  BY <1>1 DEF PhotoInv, HandlerHolds
<1>5. CASE newest = NoPhoto
  <2>1. /\ hpc'[h] = "idle" /\ hphoto'[h] = NoPhoto /\ hurl'[h] = NoUrl /\ refreshId'[h] = NoPhoto
        /\ \A g \in Handlers : g # h =>
             /\ hpc'[g] = hpc[g] /\ hphoto'[g] = hphoto[g]
             /\ hurl'[g] = hurl[g] /\ refreshId'[g] = refreshId[g]
    BY <1>1, <1>5 DEF Done, PhotoInv, PhotoTypeOK
  <2>2. PhotoTypeOK'
    BY <1>1, <1>5 DEF Done, PhotoInv, PhotoTypeOK, Links
  <2>3. JobsNumbered' /\ StartIsAlone'
    BY <1>1, <1>3, <2>1 DEF PhotoInv, JobsNumbered, StartIsAlone, Exists
  <2>4. HandlerHolds'
    BY <2>1 DEF PhotoInv, HandlerHolds
  <2>5. excused' = excused \cup {NoPhoto, hphoto[h]}
    BY <1>1, <1>4, <1>5 DEF Photos, NoPhoto
  <2>6. ASSUME NEW q \in Photos \ excused' PROVE Tidy(q)'
    <3>1. q # hphoto[h] /\ q # NoPhoto /\ q \notin excused
      BY <2>5
    <3>2. ~At(h, q) /\ ~At(h, q)'
      BY <1>4, <2>1, <3>1 DEF At
    <3>3. ~Touched(q)
      BY <1>1, <1>3, <2>1, <3>2, OthersKept
    <3> QED
      BY <3>1, <3>3, RestStaysTidy
  <2> QED
    BY <2>2, <2>3, <2>4, <2>6 DEF PhotoInv
<1>6. CASE newest # NoPhoto
  <2>1. /\ hpc'[h] = "submit" /\ hphoto'[h] = hphoto[h] /\ hurl'[h] = hurl[h]
        /\ refreshId'[h] = newest /\ newest \in Photos
        /\ \A g \in Handlers : g # h =>
             /\ hpc'[g] = hpc[g] /\ hphoto'[g] = hphoto[g]
             /\ hurl'[g] = hurl[g] /\ refreshId'[g] = refreshId[g]
    BY <1>1, <1>2, <1>6 DEF PhotoInv, PhotoTypeOK
  <2>2. PhotoTypeOK'
    BY <1>1, <1>6, <2>1 DEF PhotoInv, PhotoTypeOK
  <2>3. JobsNumbered' /\ StartIsAlone'
    BY <1>1, <1>3, <2>1 DEF PhotoInv, JobsNumbered, StartIsAlone, Exists
  <2>4. HandlerHolds'
    BY <1>4, <2>1 DEF PhotoInv, HandlerHolds
  <2>5. ASSUME NEW q \in Photos \ excused', q # hphoto[h] PROVE Tidy(q)'
    <3>1. q \notin excused /\ q # newest
      BY <1>1, <2>5
    <3>2. q # NoPhoto
      BY DEF Photos, NoPhoto
    <3>3. ~At(h, q) /\ ~At(h, q)'
      BY <1>4, <2>1, <2>5, <3>1, <3>2 DEF At
    <3>4. ~Touched(q)
      BY <1>1, <1>3, <2>1, <3>3, OthersKept
    <3> QED
      BY <3>1, <3>4, RestStaysTidy
  <2>6. ASSUME NEW p \in Photos \ excused', p = hphoto[h] PROVE Tidy(p)'
    <3>1. newest = p /\ p \notin excused
      BY <1>1, <1>4, <2>6
    <3>2. At(h, p) /\ At(h, p)'
      BY <1>1, <2>1, <2>6 DEF At
    <3>3. Tidy(p)
      BY <3>1 DEF PhotoInv
    <3>4. \A g \in Handlers : g # h => ~At(g, p) /\ ~At(g, p)'
      BY <2>1, <3>2, <3>3 DEF Tidy, Alone, At
    <3>5. Alone(p)'
      BY <1>1, <1>3, <2>1, <3>1, <3>2, <3>3, <3>4 DEF Tidy, Alone
    <3>6. InFlight(p)'
      BY <3>2 DEF InFlight, At
    <3>7. \A j \in Active : j.photo # p
      BY <3>2, <3>3 DEF Tidy, Alone
    <3>8. Exists(p)' => Heads(p)'
      <4>1. Exists(p)' => Exists(p)
        BY <1>1 DEF Exists
      <4>2. Exists(p) => url[p] = hurl[h]
        BY <1>1, <3>2, <3>3 DEF Tidy, Heads
      <4>3. hphoto'[h] = p
        BY <2>1, <2>6
      <4> QED
        BY <1>1, <1>3, <2>1, <3>1, <3>4, <3>6, <3>7, <4>1, <4>2, <4>3 DEF Heads
    <3> QED
      BY <3>5, <3>8 DEF Tidy
  <2>7. \A q \in Photos \ excused' : Tidy(q)'
    BY <1>4, <2>5, <2>6
  <2> QED
    BY <2>2, <2>3, <2>4, <2>7 DEF PhotoInv
<1> QED
  BY <1>5, <1>6

\* A handler that changes no url leaves a photo whose dimensions are right.
LEMMA UpdatePhotoInv ==
  ASSUME PoolInv, PhotoInv, PoolInv', NEW h \in Handlers, UpdatePhoto(h)
  PROVE  PhotoInv'
<1>1. /\ hpc[h] = "update" /\ UNCHANGED <<dims, jobs, down, missing, excused>>
      /\ url' = IF Exists(hphoto[h]) THEN [url EXCEPT ![hphoto[h]] = hurl[h]] ELSE url
      /\ IF refreshId[h] = NoPhoto
         THEN Done(h)
         ELSE hpc' = [hpc EXCEPT ![h] = "submit"] /\ UNCHANGED <<hphoto, hurl, refreshId>>
  BY DEF UpdatePhoto
<1>2. Active' = Active /\ ended' = ended
  BY ActiveElse DEF UpdatePhoto
<1>3. hphoto[h] \in Photos /\ hurl[h] \in Links /\ refreshId[h] \in {NoPhoto, hphoto[h]}
  BY <1>1 DEF PhotoInv, HandlerHolds
<1>4. url' \in [Photos -> Links \cup {"none", "deleted"}]
      /\ \A q \in Photos : url'[q] = IF q = hphoto[h] /\ Exists(q) THEN hurl[h] ELSE url[q]
  BY <1>1, <1>3 DEF PhotoInv, PhotoTypeOK
<1>5. missing = {} /\ ~down
  BY <1>1 DEF PhotoInv, StartIsAlone
<1>6. \A g \in Handlers : g # h =>
        /\ hpc'[g] = hpc[g] /\ hphoto'[g] = hphoto[g]
        /\ hurl'[g] = hurl[g] /\ refreshId'[g] = refreshId[g]
  BY <1>1 DEF Done, PhotoInv, PhotoTypeOK
<1>7. \/ /\ refreshId[h] = NoPhoto
         /\ hpc'[h] = "idle" /\ hphoto'[h] = NoPhoto /\ hurl'[h] = NoUrl /\ refreshId'[h] = NoPhoto
      \/ /\ refreshId[h] = hphoto[h]
         /\ hpc'[h] = "submit" /\ hphoto'[h] = hphoto[h] /\ hurl'[h] = hurl[h]
         /\ refreshId'[h] = refreshId[h]
  BY <1>1, <1>3 DEF Done, PhotoInv, PhotoTypeOK, Photos, NoPhoto
<1>8. PhotoTypeOK'
  BY <1>1, <1>4 DEF Done, PhotoInv, PhotoTypeOK, Links
<1>9. JobsNumbered' /\ StartIsAlone'
  BY <1>1, <1>2, <1>5, <1>6 DEF PhotoInv, JobsNumbered, StartIsAlone
<1>10. HandlerHolds'
  BY <1>3, <1>6, <1>7 DEF PhotoInv, HandlerHolds
<1>11. ASSUME NEW q \in Photos \ excused', q # hphoto[h] PROVE Tidy(q)'
  <2>1. q # NoPhoto
    BY DEF Photos, NoPhoto
  <2>2. ~At(h, q) /\ ~At(h, q)'
    BY <1>3, <1>7, <1>11, <2>1 DEF At
  <2>3. ~Touched(q)
    BY <1>1, <1>2, <1>4, <1>6, <1>11, <2>2, OthersKept
  <2> QED
    BY <1>1, <2>3, RestStaysTidy
<1>12. ASSUME NEW p \in Photos \ excused', p = hphoto[h] PROVE Tidy(p)'
  <2>1. p \notin excused /\ At(h, p)
    BY <1>1, <1>12 DEF At
  <2>2. Tidy(p)
    BY <2>1 DEF PhotoInv
  <2>3. /\ \A g \in Handlers : g # h => ~At(g, p) /\ ~At(g, p)'
        /\ \A j \in Active : j.photo # p
    BY <1>6, <2>1, <2>2 DEF Tidy, Alone, At
  <2>4. Alone(p)'
    <3>1. \A g \in Handlers :
            At(g, p)' => hphoto'[g] = p /\ (hpc'[g] = "submit" => refreshId'[g] = p)
      BY <1>7, <1>12, <2>3 DEF At
    <3> QED
      BY <1>2, <2>2, <2>3, <3>1 DEF Tidy, Alone
  <2>5. Exists(p)' => Exists(p) /\ url'[p] = hurl[h]
    BY <1>4, <1>12 DEF Exists
  <2>6. /\ refreshId[h] = NoPhoto /\ Exists(p) => url[p] = hurl[h]
        /\ Exists(p) /\ url[p] \in Urls => dims[p] = url[p]
    BY <1>1, <2>1, <2>2 DEF Tidy, Heads
  <2>7. refreshId[h] = hphoto[h] => At(h, p)' /\ InFlight(p)'
    BY <1>3, <1>7, <1>12 DEF At, InFlight, Photos, NoPhoto
  <2>8. refreshId[h] = NoPhoto => ~At(h, p)'
    BY <1>3, <1>7, <1>12 DEF At, Photos, NoPhoto
  <2>9. Exists(p)' => Heads(p)'
    BY <1>1, <1>2, <1>7, <1>12, <2>3, <2>5, <2>6, <2>7, <2>8 DEF Heads
  <2> QED
    BY <2>4, <2>9 DEF Tidy
<1>13. \A q \in Photos \ excused' : Tidy(q)'
  BY <1>11, <1>12
<1> QED
  BY <1>8, <1>9, <1>10, <1>13 DEF PhotoInv

\* A handler whose update fails, or that has no url to submit, ends and leaves the
\* photo as it was.
LEMMA HandlerEnds ==
  ASSUME PoolInv, PhotoInv, PoolInv', NEW h \in Handlers,
         \/ UpdateFails(h)
         \/ Submit(h) /\ hurl[h] = NoUrl
  PROVE  PhotoInv'
<1>1. /\ hpc[h] \in {"update", "submit"} /\ Done(h)
      /\ UNCHANGED <<poolVars, url, dims, jobs, down, missing, excused>>
      /\ hpc[h] = "submit" => hurl[h] = NoUrl
  BY DEF UpdateFails, Submit
<1>2. Active' = Active /\ ended' = ended
  BY <1>1, ActiveElse
<1>3. /\ hpc'[h] = "idle" /\ hphoto'[h] = NoPhoto /\ hurl'[h] = NoUrl /\ refreshId'[h] = NoPhoto
      /\ \A g \in Handlers : g # h =>
           /\ hpc'[g] = hpc[g] /\ hphoto'[g] = hphoto[g]
           /\ hurl'[g] = hurl[g] /\ refreshId'[g] = refreshId[g]
  BY <1>1 DEF Done, PhotoInv, PhotoTypeOK
<1>4. PhotoTypeOK'
  BY <1>1 DEF Done, PhotoInv, PhotoTypeOK, Links
<1>5. JobsNumbered' /\ HandlerHolds'
  BY <1>1, <1>2, <1>3 DEF PhotoInv, JobsNumbered, HandlerHolds
<1>6. StartIsAlone'
  BY <1>1, <1>2, <1>3 DEF PhotoInv, StartIsAlone, Exists
<1>7. ASSUME NEW q \in Photos \ excused', ~At(h, q) PROVE Tidy(q)'
  <2>1. ~At(h, q)'
    BY <1>3 DEF At
  <2>2. ~Touched(q)
    BY <1>1, <1>2, <1>3, <1>7, <2>1, OthersKept
  <2> QED
    BY <1>1, <2>2, RestStaysTidy
<1>8. ASSUME NEW p \in Photos \ excused', At(h, p) PROVE Tidy(p)'
  <2>1. Tidy(p) /\ ~At(h, p)'
    BY <1>1, <1>3, <1>8 DEF PhotoInv, At
  <2>2. /\ \A g \in Handlers : ~At(g, p)'
        /\ \A k \in Active : k.photo # p
    BY <1>3, <1>8, <2>1 DEF Tidy, Alone, At
  <2>3. Alone(p)'
    BY <1>2, <2>2 DEF Alone
  <2>4. Exists(p) /\ url[p] \in Urls => dims[p] = url[p]
    BY <1>1, <1>8, <2>1, PhotoAssumption DEF Tidy, Heads
  <2>5. Exists(p)' => Heads(p)'
    BY <1>1, <1>2, <2>2, <2>4 DEF Heads, Exists
  <2> QED
    BY <2>3, <2>5 DEF Tidy
<1>9. \A q \in Photos \ excused' : Tidy(q)'
  BY <1>7, <1>8
<1> QED
  BY <1>4, <1>5, <1>6, <1>9 DEF PhotoInv

\* A task takes the place of the handler, or of the start, that submits it.
LEMMA SubmitInv ==
  ASSUME PoolInv, PhotoInv, PoolInv', NEW h \in Handlers, Submit(h), hurl[h] # NoUrl
  PROVE  PhotoInv'
<1>1. /\ hpc[h] = "submit" /\ Done(h) /\ UNCHANGED <<url, dims, down, missing, excused>>
      /\ refreshId[h] \in Photos /\ hurl[h] \in Links /\ hphoto[h] \in Photos
      /\ At(h, refreshId[h])
  BY HoldsOfSubmit DEF Submit
<1>2. PICK j \in Jobs : /\ j.n = jobs + 1 /\ j.photo = refreshId[h] /\ j.url = hurl[h]
                        /\ Push(j) /\ jobs' = jobs + 1
  BY HoldsOfSubmit, TaskIsFresh
<1>3. Active' = Active \cup {j} /\ ended' = ended
  BY <1>2, ActivePush DEF PoolInv, Push
<1>4. /\ hpc'[h] = "idle"
      /\ \A g \in Handlers : g # h =>
           /\ hpc'[g] = hpc[g] /\ hphoto'[g] = hphoto[g]
           /\ hurl'[g] = hurl[g] /\ refreshId'[g] = refreshId[g]
  BY <1>1 DEF Done, PhotoInv, PhotoTypeOK
<1>5. missing = {} /\ ~down
  BY <1>1 DEF PhotoInv, StartIsAlone
<1>6. PhotoTypeOK'
  BY <1>1, <1>2 DEF Done, PhotoInv, PhotoTypeOK, Links
<1>7. JobsNumbered'
  <2>1. jobs \in Nat /\ \A k \in Active \cup ended : k.n \in Int /\ k.n <= jobs
    BY PhotoAssumption, ActiveOfTypes DEF PhotoInv, PhotoTypeOK, JobsNumbered, PoolInv, PoolTypeOK
  <2> QED
    BY <1>2, <1>3, <2>1 DEF JobsNumbered
<1>8. HandlerHolds' /\ StartIsAlone'
  BY <1>1, <1>4, <1>5 DEF PhotoInv, HandlerHolds, StartIsAlone
<1>9. ASSUME NEW q \in Photos \ excused', q # refreshId[h] PROVE Tidy(q)'
  <2>1. ~At(h, q) /\ ~At(h, q)'
    <3>1. Tidy(q)
      BY <1>1 DEF PhotoInv
    <3>2. ~At(h, q)
      BY <1>1, <1>9, <3>1 DEF Tidy, Alone
    <3> QED
      BY <1>4, <3>2 DEF At
  <2>2. ~Touched(q)
    BY <1>1, <1>2, <1>3, <1>4, <1>9, <2>1, OthersKept
  <2> QED
    BY <1>1, <2>2, RestStaysTidy
<1>10. ASSUME NEW p \in Photos \ excused', p = refreshId[h] PROVE Tidy(p)'
  <2>1. At(h, p) /\ Tidy(p) /\ ~At(h, p)'
    BY <1>1, <1>4, <1>10 DEF PhotoInv, At
  <2>2. /\ \A g \in Handlers : ~At(g, p)'
        /\ \A k \in Active : k.photo # p
    BY <1>4, <2>1 DEF Tidy, Alone, At
  <2>3. Alone(p)'
    BY <1>1, <1>3, <1>5, <2>1, <2>2 DEF Alone
  <2>4. Exists(p) => url[p] = hurl[h]
    BY <1>1, <2>1 DEF Tidy, Heads
  <2>5. InFlight(p)'
    BY <1>2, <1>3, <1>10 DEF InFlight, Active
  <2>6. Exists(p)' => Heads(p)'
    BY <1>1, <1>2, <1>3, <2>2, <2>4, <2>5 DEF Heads, Exists
  <2> QED
    BY <2>3, <2>6 DEF Tidy
<1>11. \A q \in Photos \ excused' : Tidy(q)'
  BY <1>9, <1>10
<1> QED
  BY <1>6, <1>7, <1>8, <1>11 DEF PhotoInv

\* The start submits the url the photo has.
LEMMA BackfillInv ==
  ASSUME PoolInv, PhotoInv, PoolInv', NEW p \in Photos, Backfill(p)
  PROVE  PhotoInv'
<1>1. /\ p \in missing /\ missing' = missing \ {p}
      /\ UNCHANGED <<url, dims, hpc, hphoto, hurl, refreshId, down, excused>>
      /\ Exists(p) /\ url[p] \in Links /\ NewJob(p, url[p])
  BY DEF Backfill, handlerVars, PhotoInv, StartIsAlone, Exists
<1>2. PICK j \in Jobs : /\ j.n = jobs + 1 /\ j.photo = p /\ j.url = url[p]
                        /\ Push(j) /\ jobs' = jobs + 1
  BY <1>1, TaskIsFresh
<1>3. Active' = Active \cup {j} /\ ended' = ended
  BY <1>2, ActivePush DEF PoolInv, Push
<1>4. ~down /\ \A h \in Handlers : hpc[h] = "idle"
  BY <1>1 DEF PhotoInv, StartIsAlone
<1>5. PhotoTypeOK'
  BY <1>1, <1>2 DEF PhotoInv, PhotoTypeOK
<1>6. JobsNumbered'
  <2>1. jobs \in Nat /\ \A k \in Active \cup ended : k.n \in Int /\ k.n <= jobs
    BY PhotoAssumption, ActiveOfTypes DEF PhotoInv, PhotoTypeOK, JobsNumbered, PoolInv, PoolTypeOK
  <2> QED
    BY <1>2, <1>3, <2>1 DEF JobsNumbered
<1>7. HandlerHolds' /\ StartIsAlone'
  BY <1>1, <1>4 DEF PhotoInv, HandlerHolds, StartIsAlone, Exists
<1>8. \A h \in Handlers, q \in Photos : ~At(h, q) /\ ~At(h, q)'
  BY <1>1, <1>4 DEF At
<1>9. ASSUME NEW q \in Photos \ excused', q # p PROVE Tidy(q)'
  <2>1. ~Touched(q)
    BY <1>1, <1>2, <1>3, <1>8, <1>9 DEF Touched
  <2> QED
    BY <1>1, <2>1, RestStaysTidy
<1>10. p \notin excused' => Tidy(p)'
  <2> SUFFICES ASSUME p \notin excused PROVE Tidy(p)'
    BY <1>1
  <2>1. Tidy(p)
    BY DEF PhotoInv
  <2>2. \A k \in Active : k.photo # p
    BY <1>1, <2>1 DEF Tidy, Alone
  <2>3. Alone(p)'
    BY <1>1, <1>3, <1>8, <2>2 DEF Alone
  <2>4. InFlight(p)'
    BY <1>2, <1>3 DEF InFlight, Active
  <2>5. Heads(p)'
    BY <1>1, <1>2, <1>3, <1>8, <2>2, <2>4 DEF Heads
  <2> QED
    BY <2>3, <2>5 DEF Tidy
<1>11. \A q \in Photos \ excused' : Tidy(q)'
  BY <1>9, <1>10
<1> QED
  BY <1>5, <1>6, <1>7, <1>11 DEF PhotoInv

\* A photo that was deleted has no url that its dimensions could follow.
LEMMA DeletePhotoInv ==
  ASSUME PoolInv, PhotoInv, PoolInv', NEW p \in Photos, DeletePhoto(p)
  PROVE  PhotoInv'
<1>1. /\ missing = {} /\ url' = [url EXCEPT ![p] = "deleted"]
      /\ UNCHANGED <<dims, hpc, hphoto, hurl, refreshId, jobs, down, missing, excused>>
  BY DEF DeletePhoto, handlerVars
<1>2. Active' = Active /\ ended' = ended
  BY ActiveElse DEF DeletePhoto
<1>3. PhotoTypeOK' /\ url'[p] = "deleted" /\ \A q \in Photos : q # p => url'[q] = url[q]
  BY <1>1 DEF PhotoInv, PhotoTypeOK
<1>4. JobsNumbered' /\ HandlerHolds' /\ StartIsAlone'
  BY <1>1, <1>2 DEF PhotoInv, JobsNumbered, HandlerHolds, StartIsAlone
<1>5. ASSUME NEW q \in Photos \ excused', q # p PROVE Tidy(q)'
  <2>1. ~Touched(q)
    BY <1>1, <1>2, <1>3, <1>5 DEF Touched, At
  <2> QED
    BY <1>1, <2>1, RestStaysTidy
<1>6. p \notin excused' => Tidy(p)'
  <2> SUFFICES ASSUME p \notin excused PROVE Tidy(p)'
    BY <1>1
  <2>1. Alone(p)'
    BY <1>1, <1>2 DEF PhotoInv, Tidy, Alone, At
  <2>2. ~Exists(p)'
    BY <1>3, PhotoAssumption DEF Exists
  <2> QED
    BY <2>1, <2>2 DEF Tidy
<1>7. \A q \in Photos \ excused' : Tidy(q)'
  BY <1>5, <1>6
<1> QED
  BY <1>3, <1>4, <1>7 DEF PhotoInv

\* A task that was run leaves the dimensions of its url, or is excused.
LEMMA RunJobInv ==
  ASSUME PoolInv, PhotoInv, PoolInv', NEW w \in Workers, RunJob(w)
  PROVE  PhotoInv'
<1>1. /\ Finish(w)
      /\ UNCHANGED <<url, hpc, hphoto, hurl, refreshId, jobs, down, missing>>
      /\ \/ /\ dims' = IF Exists(task[w].photo)
                       THEN [dims EXCEPT ![task[w].photo] = task[w].url] ELSE dims
            /\ excused' = excused
         \/ /\ excused' = IF task[w].url = NoUrl THEN excused
                          ELSE excused \cup {task[w].photo}
            /\ dims' = dims
  BY DEF RunJob, handlerVars
<1>2. task[w] \in Active /\ Active' = Active \ {task[w]} /\ ended' = ended \cup {task[w]}
  BY <1>1, ActiveFinish DEF Finish
<1>3. task[w] \in Jobs /\ task[w].photo \in Photos /\ task[w].url \in Links
  BY <1>2, ActiveOfTypes, PhotoAssumption DEF PoolInv
<1>4. /\ PhotoTypeOK'
      /\ \A q \in Photos : q # task[w].photo => dims'[q] = dims[q]
  BY <1>1, <1>3 DEF PhotoInv, PhotoTypeOK
<1>5. JobsNumbered' /\ HandlerHolds'
  BY <1>1, <1>2 DEF PhotoInv, JobsNumbered, HandlerHolds
<1>6. StartIsAlone'
  BY <1>1, <1>2 DEF PhotoInv, StartIsAlone, Exists
<1>7. ASSUME NEW q \in Photos \ excused', q # task[w].photo PROVE Tidy(q)'
  <2>1. q \notin excused
    BY <1>1
  <2>2. ~Touched(q)
    BY <1>1, <1>2, <1>4, <1>7 DEF Touched, At
  <2> QED
    BY <2>1, <2>2, RestStaysTidy
<1>8. ASSUME NEW p \in Photos \ excused', p = task[w].photo PROVE Tidy(p)'
  <2>1. p \notin excused /\ Tidy(p)
    BY <1>1 DEF PhotoInv
  <2>2. \/ dims' = IF Exists(p) THEN [dims EXCEPT ![p] = task[w].url] ELSE dims
        \/ task[w].url \notin Urls
    BY <1>1, <1>8, PhotoAssumption
  <2>3. /\ \A j \in Active' : j.photo # p
        /\ \A h \in Handlers : ~At(h, p) /\ ~At(h, p)'
    BY <1>1, <1>2, <1>8, <2>1 DEF Tidy, Alone, At
  <2>4. Alone(p)'
    BY <2>3 DEF Alone
  <2>5. Exists(p)' => Heads(p)'
    <3>1. Exists(p)' => Exists(p) /\ url[p] = task[w].url
      BY <1>1, <1>2, <1>8, <2>1 DEF Exists, Tidy, Heads
    <3>2. Exists(p) /\ task[w].url \in Urls => dims'[p] = task[w].url
      BY <2>2 DEF PhotoInv, PhotoTypeOK
    <3> QED
      BY <1>1, <2>3, <3>1, <3>2 DEF Heads
  <2> QED
    BY <2>4, <2>5 DEF Tidy
<1>9. \A q \in Photos \ excused' : Tidy(q)'
  BY <1>7, <1>8
<1> QED
  BY <1>4, <1>5, <1>6, <1>9 DEF PhotoInv

\* Steps of the pool that begin and end no task.
LEMMA PoolOnlyInv ==
  ASSUME PoolInv, PhotoInv, PoolInv',
         UNCHANGED <<url, dims, handlerVars, jobs, down, missing, excused>>,
         \/ UNCHANGED poolVars \/ NotifyOne \/ Stop \/ NotifyAll \/ Join
         \/ \E w \in Workers : Wait(w) \/ WakeUp(w) \/ Return(w) \/ Take(w)
  PROVE  PhotoInv'
<1>1. Active' = Active /\ ended' = ended
  BY ActiveElse
<1>2. PhotoTypeOK' /\ JobsNumbered' /\ HandlerHolds' /\ StartIsAlone'
  BY <1>1 DEF handlerVars, PhotoInv, PhotoTypeOK, JobsNumbered, HandlerHolds, StartIsAlone, Exists
<1>3. ASSUME NEW q \in Photos \ excused' PROVE Tidy(q)'
  <2>1. ~Touched(q)
    BY <1>1 DEF handlerVars, Touched, At
  <2> QED
    BY <2>1, RestStaysTidy
<1> QED
  BY <1>2, <1>3 DEF PhotoInv

\* The end of the process excuses what was on its way, ...
LEMMA EndProcessInv ==
  ASSUME PoolInv, PhotoInv, PoolInv', EndProcess
  PROVE  PhotoInv'
<1>1. /\ Die /\ missing' = {} /\ UNCHANGED <<url, dims, jobs>>
      /\ excused' = excused \cup {p \in Photos : InFlight(p)}
      /\ hpc' = [h \in Handlers |-> "idle"] /\ hphoto' = [h \in Handlers |-> NoPhoto]
      /\ hurl' = [h \in Handlers |-> NoUrl] /\ refreshId' = [h \in Handlers |-> NoPhoto]
  BY DEF EndProcess
<1>2. Active' = {} /\ ended' = ended
  BY <1>1, ActiveDie DEF Die
<1>3. PhotoTypeOK' /\ \A h \in Handlers : hpc'[h] = "idle"
  BY <1>1 DEF PhotoInv, PhotoTypeOK, Links
<1>4. JobsNumbered' /\ HandlerHolds' /\ StartIsAlone'
  BY <1>1, <1>2, <1>3 DEF PhotoInv, JobsNumbered, HandlerHolds, StartIsAlone
<1>5. ASSUME NEW q \in Photos \ excused' PROVE Tidy(q)'
  <2>1. q \notin excused /\ ~InFlight(q)
    BY <1>1
  <2>2. ~Touched(q)
    BY <1>1, <1>2, <1>3, <2>1, InFlightIs DEF Touched, At
  <2> QED
    BY <2>1, <2>2, RestStaysTidy
<1> QED
  BY <1>3, <1>4, <1>5 DEF PhotoInv

\* ... and the next start makes up for the photos that have no dimensions yet.
LEMMA RestartInv ==
  ASSUME PoolInv, PhotoInv, PoolInv', Restart
  PROVE  PhotoInv'
<1>1. /\ down /\ missing' = MissingDims /\ excused' = excused \ MissingDims
      /\ UNCHANGED <<poolVars, url, dims, hpc, hphoto, hurl, refreshId, jobs>>
  BY DEF Restart, handlerVars
<1>2. Active' = Active /\ ended' = ended
  BY <1>1, ActiveElse
<1>3. Active = {} /\ missing = {} /\ \A h \in Handlers : hpc[h] = "idle"
  BY <1>1 DEF PhotoInv, StartIsAlone
<1>4. PhotoTypeOK' /\ JobsNumbered' /\ HandlerHolds'
  BY <1>1, <1>2 DEF MissingDims, PhotoInv, PhotoTypeOK, JobsNumbered, HandlerHolds
<1>5. ~down'
  BY Zenon DEF Restart
<1>6. StartIsAlone'
  BY <1>1, <1>3, <1>5 DEF StartIsAlone, MissingDims, Exists
<1>7. ASSUME NEW q \in Photos \ excused' PROVE Tidy(q)'
  <2>1. CASE q \in MissingDims
    <3>1. Alone(q)' /\ InFlight(q)'
      BY <1>1, <1>2, <1>3, <2>1 DEF Alone, At, InFlight
    <3>2. Heads(q)'
      BY <1>1, <1>2, <1>3, <3>1 DEF Heads, At
    <3> QED
      BY <3>1, <3>2 DEF Tidy
  <2>2. CASE q \notin MissingDims
    <3>1. q \notin excused
      BY <1>1, <2>2
    <3>2. ~Touched(q)
      BY <1>1, <1>2, <1>3, <2>2 DEF Touched, At
    <3> QED
      BY <3>1, <3>2, RestStaysTidy
  <2> QED
    BY <2>1, <2>2
<1> QED
  BY <1>4, <1>6, <1>7 DEF PhotoInv

-----------------------------------------------------------------------------
LEMMA PhotoNextInv ==
  ASSUME PoolInv, PhotoInv, [PhotoNext]_photoVars
  PROVE  PoolInv' /\ PhotoInv' /\ [PoolNext]_poolVars
<1>1. [PoolNext]_poolVars
  BY PhotoStepsPool DEF photoVars
<1>2. PoolInv'
  BY <1>1, PoolNextInv
<1>3. ASSUME UNCHANGED photoVars PROVE PhotoInv'
  BY <1>2, <1>3, PoolOnlyInv DEF photoVars
<1>4. ASSUME NEW h \in Handlers, NEW u \in Links, InsertPhoto(h, u) PROVE PhotoInv'
  <2>1. PICK p \in Photos : Begin(h, "readBack", p, u, NoPhoto, FALSE)
    BY <1>4 DEF InsertPhoto
  <2>2. hphoto'[h] = p
    BY <2>1 DEF Begin, PhotoInv, PhotoTypeOK
  <2> QED
    BY <1>2, <1>4, <2>2, BeginInv
<1>5. ASSUME NEW h \in Handlers, NEW u \in Links, NEW p \in Photos, QueryPhoto(h, p, u)
      PROVE  PhotoInv'
  BY <1>2, <1>5, BeginInv
<1>6. ASSUME NEW h \in Handlers, HandlerStep(h) PROVE PhotoInv'
  BY <1>2, <1>6, ReadBackInv, UpdatePhotoInv, HandlerEnds, SubmitInv DEF HandlerStep
<1>7. ASSUME NEW p \in Photos, DeletePhoto(p) \/ Backfill(p) PROVE PhotoInv'
  BY <1>2, <1>7, DeletePhotoInv, BackfillInv
<1>8. ASSUME NEW w \in Workers, WorkerStep(w) \/ PoolStep(WakeUp(w)) PROVE PhotoInv'
  BY <1>2, <1>8, RunJobInv, PoolOnlyInv DEF WorkerStep, PoolStep
<1>9. ASSUME PoolStep(NotifyOne) \/ Exit \/ PoolStep(NotifyAll) \/ PoolStep(Join)
      PROVE  PhotoInv'
  <2>1. UNCHANGED <<url, dims, handlerVars, jobs, down, missing, excused>>
    BY <1>9 DEF Exit, PoolStep
  <2>2. \/ UNCHANGED poolVars \/ NotifyOne \/ Stop \/ NotifyAll \/ Join
        \/ \E w \in Workers : Wait(w) \/ WakeUp(w) \/ Return(w) \/ Take(w)
    BY <1>9 DEF Exit, PoolStep
  <2> QED
    BY <1>2, <2>1, <2>2, PoolOnlyInv
<1>10. ASSUME EndProcess \/ Restart PROVE PhotoInv'
  BY <1>2, <1>10, EndProcessInv, RestartInv
<1>11. PhotoInv'
  BY <1>3, <1>4, <1>5, <1>6, <1>7, <1>8, <1>9, <1>10 DEF PhotoNext
<1> QED
  BY <1>1, <1>2, <1>11

LEMMA PhotoInitInv == PhotoInit => PoolInv /\ PhotoInv
<1> SUFFICES ASSUME PhotoInit PROVE PoolInv /\ PhotoInv
  OBVIOUS
<1>1. PoolInv
  BY PoolInitInv DEF PhotoInit
<1>2. Active = {} /\ ended = {}
  BY DEF PhotoInit, PoolInit, Active, Queued, Running
<1>3. PhotoTypeOK
  BY DEF PhotoInit, PhotoTypeOK, Links
<1>4. JobsNumbered /\ HandlerHolds
  BY <1>2 DEF PhotoInit, JobsNumbered, HandlerHolds
<1>5. StartIsAlone
  BY <1>2 DEF PhotoInit, StartIsAlone
<1>6. \A p \in Photos : Tidy(p)
  <2>1. \A p \in Photos : ~Exists(p)
    BY PhotoAssumption DEF PhotoInit, Exists
  <2> QED
    BY <1>2, <2>1 DEF PhotoInit, Tidy, Alone, At
<1> QED
  BY <1>1, <1>3, <1>4, <1>5, <1>6 DEF PhotoInv

\* The photo wall uses the pool as it is meant to be used: each task is submitted
\* once, and never to a pool whose destructor runs.  So what is proved of the pool
\* holds of it here.
THEOREM PhotoUsesPool == PhotoSpec => PoolSpec
<1>1. PhotoInit => PoolInit
  BY DEF PhotoInit
<1> QED
  BY <1>1, PhotoInitInv, PhotoNextInv, PTL DEF PhotoSpec, PoolSpec

\* DimsFollowUrl: when nothing is on its way for a photo with a url, it has the
\* dimensions of its image, whatever is posted without a url and whichever updates
\* fail in between - unless it is excused: see there for by what.
THEOREM PhotoDims == PhotoSpec => []DimsFollowUrl
<1>1. PhotoInv => DimsFollowUrl
  <2>1. \A p \in Photos : url[p] \in Urls => Exists(p)
    BY DEF Exists, Links
  <2> QED
    BY <2>1 DEF PhotoInv, Tidy, Heads, DimsFollowUrl
<1> QED
  BY <1>1, PhotoInitInv, PhotoNextInv, PTL DEF PhotoSpec
=============================================================================

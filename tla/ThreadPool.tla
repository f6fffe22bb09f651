----------------------------- MODULE ThreadPool -----------------------------
(***************************************************************************)
(* Blog::Utils::ThreadPool: a queue under a mutex, a condition variable and *)
(* the threads that wait on it.  What is done under the mutex is one step;  *)
(* submit() notifies after it has given the mutex back.                     *)
(***************************************************************************)
EXTENDS Integers, Sequences

CONSTANTS Workers,  \* the threads of the pool
          Jobs,     \* what may be submitted, each once
          NoJob     \* a worker has nothing to run

ASSUME PoolAssumption == NoJob \notin Jobs /\ Workers # {}

VARIABLES
  tasks_, stop_,
  worker,      \* step of each worker: "test", "waiting" on cv_, "run", "gone"
  task,        \* its task
  notifies,    \* calls of submit() between their push and notify_one()
  ended,       \* history: the jobs that were run
  destructor   \* step of ~ThreadPool: "none", "stopped", "notified", "joined"

poolVars == <<tasks_, stop_, worker, task, notifies, ended, destructor>>

PoolInit ==
  /\ tasks_ = <<>>
  /\ stop_ = FALSE
  /\ worker = [w \in Workers |-> "test"]
  /\ task = [w \in Workers |-> NoJob]
  /\ notifies = 0
  /\ ended = {}
  /\ destructor = "none"

Queued  == {tasks_[i] : i \in DOMAIN tasks_}
Running == {task[w] : w \in Workers} \ {NoJob}
Fresh(j) == j \notin Queued \cup Running \cup ended

-----------------------------------------------------------------------------
(* submit *)

Push(j) ==
  /\ destructor = "none"
  /\ tasks_' = Append(tasks_, j)
  /\ notifies' = notifies + 1
  /\ UNCHANGED <<stop_, worker, task, ended, destructor>>

\* The caller has notify_one() ahead of it; any worker that waits may be woken.
NotifyOne ==
  /\ notifies > 0
  /\ notifies' = notifies - 1
  /\ \/ \E w \in Workers : worker[w] = "waiting" /\ worker' = [worker EXCEPT ![w] = "test"]
     \/ (\A w \in Workers : worker[w] # "waiting") /\ UNCHANGED worker
  /\ UNCHANGED <<tasks_, stop_, task, ended, destructor>>

-----------------------------------------------------------------------------
(* A worker *)

\* Wrong on purpose: the worker waits without testing the condition.
MayWaitUntested == ~stop_

\* The predicate of cv_.wait() does not hold.
MayWait == ~stop_ /\ tasks_ = <<>>

Wait(w) ==
  /\ worker[w] = "test" /\ MayWait
  /\ worker' = [worker EXCEPT ![w] = "waiting"]
  /\ UNCHANGED <<tasks_, stop_, task, notifies, ended, destructor>>

\* A condition variable may wake up without a reason.
WakeUp(w) ==
  /\ worker[w] = "waiting"
  /\ worker' = [worker EXCEPT ![w] = "test"]
  /\ UNCHANGED <<tasks_, stop_, task, notifies, ended, destructor>>

\* Wrong on purpose: the newest first.
NextTaskBack == tasks_[Len(tasks_)]

NextTask == Head(tasks_)

Take(w) ==
  /\ worker[w] = "test" /\ tasks_ # <<>>
  /\ worker' = [worker EXCEPT ![w] = "run"]
  /\ task' = [task EXCEPT ![w] = NextTask]
  /\ tasks_' = Tail(tasks_)
  /\ UNCHANGED <<stop_, notifies, ended, destructor>>

Finish(w) ==
  /\ worker[w] = "run"
  /\ worker' = [worker EXCEPT ![w] = "test"]
  /\ ended' = ended \cup {task[w]}
  /\ task' = [task EXCEPT ![w] = NoJob]
  /\ UNCHANGED <<tasks_, stop_, notifies, destructor>>

\* Wrong on purpose: a pool that is stopped leaves its queue alone.
MayReturnAtOnce == stop_

MayReturn == stop_ /\ tasks_ = <<>>

Return(w) ==
  /\ worker[w] = "test" /\ MayReturn
  /\ worker' = [worker EXCEPT ![w] = "gone"]
  /\ UNCHANGED <<tasks_, stop_, task, notifies, ended, destructor>>

-----------------------------------------------------------------------------
(* ~ThreadPool, when no submit() is on its way *)

Stop ==
  /\ destructor = "none" /\ notifies = 0
  /\ destructor' = "stopped"
  /\ stop_' = TRUE
  /\ UNCHANGED <<tasks_, worker, task, notifies, ended>>

NotifyAll ==
  /\ destructor = "stopped"
  /\ destructor' = "notified"
  /\ worker' = [w \in Workers |-> IF worker[w] = "waiting" THEN "test" ELSE worker[w]]
  /\ UNCHANGED <<tasks_, stop_, task, notifies, ended>>

Join ==
  /\ destructor = "notified"
  /\ \A w \in Workers : worker[w] = "gone"
  /\ destructor' = "joined"
  /\ UNCHANGED <<tasks_, stop_, worker, task, notifies, ended>>

\* The process dies, and begins again with an empty pool.
Die ==
  /\ tasks_' = <<>>
  /\ stop_' = FALSE
  /\ worker' = [w \in Workers |-> "test"]
  /\ task' = [w \in Workers |-> NoJob]
  /\ notifies' = 0
  /\ destructor' = "none"
  /\ UNCHANGED ended

-----------------------------------------------------------------------------
Work(w) == Wait(w) \/ Take(w) \/ Finish(w) \/ Return(w)

PoolNext ==
  \/ \E j \in Jobs : Fresh(j) /\ Push(j)
  \/ NotifyOne
  \/ \E w \in Workers : Work(w) \/ WakeUp(w)
  \/ Stop \/ NotifyAll \/ Join \/ Die

PoolSpec == PoolInit /\ [][PoolNext]_poolVars

PoolTypeOK ==
  /\ tasks_ \in Seq(Jobs)
  /\ stop_ \in BOOLEAN
  /\ worker \in [Workers -> {"test", "waiting", "run", "gone"}]
  /\ task \in [Workers -> Jobs \cup {NoJob}]
  /\ notifies \in Nat
  /\ ended \subseteq Jobs
  /\ destructor \in {"none", "stopped", "notified", "joined"}

\* A task in the queue is not overlooked: a call of submit() has still to notify,
\* or a worker is awake and will look at the queue.
NoLostWakeup ==
  tasks_ # <<>> => notifies > 0 \/ \E w \in Workers : worker[w] \in {"test", "run"}

\* No task is forgotten: not while the pool is up, and not by its destructor, which
\* ends when all that was submitted has been run.
NoTaskForgotten ==
  /\ NoLostWakeup
  /\ destructor = "joined" => tasks_ = <<>> /\ Running = {}

\* The pool keeps the promise of JobQueue.
Promise == INSTANCE JobQueue WITH queued <- tasks_, running <- Running, ended <- ended
PoolKeepsPromise == Promise!Spec
=============================================================================

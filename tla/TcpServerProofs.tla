--------------------------- MODULE TcpServerProofs ---------------------------
(***************************************************************************)
(* For any connections, socket handles and number of sub-loops: the types, *)
(* and who owns a connection.  Until stop() empties m_tcpConns an open     *)
(* connection is in it, so no destructor meets one; and handles may be     *)
(* used again because a connection keeps its own until it is destroyed.    *)
(*                                                                         *)
(* None of the three invariants is inductive.  onClose erases by handle:   *)
(* that it erases its own connection needs FiledUnderItsHandle and         *)
(* HandlesDistinct, whose preservation by makeConn needs that nobody       *)
(* points to what is not alive (HeldIsAlive), which for the tasks of the   *)
(* current round needs BatchIsHeld.  That insert() finds the entry empty   *)
(* needs NotFiledYet besides.                                              *)
(*                                                                         *)
(* NotDeaf is about tasks, not pointers: it needs that Tick finds no task  *)
(* of the last round (BatchOnlyInFuncs), or it could throw one away that   *)
(* starts a reading.                                                       *)
(*                                                                         *)
(* What ends a connection: it is alive only while it is pointed to, so the *)
(* listener destroys its own connection only, and stop() leaves those that *)
(* tasks hold which were never run.                                        *)
(***************************************************************************)
EXTENDS TcpServer, TLAPS

\* Points of onNewConnIn at which its connection is not in the table yet.
NotYet == {"made", "wired", "queued"}

\* A connection somebody points to has not been destroyed.
HeldIsAlive == \A c \in Conns : Held(c) => dtor[c] = "alive"

\* The tasks of a round keep their connections for the whole round.
BatchIsHeld == \A l \in Loops : TaskConns(batch[l]) \subseteq held[l]

\* A handle belongs to one connection object at a time.
HandlesDistinct ==
  \A c, d \in Conns :
    dtor[c] = "alive" =>
      /\ fdOf[c] \in Fds
      /\ dtor[d] = "alive" /\ fdOf[d] = fdOf[c] => d = c

NotFiledYet == lpc \in NotYet => \A f \in Fds : tcpConns[f] # cur

Ownership ==
  /\ HeldIsAlive
  /\ BatchIsHeld
  /\ HandlesDistinct
  /\ FiledUnderItsHandle
  /\ NotFiledYet
  /\ OpenIsFiled
  /\ ClosedBeforeDestroyed

IInv == TypeOK /\ Ownership

-----------------------------------------------------------------------------
(* Sequences of tasks. *)

\* AddTask puts one task at the end: one more connection is held.
LEMMA AppendTask ==
  ASSUME NEW q \in Seq(Tasks), NEW t \in Tasks
  PROVE  /\ Append(q, t) \in Seq(Tasks)
         /\ TaskConns(Append(q, t)) = TaskConns(q) \cup {t.conn}
<1>1. DOMAIN q = 1 .. Len(q) /\ DOMAIN Append(q, t) = 1 .. Len(q) + 1 /\ Len(q) \in Nat
  OBVIOUS
<1>2. \A i \in 1 .. Len(q) : Append(q, t)[i] = q[i]
  OBVIOUS
<1>3. Append(q, t)[Len(q) + 1] = t
  OBVIOUS
<1>4. 1 .. Len(q) + 1 = (1 .. Len(q)) \cup {Len(q) + 1}
  BY <1>1
<1>5. TaskConns(q) = {q[i].conn : i \in 1 .. Len(q)}
  BY <1>1, Zenon DEF TaskConns
<1>6. TaskConns(Append(q, t)) = {Append(q, t)[i].conn : i \in (1 .. Len(q)) \cup {Len(q) + 1}}
  BY <1>1, <1>4, Zenon DEF TaskConns
<1>7. TaskConns(Append(q, t)) = TaskConns(q) \cup {t.conn}
  BY <1>2, <1>3, <1>5, <1>6
<1> QED
  BY <1>7

\* The first task and the rest of a round that is not over.
LEMMA FirstTask ==
  ASSUME NEW q \in Seq(Tasks), q # <<>>
  PROVE  /\ Head(q) \in Tasks
         /\ Head(q).conn \in Conns
         /\ Head(q).conn \in TaskConns(q)
         /\ Tail(q) \in Seq(Tasks)
         /\ TaskConns(Tail(q)) \subseteq TaskConns(q)
<1>1. DOMAIN q = 1 .. Len(q) /\ Len(q) \in Nat \ {0}
  OBVIOUS
<1>2. Head(q) = q[1] /\ 1 \in DOMAIN q
  BY <1>1
<1>3. Tail(q) \in Seq(Tasks) /\ DOMAIN Tail(q) = 1 .. Len(q) - 1
  BY <1>1
<1>4. \A i \in DOMAIN Tail(q) : i + 1 \in DOMAIN q /\ Tail(q)[i] = q[i + 1]
  BY <1>1, <1>3
<1>5. q[1] \in Tasks
  BY <1>2
<1>6. Head(q).conn \in TaskConns(q)
  BY <1>2 DEF TaskConns
<1>7. TaskConns(Tail(q)) \subseteq TaskConns(q)
  BY <1>4 DEF TaskConns
<1> QED
  BY <1>2, <1>3, <1>5, <1>6, <1>7 DEF Tasks

\* Tasks are about connections.
LEMMA TaskConnsType ==
  ASSUME NEW q \in Seq(Tasks)
  PROVE  TaskConns(q) \subseteq Conns
<1>1. \A i \in DOMAIN q : q[i] \in Tasks
  OBVIOUS
<1> QED
  BY <1>1 DEF TaskConns, Tasks

\* The queue that Tick leaves behind.
LEMMA NoTasks == <<>> \in Seq(Tasks) /\ TaskConns(<<>>) = {}
  BY DEF TaskConns

\* IOThread_Chooser stays an index of m_subLoops.
LEMMA Chooser == \A n \in Loops : (n + 1) % NLoops \in Loops
  BY NLoopsAssumption DEF Loops

-----------------------------------------------------------------------------
(* Type correctness. *)

\* The types hold when run() has returned.
LEMMA InitType == Init => TypeOK
<1> SUFFICES ASSUME Init PROVE TypeOK
  OBVIOUS
<1>1. 0 \in Loops
  BY NLoopsAssumption DEF Loops
<1>2. /\ queue \in [Loops -> Seq(Tasks)]
      /\ batch \in [Loops -> Seq(Tasks)]
  BY NoTasks DEF Init
<1>3. hnd \in [Loops -> [conn : Conns, cbs : SUBSET Callbacks] \cup {Idle}]
  BY DEF Init
<1> QED
  BY <1>1, <1>2, <1>3 DEF Init, TypeOK

\* Destructors keep the type of dtor.
LEMMA ReapType ==
  ASSUME TypeOK, NEW b \in {"inLoop", "offLoop"}, Reap(b)
  PROVE  dtor' \in [Conns -> {"unborn", "alive", "inLoop", "offLoop"}]
  BY DEF Reap, TypeOK

\* The write-complete task of a connection is a task.
LEMMA WriteCompleteType ==
  ASSUME NEW c \in Conns
  PROVE  WriteComplete(c) \in Tasks /\ WriteComplete(c).conn = c
  BY DEF WriteComplete, Tasks

\* AddTask keeps the type of the queues.
LEMMA AddTaskType ==
  ASSUME TypeOK, NEW l \in Loops, NEW t \in Tasks,
         queue' = [queue EXCEPT ![l] = Append(@, t)]
  PROVE  queue' \in [Loops -> Seq(Tasks)]
  BY AppendTask DEF TypeOK

\* sendInLoop keeps the types of what it writes.
LEMMA SendType ==
  ASSUME TypeOK, NEW c \in Conns, NEW l \in Loops, Send(c, l)
  PROVE  queue' \in [Loops -> Seq(Tasks)] /\ writing' \in [Conns -> BOOLEAN]
<1>1. PICK sent \in BOOLEAN, left \in BOOLEAN :
        /\ queue' = IF sent THEN [queue EXCEPT ![l] = Append(@, WriteComplete(c))]
                    ELSE queue
        /\ writing' = [writing EXCEPT ![c] = @ \/ left]
  BY DEF Send
<1>2. queue' \in [Loops -> Seq(Tasks)]
  BY <1>1, WriteCompleteType, AddTaskType DEF TypeOK
<1>3. writing' \in [Conns -> BOOLEAN]
  BY <1>1 DEF TypeOK
<1> QED
  BY <1>2, <1>3

\* handleClose keeps the types of what it writes.
LEMMA HandleCloseType ==
  ASSUME TypeOK, NEW c \in Conns, HandleClose(c)
  PROVE  /\ cstate' \in [Conns -> {"Connecting", "Connected", "DisConnected"}]
         /\ reading' \in [Conns -> BOOLEAN]
         /\ writing' \in [Conns -> BOOLEAN]
         /\ fault' \in BOOLEAN
         /\ tcpConns' \in [Fds -> Conns \cup {NoConn}]
  BY DEF HandleClose, TypeOK, Wired

\* The event at hand is that of a connection, and stays one.
LEMMA TurnType ==
  ASSUME TypeOK, NEW l \in Loops, NEW cb, Turn(l, cb)
  PROVE  /\ hnd[l].conn \in Conns
         /\ hnd' \in [Loops -> [conn : Conns, cbs : SUBSET Callbacks] \cup {Idle}]
<1>1. hnd[l] \in [conn : Conns, cbs : SUBSET Callbacks]
  BY DEF Turn, TypeOK, Idle
<1> QED
  BY <1>1 DEF Turn, TypeOK

\* The next task is about a connection.
LEMMA NextTaskType ==
  ASSUME TypeOK, NEW l \in Loops, NEW kind, NextTask(l, kind)
  PROVE  /\ Head(batch[l]).conn \in Conns
         /\ batch' \in [Loops -> Seq(Tasks)]
  BY FirstTask DEF NextTask, TypeOK

\* Clients keep the types.
LEMMA PeerType ==
  ASSUME TypeOK, NEW c \in Conns, Peer(c)
  PROVE  TypeOK'
<1> USE DEF TypeOK, listenerVars, stateVars, loopVars
<1>1. CASE PeerSend(c)
  BY <1>1 DEF PeerSend
<1>2. CASE PeerFin(c)
  BY <1>2 DEF PeerFin
<1>3. CASE PeerRst(c)
  BY <1>3 DEF PeerRst
<1> QED
  BY <1>1, <1>2, <1>3 DEF Peer

\* The listener thread keeps the types.
LEMMA ListenerType ==
  ASSUME TypeOK, Listener
  PROVE  TypeOK'
<1> USE DEF TypeOK, stateVars, socketVars, loopVars
<1>1. CASE ListenerPoll \/ SetCallbacks \/ ListenerEndRound \/ ListenerExit
  BY <1>1 DEF ListenerPoll, SetCallbacks, ListenerEndRound, ListenerExit
<1>2. CASE AddEstablishedTask
  <2>1. cur \in Conns
    BY <1>2 DEF AddEstablishedTask
  <2>2. [kind |-> "established", conn |-> cur] \in Tasks
    BY <2>1 DEF Tasks
  <2>3. queue' \in [Loops -> Seq(Tasks)]
    BY <1>2, <2>1, <2>2, AddTaskType DEF AddEstablishedTask
  <2> QED
    BY <1>2, <2>3 DEF AddEstablishedTask
<1>3. CASE InsertConn
  BY <1>3 DEF InsertConn
<1>4. CASE ReturnFromAccept
  BY <1>4, ReapType DEF ReturnFromAccept
<1>5. ASSUME NEW c \in Conns, NEW f \in Fds, MakeConn(c, f)
      PROVE  TypeOK'
  <2>1. chooser' \in Loops
    BY <1>5, Chooser DEF MakeConn
  <2> QED
    BY <1>5, <2>1, NoConnAssumption DEF MakeConn
<1> QED
  BY <1>1, <1>2, <1>3, <1>4, <1>5 DEF Listener

\* The events of a sub-loop keep the types.
LEMMA EventsType ==
  ASSUME TypeOK, NEW l \in Loops, LoopEvents(l)
  PROVE  TypeOK'
<1> USE DEF TypeOK, listenerVars, stateVars, socketVars
<1>1. ASSUME NEW W \in SUBSET Conns, Listen(l, W)
      PROVE  TypeOK'
  BY <1>1 DEF Listen, EventsOf
<1>2. ASSUME NEW c \in Conns, HandleEvent(l, c)
      PROVE  TypeOK'
  <2>1. CallbacksFor(revents[c]) \in SUBSET Callbacks
    BY DEF CallbacksFor, Callbacks
  <2> QED
    BY <1>2, <2>1 DEF HandleEvent
<1>3. CASE DropEvent(l)
  BY <1>3 DEF DropEvent
<1>4. CASE OnHupOrError(l)
  BY <1>4, TurnType, HandleCloseType, ReapType DEF OnHupOrError
<1>5. CASE OnReadClosed(l)
  BY <1>5, TurnType DEF OnReadClosed
<1>6. CASE OnReadMessage(l)
  BY <1>6, TurnType, SendType DEF OnReadMessage
<1>7. CASE OnReadClose(l)
  <2>1. queue' \in [Loops -> Seq(Tasks)]
    BY <1>7, TurnType, WriteCompleteType, AddTaskType DEF OnReadClose
  <2> QED
    BY <1>7, <2>1, TurnType, HandleCloseType, ReapType DEF OnReadClose
<1>8. CASE OnWrite(l)
  <2>1. queue' \in [Loops -> Seq(Tasks)]
    BY <1>8, TurnType, WriteCompleteType, AddTaskType DEF OnWrite
  <2> QED
    BY <1>8, <2>1, TurnType DEF OnWrite
<1>9. CASE OnPost(l)
  BY <1>9, TurnType DEF OnPost
<1> QED
  BY <1>1, <1>2, <1>3, <1>4, <1>5, <1>6, <1>7, <1>8, <1>9 DEF LoopEvents

\* The functions of a sub-loop keep the types.
LEMMA FuncsType ==
  ASSUME TypeOK, NEW l \in Loops, LoopFuncs(l)
  PROVE  TypeOK'
<1> USE DEF TypeOK, listenerVars, stateVars, socketVars
<1>1. ASSUME NEW D \in SUBSET Conns, Tick(l, D)
      PROVE  TypeOK'
  <2>1. TaskConns(queue[l]) \in SUBSET Conns
    BY TaskConnsType
  <2> QED
    BY <1>1, <2>1, NoTasks DEF Tick
<1>2. CASE RunEstablished(l)
  BY <1>2, NextTaskType DEF RunEstablished
<1>3. CASE RunWriteCompleteKeep(l)
  BY <1>3, NextTaskType DEF RunWriteCompleteKeep
<1>4. CASE RunWriteCompleteClose(l)
  BY <1>4, NextTaskType, HandleCloseType, ReapType DEF RunWriteCompleteClose
<1>5. ASSUME NEW c \in Conns, RunIdleKeep(l, c)
      PROVE  TypeOK'
  <2>1. queue' \in [Loops -> Seq(Tasks)] /\ writing' \in [Conns -> BOOLEAN]
    BY <1>5, SendType DEF RunIdleKeep
  <2> QED
    BY <1>5, <2>1 DEF RunIdleKeep
<1>6. ASSUME NEW c \in Conns, RunIdleClose(l, c)
      PROVE  TypeOK'
  BY <1>6, HandleCloseType, ReapType DEF RunIdleClose
<1>7. CASE EndRound(l)
  BY <1>7, ReapType DEF EndRound
<1>8. CASE LoopExit(l)
  BY <1>8 DEF LoopExit
<1> QED
  BY <1>1, <1>2, <1>3, <1>4, <1>5, <1>6, <1>7, <1>8 DEF LoopFuncs

\* stop() keeps the types.
LEMMA StopperType ==
  ASSUME TypeOK, Stopper
  PROVE  TypeOK'
<1> USE DEF TypeOK, listenerVars, stateVars, socketVars, loopVars
<1>1. CASE StopBegin \/ StopListenerGone \/ StopQuitLoops \/ StopReturn
  BY <1>1 DEF StopBegin, StopListenerGone, StopQuitLoops, StopReturn
<1>2. ASSUME NEW f \in Fds, StopClearOne(f)
      PROVE  TypeOK'
  BY <1>2, ReapType DEF StopClearOne
<1> QED
  BY <1>1, <1>2 DEF Stopper

\* The types are inductive.
LEMMA NextType == TypeOK /\ [Next]_vars => TypeOK'
<1>1. TypeOK /\ UNCHANGED vars => TypeOK'
  BY DEF TypeOK, vars, listenerVars, stateVars, socketVars, loopVars
<1> QED
  BY <1>1, PeerType, ListenerType, EventsType, FuncsType, StopperType DEF Next

\* The types of all variables, for any number of connections, handles and loops.
THEOREM TypeCorrect == Spec => []TypeOK
  BY InitType, NextType, PTL DEF Spec

-----------------------------------------------------------------------------
(* Ownership. *)

\* What most steps do.  They make no new connection and file none ...
KeepsHandles ==
  /\ cur' = cur \/ (cur' = NoConn /\ lpc \notin NotYet)
  /\ lpc' \in NotYet <=> lpc \in NotYet
  /\ fdOf' = fdOf

\* ... take entries out of the table, but unless stop() is emptying it only those
\* of closed connections, and open none again ...
TakesOutClosed ==
  /\ \A f \in Fds : tcpConns'[f] \in {tcpConns[f], NoConn}
  /\ Cleared => Cleared'
  /\ \A c \in Conns : cstate[c] = "DisConnected" => cstate'[c] = "DisConnected"
  /\ ~Cleared' => \A c \in Conns :
       dtor[c] = "alive" /\ cstate'[c] # "DisConnected"
         => tcpConns'[fdOf[c]] = tcpConns[fdOf[c]]

\* ... let the sub-loops hold living connections only ...
HoldsLiving ==
  \A l \in Loops :
    /\ TaskConns(batch'[l]) \subseteq held'[l]
    /\ \A c \in held'[l] \cup TaskConns(queue'[l]) : c \in Conns => dtor[c] = "alive"

\* ... and destroy nothing, or what nobody points to any more.
Destroys == dtor' = dtor \/ Reap("inLoop") \/ Reap("offLoop")

\* Such a step keeps Ownership.
LEMMA OwnershipStep ==
  ASSUME IInv, KeepsHandles, TakesOutClosed, HoldsLiving, Destroys
  PROVE  Ownership'
<1> USE DEF IInv, Ownership, KeepsHandles, TakesOutClosed, HoldsLiving
<1>1. \A c \in Conns : Held(c)' => dtor[c] = "alive"
  BY NoConnAssumption DEF Held, HeldIsAlive
<1>2. \A c \in Conns :
        \/ dtor'[c] = dtor[c]
        \/ dtor[c] = "alive" /\ dtor'[c] \in {"inLoop", "offLoop"} /\ ~Held(c)'
  BY DEF Destroys, Reap
<1>3. HeldIsAlive'
  BY <1>1, <1>2 DEF HeldIsAlive
<1>4. BatchIsHeld'
  BY DEF BatchIsHeld
<1>5. HandlesDistinct'
  BY <1>2 DEF HandlesDistinct
<1>6. FiledUnderItsHandle'
  <2> SUFFICES ASSUME NEW f \in Fds, tcpConns'[f] # NoConn
               PROVE  fdOf'[tcpConns'[f]] = f /\ dtor'[tcpConns'[f]] = "alive"
    BY DEF FiledUnderItsHandle
  <2>1. tcpConns'[f] = tcpConns[f] /\ tcpConns[f] \in Conns
    BY DEF TypeOK
  <2>2. Held(tcpConns[f])'
    BY <2>1 DEF Held
  <2> QED
    BY <2>1, <2>2, <1>3 DEF FiledUnderItsHandle, HeldIsAlive
<1>7. NotFiledYet'
  <2> SUFFICES ASSUME lpc' \in NotYet, NEW f \in Fds
               PROVE  tcpConns'[f] # cur'
    BY DEF NotFiledYet
  <2>1. cur' = cur /\ cur # NoConn
    BY DEF TypeOK, NotYet
  <2> QED
    BY <2>1 DEF NotFiledYet
<1>8. OpenIsFiled'
  <2> SUFFICES ASSUME ~Cleared', NEW c \in Conns, Open(c)'
               PROVE  \/ cur' = c /\ lpc' \in NotYet
                      \/ tcpConns'[fdOf'[c]] = c
    BY DEF OpenIsFiled, NotYet
  <2>1. dtor[c] = "alive" /\ Open(c) /\ cstate'[c] # "DisConnected"
    BY <1>2 DEF Open
  <2>2. \/ cur = c /\ lpc \in NotYet
        \/ tcpConns[fdOf[c]] = c
    BY <2>1 DEF OpenIsFiled, NotYet
  <2> QED
    BY <2>1, <2>2
<1>9. ClosedBeforeDestroyed'
  <2> SUFFICES ASSUME ~Cleared', NEW c \in Conns, dtor'[c] \in {"inLoop", "offLoop"},
                      cstate'[c] # "DisConnected"
               PROVE  FALSE
    BY DEF ClosedBeforeDestroyed
  <2>1. ~Cleared /\ cstate[c] # "DisConnected"
    OBVIOUS
  <2>2. dtor[c] = "alive" /\ ~Held(c)'
    BY <1>2, <2>1 DEF ClosedBeforeDestroyed
  <2>3. \/ cur = c /\ lpc \in NotYet
        \/ tcpConns[fdOf[c]] = c
    BY <2>1, <2>2 DEF OpenIsFiled, Open, NotYet
  <2>4. cur' = c \/ tcpConns'[fdOf[c]] = c
    BY <2>2, <2>3
  <2>5. fdOf[c] \in Fds
    BY <2>2 DEF HandlesDistinct
  <2> QED
    BY <2>2, <2>4, <2>5 DEF Held
<1> QED
  BY <1>3, <1>4, <1>5, <1>6, <1>7, <1>8, <1>9

\* handleClose of a living connection takes its own entry, and no other, out of
\* the table.
LEMMA CloseTakesItsOwn ==
  ASSUME IInv, NEW c \in Conns, dtor[c] = "alive", HandleClose(c), spc' = spc
  PROVE  TakesOutClosed
<1> USE DEF IInv, Ownership
<1>1. \A d \in Conns : cstate'[d] = IF d = c THEN "DisConnected" ELSE cstate[d]
  BY DEF HandleClose, TypeOK
<1>2. \A d \in Conns : dtor[d] = "alive" /\ d # c => fdOf[d] \in Fds /\ fdOf[d] # fdOf[c]
  BY DEF HandlesDistinct
<1>3. \A f \in Fds : f # fdOf[c] => tcpConns'[f] = tcpConns[f]
  BY DEF HandleClose, TypeOK
<1>4. \A f \in Fds : tcpConns'[f] \in {tcpConns[f], NoConn}
  BY DEF HandleClose, TypeOK
<1> QED
  BY <1>1, <1>2, <1>3, <1>4 DEF TakesOutClosed, Cleared

\* A step that leaves the table and the states alone.
LEMMA TableAlone ==
  ASSUME IInv, tcpConns' = tcpConns, Cleared => Cleared',
         \A c \in Conns : cstate[c] = "DisConnected" => cstate'[c] = "DisConnected"
  PROVE  TakesOutClosed
  BY DEF TakesOutClosed

\* One task of a living connection is added.
LEMMA AddTaskHolds ==
  ASSUME IInv, NEW l \in Loops, NEW t \in Tasks, dtor[t.conn] = "alive",
         queue' = [queue EXCEPT ![l] = Append(@, t)], held' = held,
         \A k \in Loops : TaskConns(batch'[k]) \subseteq TaskConns(batch[k])
  PROVE  HoldsLiving
<1>1. \A k \in Loops : TaskConns(queue'[k]) \subseteq TaskConns(queue[k]) \cup {t.conn}
  BY AppendTask DEF IInv, TypeOK
<1>2. \A k \in Loops : \A c \in held[k] \cup TaskConns(queue[k]) :
        c \in Conns => dtor[c] = "alive"
  BY DEF IInv, Ownership, HeldIsAlive, Held
<1>3. \A k \in Loops : TaskConns(batch[k]) \subseteq held[k]
  BY DEF IInv, Ownership, BatchIsHeld
<1> QED
  BY <1>1, <1>2, <1>3 DEF HoldsLiving

\* No task is added.
LEMMA NothingAdded ==
  ASSUME IInv, queue' = queue, held' = held,
         \A k \in Loops : TaskConns(batch'[k]) \subseteq TaskConns(batch[k])
  PROVE  HoldsLiving
<1>1. \A k \in Loops : \A c \in held[k] \cup TaskConns(queue[k]) :
        c \in Conns => dtor[c] = "alive"
  BY DEF IInv, Ownership, HeldIsAlive, Held
<1>2. \A k \in Loops : TaskConns(batch[k]) \subseteq held[k]
  BY DEF IInv, Ownership, BatchIsHeld
<1> QED
  BY <1>1, <1>2 DEF HoldsLiving

\* The write-complete task of an answer holds a living connection.
LEMMA SendHolds ==
  ASSUME IInv, NEW c \in Conns, dtor[c] = "alive", NEW l \in Loops, Send(c, l),
         held' = held, batch' = batch
  PROVE  HoldsLiving
<1>1. CASE queue' = queue
  BY <1>1, NothingAdded
<1>2. CASE queue' = [queue EXCEPT ![l] = Append(@, WriteComplete(c))]
  BY <1>2, WriteCompleteType, AddTaskHolds
<1> QED
  BY <1>1, <1>2 DEF Send

\* Nobody owns anything at first.
LEMMA InitOwnership == Init => Ownership
<1> SUFFICES ASSUME Init PROVE Ownership
  OBVIOUS
<1>1. \A c \in Conns : ~Held(c)
  BY NoTasks, NoConnAssumption DEF Init, Held
<1> QED
  BY <1>1, NoTasks
  DEF Init, Ownership, HeldIsAlive, BatchIsHeld, HandlesDistinct, NotFiledYet, NotYet,
      FiledUnderItsHandle, OpenIsFiled, Open, ClosedBeforeDestroyed

\* Steps that leave ownership alone.
LEMMA Bystander ==
  ASSUME IInv, UNCHANGED <<cur, tcpConns, fdOf, dtor, queue, held, cstate>>,
         lpc' \in NotYet <=> lpc \in NotYet, Cleared => Cleared',
         \A k \in Loops : TaskConns(batch'[k]) \subseteq TaskConns(batch[k])
  PROVE  Ownership'
<1>1. KeepsHandles
  BY DEF KeepsHandles
<1>2. TakesOutClosed
  BY TableAlone
<1>3. HoldsLiving
  BY NothingAdded
<1>4. Destroys
  BY DEF Destroys
<1> QED
  BY <1>1, <1>2, <1>3, <1>4, OwnershipStep

\* Clients own nothing.
LEMMA PeerOwnership ==
  ASSUME IInv, NEW c \in Conns, Peer(c)
  PROVE  Ownership'
  BY Bystander
  DEF Peer, PeerSend, PeerFin, PeerRst, listenerVars, stateVars, loopVars, Cleared

\* onNewConnIn keeps Ownership.
LEMMA ListenerOwnership ==
  ASSUME IInv, Listener
  PROVE  Ownership'
<1> USE DEF listenerVars, stateVars, socketVars, loopVars
<1>1. CASE ListenerPoll \/ SetCallbacks \/ ListenerEndRound \/ ListenerExit
  BY <1>1, Bystander
  DEF ListenerPoll, SetCallbacks, ListenerEndRound, ListenerExit, NotYet, Cleared
<1>2. CASE AddEstablishedTask
  <2> DEFINE t == [kind |-> "established", conn |-> cur]
  <2>1. cur \in Conns /\ dtor[cur] = "alive"
    BY <1>2 DEF AddEstablishedTask, IInv, TypeOK, Ownership, HeldIsAlive, Held
  <2>2. t \in Tasks /\ t.conn = cur
    BY <2>1 DEF Tasks
  <2>3. loopOf[cur] \in Loops
    BY <2>1 DEF IInv, TypeOK
  <2> HIDE DEF t
  <2>4. HoldsLiving
    BY <1>2, <2>1, <2>2, <2>3, AddTaskHolds DEF AddEstablishedTask, t
  <2>5. KeepsHandles /\ Destroys
    BY <1>2 DEF AddEstablishedTask, KeepsHandles, Destroys, NotYet
  <2>6. TakesOutClosed
    BY <1>2, TableAlone DEF AddEstablishedTask, Cleared
  <2> QED
    BY <2>4, <2>5, <2>6, OwnershipStep
<1>3. CASE InsertConn
  <2> USE DEF IInv, Ownership
  <2>1. cur \in Conns /\ dtor[cur] = "alive" /\ fdOf[cur] \in Fds
    BY <1>3 DEF InsertConn, TypeOK, HeldIsAlive, Held, HandlesDistinct
  <2>2. tcpConns[fdOf[cur]] = NoConn
    BY <1>3, <2>1
    DEF InsertConn, TypeOK, FiledUnderItsHandle, HandlesDistinct, NotFiledYet, NotYet
  <2>3. tcpConns' = [tcpConns EXCEPT ![fdOf[cur]] = cur]
    BY <1>3, <2>2 DEF InsertConn
  <2>4. \A f \in Fds : tcpConns'[f] = IF f = fdOf[cur] THEN cur ELSE tcpConns[f]
    BY <2>3 DEF TypeOK
  <2>5. UNCHANGED <<cur, fdOf, dtor, cstate, queue, held, batch, spc>>
    BY <1>3 DEF InsertConn
  <2>6. \A c \in Conns : Held(c)' => Held(c)
    BY <2>1, <2>4, <2>5 DEF Held
  <2>7. HeldIsAlive' /\ BatchIsHeld' /\ HandlesDistinct'
    BY <2>5, <2>6 DEF HeldIsAlive, BatchIsHeld, HandlesDistinct
  <2>8. FiledUnderItsHandle'
    BY <2>1, <2>4, <2>5 DEF FiledUnderItsHandle
  <2>9. NotFiledYet' /\ ClosedBeforeDestroyed'
    BY <1>3, <2>5
    DEF InsertConn, NotFiledYet, NotYet, ClosedBeforeDestroyed, Cleared
  <2>10. OpenIsFiled'
    BY <1>3, <2>1, <2>4, <2>5
    DEF InsertConn, OpenIsFiled, Open, HandlesDistinct, Cleared
  <2> QED
    BY <2>7, <2>8, <2>9, <2>10
<1>4. CASE ReturnFromAccept
  <2>1. HoldsLiving
    BY <1>4, NothingAdded DEF ReturnFromAccept
  <2>2. KeepsHandles /\ Destroys
    BY <1>4 DEF ReturnFromAccept, KeepsHandles, Destroys, NotYet
  <2>3. TakesOutClosed
    BY <1>4, TableAlone DEF ReturnFromAccept, Cleared
  <2> QED
    BY <2>1, <2>2, <2>3, OwnershipStep
<1>5. ASSUME NEW c \in Conns, NEW f \in Fds, MakeConn(c, f)
      PROVE  Ownership'
  <2> USE DEF IInv, Ownership
  <2>1. ~Held(c) /\ \A g \in Fds : tcpConns[g] # c
    BY <1>5 DEF MakeConn, HeldIsAlive, Held
  <2>2. UNCHANGED <<tcpConns, cstate, queue, held, batch, spc>>
    BY <1>5 DEF MakeConn
  <2>3. \A d \in Conns : /\ dtor'[d] = IF d = c THEN "alive" ELSE dtor[d]
                         /\ fdOf'[d] = IF d = c THEN f ELSE fdOf[d]
    BY <1>5 DEF MakeConn, TypeOK
  <2>4. cur' = c /\ lpc' = "made"
    BY <1>5 DEF MakeConn
  <2>5. \A d \in Conns : Held(d)' => Held(d) \/ d = c
    BY <2>2, <2>4 DEF Held
  <2>6. HeldIsAlive' /\ BatchIsHeld'
    BY <2>2, <2>3, <2>5 DEF HeldIsAlive, BatchIsHeld
  <2>7. HandlesDistinct'
    BY <1>5, <2>3 DEF MakeConn, HandlesDistinct
  <2>8. FiledUnderItsHandle'
    BY <2>1, <2>2, <2>3 DEF FiledUnderItsHandle, TypeOK
  <2>9. NotFiledYet'
    BY <2>1, <2>2, <2>4 DEF NotFiledYet
  <2>10. OpenIsFiled'
    BY <1>5, <2>2, <2>3, <2>4 DEF MakeConn, OpenIsFiled, Open, TypeOK, Cleared
  <2>11. ClosedBeforeDestroyed'
    BY <2>2, <2>3 DEF ClosedBeforeDestroyed, Cleared
  <2> QED
    BY <2>6, <2>7, <2>8, <2>9, <2>10, <2>11
<1> QED
  BY <1>1, <1>2, <1>3, <1>4, <1>5 DEF Listener

\* handleClose called by a step of a sub-loop.
LEMMA ClosingStep ==
  ASSUME IInv, NEW c \in Conns, dtor[c] = "alive", HandleClose(c), Reap("inLoop"),
         UNCHANGED <<cur, lpc, fdOf, spc>>, HoldsLiving
  PROVE  Ownership'
<1>1. KeepsHandles /\ Destroys
  BY DEF KeepsHandles, Destroys
<1>2. TakesOutClosed
  BY CloseTakesItsOwn
<1> QED
  BY <1>1, <1>2, OwnershipStep

\* A step of a sub-loop that closes nothing and destroys nothing.
LEMMA OpenStep ==
  ASSUME IInv, UNCHANGED <<cur, lpc, fdOf, spc, tcpConns, dtor>>, HoldsLiving,
         \A c \in Conns : cstate[c] = "DisConnected" => cstate'[c] = "DisConnected"
  PROVE  Ownership'
<1>1. KeepsHandles /\ Destroys
  BY DEF KeepsHandles, Destroys
<1>2. TakesOutClosed
  BY TableAlone DEF Cleared
<1> QED
  BY <1>1, <1>2, OwnershipStep

\* The events of a sub-loop keep Ownership.
LEMMA EventsOwnership ==
  ASSUME IInv, NEW l \in Loops, LoopEvents(l)
  PROVE  Ownership'
<1> USE DEF listenerVars, stateVars, socketVars
<1>1. ASSUME NEW W \in SUBSET Conns, Listen(l, W)
      PROVE  Ownership'
  BY <1>1, Bystander DEF Listen, Cleared
<1>2. ASSUME NEW c \in Conns, HandleEvent(l, c)
      PROVE  Ownership'
  BY <1>2, Bystander DEF HandleEvent, Cleared
<1>3. CASE DropEvent(l) \/ OnReadClosed(l) \/ OnPost(l)
  BY <1>3, Bystander DEF DropEvent, OnReadClosed, OnPost, Cleared
<1> DEFINE c == hnd[l].conn
<1>4. ASSUME NEW cb, Turn(l, cb)
      PROVE  c \in Conns /\ dtor[c] = "alive"
  BY <1>4, TurnType DEF Turn, Added, IInv
<1>5. CASE OnHupOrError(l)
  <2>1. c \in Conns /\ dtor[c] = "alive" /\ HandleClose(c)
    BY <1>4, <1>5 DEF OnHupOrError
  <2>2. HoldsLiving
    BY <1>5, NothingAdded DEF OnHupOrError
  <2> HIDE DEF c
  <2> QED
    BY <1>5, <2>1, <2>2, ClosingStep DEF OnHupOrError
<1>6. CASE OnReadMessage(l)
  <2>1. c \in Conns /\ dtor[c] = "alive" /\ Send(c, l)
    BY <1>4, <1>6 DEF OnReadMessage
  <2>2. HoldsLiving
    BY <1>6, <2>1, SendHolds DEF OnReadMessage
  <2>3. \A d \in Conns : cstate[d] = "DisConnected" => cstate'[d] = "DisConnected"
    BY <1>6 DEF OnReadMessage, IInv, TypeOK
  <2> QED
    BY <1>6, <2>2, <2>3, OpenStep DEF OnReadMessage
<1>7. CASE OnReadClose(l)
  <2>1. c \in Conns /\ dtor[c] = "alive" /\ HandleClose(c)
    BY <1>4, <1>7 DEF OnReadClose
  <2>2. \/ queue' = queue
        \/ queue' = [queue EXCEPT ![l] = Append(@, WriteComplete(c))]
    BY <1>7 DEF OnReadClose
  <2> HIDE DEF c
  <2>3. HoldsLiving
    <3>1. CASE queue' = queue
      BY <1>7, <3>1, NothingAdded DEF OnReadClose
    <3>2. CASE queue' = [queue EXCEPT ![l] = Append(@, WriteComplete(c))]
      <4>1. WriteComplete(c) \in Tasks /\ WriteComplete(c).conn = c
        BY <2>1, WriteCompleteType
      <4>2. held' = held /\ batch' = batch
        BY <1>7 DEF OnReadClose
      <4> QED
        BY <2>1, <3>2, <4>1, <4>2, AddTaskHolds
    <3> QED
      BY <2>2, <3>1, <3>2
  <2> QED
    BY <1>7, <2>1, <2>3, ClosingStep DEF OnReadClose
<1>8. CASE OnWrite(l)
  <2>1. c \in Conns /\ dtor[c] = "alive"
    BY <1>4, <1>8 DEF OnWrite
  <2>2. \/ queue' = queue
        \/ queue' = [queue EXCEPT ![l] = Append(@, WriteComplete(c))]
    BY <1>8 DEF OnWrite
  <2> HIDE DEF c
  <2>3. HoldsLiving
    <3>1. CASE queue' = queue
      BY <1>8, <3>1, NothingAdded DEF OnWrite
    <3>2. CASE queue' = [queue EXCEPT ![l] = Append(@, WriteComplete(c))]
      <4>1. held' = held /\ batch' = batch
        BY <1>8 DEF OnWrite
      <4> QED
        BY <2>1, <3>2, <4>1, WriteCompleteType, AddTaskHolds
    <3> QED
      BY <2>2, <3>1, <3>2
  <2> QED
    BY <1>8, <2>3, OpenStep DEF OnWrite
<1> QED
  BY <1>1, <1>2, <1>3, <1>5, <1>6, <1>7, <1>8 DEF LoopEvents

\* The functions of a sub-loop keep Ownership.
LEMMA FuncsOwnership ==
  ASSUME IInv, NEW l \in Loops, LoopFuncs(l)
  PROVE  Ownership'
<1> USE DEF listenerVars, stateVars, socketVars
<1>1. ASSUME NEW D \in SUBSET Conns, Tick(l, D)
      PROVE  Ownership'
  <2>1. \A k \in Loops : /\ batch'[k] = IF k = l THEN queue[k] ELSE batch[k]
                         /\ queue'[k] = IF k = l THEN <<>> ELSE queue[k]
                         /\ held'[k] = IF k = l THEN TaskConns(queue[k]) ELSE held[k]
    BY <1>1 DEF Tick, IInv, TypeOK
  <2>2. \A k \in Loops : \A c \in held[k] \cup TaskConns(queue[k]) :
          c \in Conns => dtor[c] = "alive"
    BY DEF IInv, Ownership, HeldIsAlive, Held
  <2>3. \A k \in Loops : TaskConns(batch[k]) \subseteq held[k]
    BY DEF IInv, Ownership, BatchIsHeld
  <2>4. HoldsLiving
    BY <2>1, <2>2, <2>3, NoTasks DEF HoldsLiving
  <2> QED
    BY <1>1, <2>4, OpenStep DEF Tick
<1>2. ASSUME NEW kind, NextTask(l, kind)
      PROVE  \A k \in Loops : TaskConns(batch'[k]) \subseteq TaskConns(batch[k])
  BY <1>2, FirstTask DEF NextTask, IInv, TypeOK
<1>3. CASE RunEstablished(l) \/ RunWriteCompleteKeep(l)
  BY <1>2, <1>3, Bystander DEF RunEstablished, RunWriteCompleteKeep, Cleared
<1>4. CASE RunWriteCompleteClose(l)
  <2> DEFINE c == Head(batch[l]).conn
  <2>1. c \in Conns /\ c \in TaskConns(batch[l]) /\ HandleClose(c)
    BY <1>4, FirstTask DEF RunWriteCompleteClose, NextTask, IInv, TypeOK
  <2> HIDE DEF c
  <2>2. dtor[c] = "alive"
    BY <2>1 DEF IInv, Ownership, BatchIsHeld, HeldIsAlive, Held
  <2>3. HoldsLiving
    BY <1>2, <1>4, NothingAdded DEF RunWriteCompleteClose
  <2> QED
    BY <1>4, <2>1, <2>2, <2>3, ClosingStep DEF RunWriteCompleteClose
<1>5. ASSUME NEW c \in Conns, RunIdleKeep(l, c)
      PROVE  Ownership'
  <2>1. CASE timer'[c]
    <3>1. dtor[c] = "alive"
      BY <1>5, <2>1 DEF RunIdleKeep, IInv, TypeOK
    <3>2. HoldsLiving
      BY <1>5, <2>1, <3>1, SendHolds DEF RunIdleKeep
    <3> QED
      BY <1>5, <3>2, OpenStep DEF RunIdleKeep
  <2>2. CASE ~timer'[c]
    <3>1. HoldsLiving
      BY <1>5, <2>2, NothingAdded DEF RunIdleKeep
    <3> QED
      BY <1>5, <3>1, OpenStep DEF RunIdleKeep
  <2> QED
    BY <2>1, <2>2
<1>6. ASSUME NEW c \in Conns, RunIdleClose(l, c)
      PROVE  Ownership'
  <2>1. HoldsLiving
    BY <1>6, NothingAdded DEF RunIdleClose
  <2> QED
    BY <1>6, <2>1, ClosingStep DEF RunIdleClose
<1>7. CASE EndRound(l)
  <2>1. \A k \in Loops : held'[k] = IF k = l THEN {} ELSE held[k]
    BY <1>7 DEF EndRound, IInv, TypeOK
  <2>2. \A k \in Loops : \A c \in held[k] \cup TaskConns(queue[k]) :
          c \in Conns => dtor[c] = "alive"
    BY DEF IInv, Ownership, HeldIsAlive, Held
  <2>3. \A k \in Loops : TaskConns(batch[k]) \subseteq held[k]
    BY DEF IInv, Ownership, BatchIsHeld
  <2>4. batch[l] = <<>> /\ batch' = batch /\ queue' = queue
    BY <1>7 DEF EndRound
  <2>5. HoldsLiving
    BY <2>1, <2>2, <2>3, <2>4, NoTasks DEF HoldsLiving
  <2>6. KeepsHandles /\ Destroys
    BY <1>7 DEF EndRound, KeepsHandles, Destroys
  <2>7. TakesOutClosed
    BY <1>7, TableAlone DEF EndRound, Cleared
  <2> QED
    BY <2>5, <2>6, <2>7, OwnershipStep
<1>8. CASE LoopExit(l)
  BY <1>8, Bystander DEF LoopExit, Cleared
<1> QED
  BY <1>1, <1>3, <1>4, <1>5, <1>6, <1>7, <1>8 DEF LoopFuncs

\* stop() keeps Ownership: it destroys open connections, once Cleared.
LEMMA StopperOwnership ==
  ASSUME IInv, Stopper
  PROVE  Ownership'
<1> USE DEF listenerVars, stateVars, socketVars, loopVars
<1>1. CASE StopBegin \/ StopListenerGone \/ StopQuitLoops \/ StopReturn
  BY <1>1, Bystander
  DEF StopBegin, StopListenerGone, StopQuitLoops, StopReturn, Cleared
<1>2. ASSUME NEW f \in Fds, StopClearOne(f)
      PROVE  Ownership'
  <2>1. KeepsHandles /\ Destroys
    BY <1>2 DEF StopClearOne, KeepsHandles, Destroys
  <2>2. Cleared /\ Cleared'
    BY <1>2 DEF StopClearOne, Cleared
  <2>3. TakesOutClosed
    BY <1>2, <2>2 DEF StopClearOne, TakesOutClosed, IInv, TypeOK
  <2>4. HoldsLiving
    BY <1>2, NothingAdded DEF StopClearOne
  <2> QED
    BY <2>1, <2>3, <2>4, OwnershipStep
<1> QED
  BY <1>1, <1>2 DEF Stopper

\* Ownership is inductive, given the types.
LEMMA NextOwnership == IInv /\ [Next]_vars => IInv'
<1> SUFFICES ASSUME IInv, [Next]_vars PROVE IInv'
  OBVIOUS
<1>1. TypeOK'
  BY NextType DEF IInv
<1>2. CASE UNCHANGED vars
  BY <1>1, <1>2, Bystander DEF vars, listenerVars, stateVars, loopVars, Cleared, IInv
<1>3. CASE Next
  BY <1>1, <1>3, PeerOwnership, ListenerOwnership, EventsOwnership, FuncsOwnership,
     StopperOwnership DEF Next, IInv
<1> QED
  BY <1>1, <1>2, <1>3 DEF IInv

\* The strengthened invariant holds in every reachable state.
THEOREM OwnershipHolds == Spec => []IInv
<1>1. Init => IInv
  BY InitType, InitOwnership DEF IInv
<1> QED
  BY <1>1, NextOwnership, PTL DEF Spec

\* Until stop() empties the table, no connection is destroyed unclosed.
THEOREM NeverDestroyedOpen == Spec => []ClosedBeforeDestroyed
<1>1. IInv => ClosedBeforeDestroyed
  BY DEF IInv, Ownership
<1> QED
  BY <1>1, OwnershipHolds, PTL

\* Until stop() empties the table, a connection that is not closed is in it.
THEOREM NeverUnfiled == Spec => []OpenIsFiled
<1>1. IInv => OpenIsFiled
  BY DEF IInv, Ownership
<1> QED
  BY <1>1, OwnershipHolds, PTL

\* The entry under a handle is a living connection on that handle.
THEOREM NeverMisfiled == Spec => []FiledUnderItsHandle
<1>1. IInv => FiledUnderItsHandle
  BY DEF IInv, Ownership
<1> QED
  BY <1>1, OwnershipHolds, PTL

-----------------------------------------------------------------------------
(* No connection is deaf. *)

TaskSet(q) == {q[i] : i \in DOMAIN q}

\* The task that starts the reading of c is still to be run.
Pending(c) ==
  \E l \in Loops :
    [kind |-> "established", conn |-> c] \in TaskSet(queue[l]) \cup TaskSet(batch[l])

Accepting(c) == cur = c /\ lpc \in {"made", "wired"}

\* Tick puts the tasks of a new round in the place of those of the last one:
\* there are none left.
BatchOnlyInFuncs == \A l \in Loops : pc[l] # "funcs" => batch[l] = <<>>

Hearing == TypeOK /\ BatchOnlyInFuncs /\ NotDeaf

\* A task at the end of a queue, the first one, and none.
LEMMA AppendSet ==
  ASSUME NEW q \in Seq(Tasks), NEW t \in Tasks
  PROVE  TaskSet(Append(q, t)) = TaskSet(q) \cup {t}
<1>1. DOMAIN q = 1 .. Len(q) /\ DOMAIN Append(q, t) = 1 .. Len(q) + 1 /\ Len(q) \in Nat
  OBVIOUS
<1>2. /\ \A i \in 1 .. Len(q) : Append(q, t)[i] = q[i]
      /\ Append(q, t)[Len(q) + 1] = t
  OBVIOUS
<1>3. 1 .. Len(q) + 1 = (1 .. Len(q)) \cup {Len(q) + 1}
  BY <1>1
<1> QED
  BY <1>1, <1>2, <1>3 DEF TaskSet

LEMMA FirstOfSet ==
  ASSUME NEW q \in Seq(Tasks), q # <<>>
  PROVE  TaskSet(q) \subseteq {Head(q)} \cup TaskSet(Tail(q))
<1>1. Len(q) \in Nat \ {0} /\ DOMAIN q = 1 .. Len(q) /\ Head(q) = q[1]
  OBVIOUS
<1>2. DOMAIN Tail(q) = 1 .. Len(q) - 1
  BY <1>1
<1>3. \A i \in DOMAIN q : i = 1 \/ (i - 1 \in DOMAIN Tail(q) /\ Tail(q)[i - 1] = q[i])
  BY <1>1, <1>2
<1> QED
  BY <1>1, <1>3 DEF TaskSet

LEMMA SetOfNone == TaskSet(<<>>) = {}
  BY DEF TaskSet

\* NotDeaf in the words of this section.
LEMMA Deafness ==
  NotDeaf <=> \A c \in Conns : Open(c) => reading[c] \/ Accepting(c) \/ Pending(c)
  BY DEF NotDeaf, Accepting, Pending, TaskSet

\* What steps other than makeConn do: they open nothing, stop reading only what
\* they close ...
KeepsReading ==
  \A c \in Conns : Open(c)' => Open(c) /\ (reading[c] => reading'[c])

\* ... and lose no task that starts a reading without running it.
KeepsPending ==
  \A c \in Conns : Accepting(c) \/ Pending(c)
                     => Accepting(c)' \/ Pending(c)' \/ reading'[c]

LEMMA HearingStep ==
  ASSUME NotDeaf, KeepsReading, KeepsPending
  PROVE  NotDeaf'
<1>1. \A c \in Conns : Open(c)' => reading'[c] \/ Accepting(c)' \/ Pending(c)'
  BY Deafness DEF KeepsReading, KeepsPending
<1> QED
  BY <1>1 DEF NotDeaf, Accepting, Pending, TaskSet

\* Destructors revive nothing.
LEMMA StaysOpen ==
  ASSUME NEW b, dtor' = dtor \/ (Reap(b) /\ b # "alive"),
         \A c \in Conns : cstate'[c] # "DisConnected" => cstate[c] # "DisConnected"
  PROVE  \A c \in Conns : Open(c)' => Open(c)
  BY DEF Reap, Open

\* handleClose stops the reading of what it closes.
LEMMA CloseHearing ==
  ASSUME TypeOK, NEW c \in Conns, HandleClose(c), Reap("inLoop")
  PROVE  KeepsReading
<1>1. \A d \in Conns : cstate'[d] # "DisConnected" =>
        d # c /\ cstate[d] # "DisConnected" /\ reading'[d] = reading[d]
  BY DEF HandleClose, TypeOK
<1>2. \A d \in Conns : Open(d)' => Open(d)
  BY <1>1, StaysOpen
<1> QED
  BY <1>1, <1>2 DEF KeepsReading, Open

\* Where every loop keeps its tasks, a connection that waits for one still does.
LEMMA MorePending ==
  ASSUME \A l \in Loops : TaskSet(queue[l]) \cup TaskSet(batch[l])
                            \subseteq TaskSet(queue'[l]) \cup TaskSet(batch'[l])
  PROVE  \A c \in Conns : Pending(c) => Pending(c)'
  BY DEF Pending

\* Tasks that are added at the end push none out.
LEMMA AddedPending ==
  ASSUME TypeOK, UNCHANGED <<lpc, cur, batch>>, NEW l \in Loops, NEW t \in Tasks,
         queue' = queue \/ queue' = [queue EXCEPT ![l] = Append(@, t)]
  PROVE  KeepsPending
<1>1. queue \in [Loops -> Seq(Tasks)]
  BY DEF TypeOK
<1>2. CASE queue' = [queue EXCEPT ![l] = Append(@, t)]
  <2>1. \A k \in Loops : queue'[k] = IF k = l THEN Append(queue[k], t) ELSE queue[k]
    BY <1>1, <1>2
  <2>2. TaskSet(queue[l]) \subseteq TaskSet(queue'[l])
    BY <1>1, <2>1, AppendSet
  <2>3. \A k \in Loops : TaskSet(queue[k]) \subseteq TaskSet(queue'[k])
    BY <2>1, <2>2
  <2> QED
    BY <2>3, MorePending DEF KeepsPending, Accepting
<1>3. CASE queue' = queue
  BY <1>3 DEF KeepsPending, Accepting, Pending
<1> QED
  BY <1>2, <1>3

LEMMA SamePending ==
  ASSUME UNCHANGED <<queue, batch>>,
         \A c \in Conns : Accepting(c) => Accepting(c)'
  PROVE  KeepsPending
  BY DEF KeepsPending, Pending

\* The answers of an application push no task out.
LEMMA SendPending ==
  ASSUME TypeOK, UNCHANGED <<lpc, cur, batch>>, NEW l \in Loops, NEW c \in Conns,
         Send(c, l)
  PROVE  KeepsPending
  BY AddedPending, WriteCompleteType DEF Send

\* Steps that touch no connection's state, reading or task.
LEMMA HearingAlone ==
  ASSUME NotDeaf, UNCHANGED <<reading, cstate, queue, batch>>,
         NEW b, dtor' = dtor \/ (Reap(b) /\ b # "alive"),
         \A c \in Conns : Accepting(c) => Accepting(c)'
  PROVE  NotDeaf'
<1>1. KeepsReading
  BY StaysOpen DEF KeepsReading
<1> QED
  BY <1>1, SamePending, HearingStep

\* onNewConnIn leaves no connection deaf.
LEMMA ListenerHearing ==
  ASSUME Hearing, Listener
  PROVE  NotDeaf'
<1> USE DEF listenerVars, stateVars, socketVars, loopVars, Hearing
<1>1. CASE ListenerPoll \/ SetCallbacks \/ InsertConn \/ ListenerEndRound \/ ListenerExit
  BY <1>1, HearingAlone
  DEF ListenerPoll, SetCallbacks, InsertConn, ListenerEndRound, ListenerExit, Accepting
<1>2. CASE ReturnFromAccept
  BY <1>2, HearingAlone DEF ReturnFromAccept, Accepting
<1>3. CASE AddEstablishedTask
  <2> DEFINE t == [kind |-> "established", conn |-> cur]
  <2>1. cur \in Conns /\ loopOf[cur] \in Loops /\ t \in Tasks
    BY <1>3 DEF AddEstablishedTask, TypeOK, Tasks
  <2>2. \A l \in Loops : queue'[l] = IF l = loopOf[cur] THEN Append(queue[l], t) ELSE queue[l]
    BY <1>3 DEF AddEstablishedTask, TypeOK
  <2> HIDE DEF t
  <2>3. \A l \in Loops : TaskSet(queue'[l]) =
          IF l = loopOf[cur] THEN TaskSet(queue[l]) \cup {t} ELSE TaskSet(queue[l])
    BY <2>1, <2>2, AppendSet DEF TypeOK
  <2>4. batch' = batch
    BY <1>3 DEF AddEstablishedTask
  <2>5. \A c \in Conns : Pending(c) => Pending(c)'
    BY <2>3, <2>4, MorePending
  <2>6. \A c \in Conns : c = cur => Pending(c)'
    <3>1. t \in TaskSet(queue'[loopOf[cur]])
      BY <2>1, <2>3
    <3> QED
      BY <2>1, <3>1 DEF Pending, t
  <2>7. KeepsPending
    BY <2>5, <2>6 DEF KeepsPending, Accepting
  <2>8. KeepsReading
    BY <1>3, StaysOpen DEF AddEstablishedTask, KeepsReading, Open
  <2> QED
    BY <2>7, <2>8, HearingStep
<1>4. ASSUME NEW c \in Conns, NEW f \in Fds, MakeConn(c, f)
      PROVE  NotDeaf'
  <2>1. Accepting(c)'
    BY <1>4 DEF MakeConn, Accepting
  <2>2. \A d \in Conns : ~Accepting(d)
    BY <1>4 DEF MakeConn, Accepting
  <2>3. \A d \in Conns : d # c /\ Open(d)' => Open(d)
    BY <1>4 DEF MakeConn, Open, TypeOK
  <2>4. reading' = reading /\ queue' = queue /\ batch' = batch
    BY <1>4 DEF MakeConn
  <2>5. \A d \in Conns : Pending(d) => Pending(d)'
    BY <2>4, MorePending
  <2>6. \A d \in Conns : Open(d)' => reading'[d] \/ Accepting(d)' \/ Pending(d)'
    BY <2>1, <2>2, <2>3, <2>4, <2>5, Deafness
  <2> QED
    BY <2>6 DEF NotDeaf, Accepting, Pending, TaskSet
<1> QED
  BY <1>1, <1>2, <1>3, <1>4 DEF Listener

\* The callbacks of a sub-loop leave no connection deaf.
LEMMA EventsHearing ==
  ASSUME Hearing, NEW l \in Loops, LoopEvents(l)
  PROVE  NotDeaf'
<1> USE DEF listenerVars, stateVars, socketVars, Hearing
<1>1. ASSUME NEW W \in SUBSET Conns, Listen(l, W)
      PROVE  NotDeaf'
  BY <1>1, HearingAlone DEF Listen, Accepting
<1>2. ASSUME NEW c \in Conns, HandleEvent(l, c)
      PROVE  NotDeaf'
  BY <1>2, HearingAlone DEF HandleEvent, Accepting
<1>3. CASE DropEvent(l) \/ OnReadClosed(l) \/ OnPost(l)
  BY <1>3, HearingAlone DEF DropEvent, OnReadClosed, OnPost, Accepting
<1> DEFINE c == hnd[l].conn
<1>4. ASSUME NEW cb, Turn(l, cb)
      PROVE  c \in Conns
  BY <1>4, TurnType
<1>5. CASE OnHupOrError(l)
  <2>1. c \in Conns /\ HandleClose(c)
    BY <1>4, <1>5 DEF OnHupOrError
  <2> HIDE DEF c
  <2>2. KeepsReading
    BY <1>5, <2>1, CloseHearing DEF OnHupOrError
  <2>3. KeepsPending
    BY <1>5, SamePending DEF OnHupOrError, Accepting
  <2> QED
    BY <2>2, <2>3, HearingStep
<1>6. CASE OnReadMessage(l)
  <2>1. c \in Conns /\ Send(c, l)
    BY <1>4, <1>6 DEF OnReadMessage
  <2>2. \A d \in Conns : cstate'[d] # "DisConnected" => cstate[d] # "DisConnected"
    BY <1>6 DEF OnReadMessage, TypeOK
  <2>3. KeepsReading
    BY <1>6, <2>2, StaysOpen DEF OnReadMessage, KeepsReading
  <2> HIDE DEF c
  <2>4. KeepsPending
    BY <1>6, <2>1, SendPending DEF OnReadMessage
  <2> QED
    BY <2>3, <2>4, HearingStep
<1>7. CASE OnReadClose(l)
  <2>1. /\ c \in Conns /\ HandleClose(c)
        /\ queue' = queue \/ queue' = [queue EXCEPT ![l] = Append(@, WriteComplete(c))]
    BY <1>4, <1>7 DEF OnReadClose
  <2> HIDE DEF c
  <2>2. KeepsReading
    BY <1>7, <2>1, CloseHearing DEF OnReadClose
  <2>3. KeepsPending
    BY <1>7, <2>1, WriteCompleteType, AddedPending DEF OnReadClose
  <2> QED
    BY <2>2, <2>3, HearingStep
<1>8. CASE OnWrite(l)
  <2>1. /\ c \in Conns
        /\ queue' = queue \/ queue' = [queue EXCEPT ![l] = Append(@, WriteComplete(c))]
    BY <1>4, <1>8 DEF OnWrite
  <2> HIDE DEF c
  <2>2. KeepsReading
    BY <1>8, StaysOpen DEF OnWrite, KeepsReading
  <2>3. KeepsPending
    BY <1>8, <2>1, WriteCompleteType, AddedPending DEF OnWrite
  <2> QED
    BY <2>2, <2>3, HearingStep
<1> QED
  BY <1>1, <1>2, <1>3, <1>5, <1>6, <1>7, <1>8 DEF LoopEvents

\* A task that has had its turn was not one that starts a reading, or has.
LEMMA TurnOfTask ==
  ASSUME TypeOK, NEW l \in Loops, NEW kind, NextTask(l, kind),
         UNCHANGED <<lpc, cur, queue>>,
         kind = "established" => reading'[Head(batch[l]).conn]
  PROVE  KeepsPending
<1>1. \A k \in Loops : batch'[k] = IF k = l THEN Tail(batch[k]) ELSE batch[k]
  BY DEF NextTask, TypeOK
<1>2. TaskSet(batch[l]) \subseteq {Head(batch[l])} \cup TaskSet(batch'[l])
  BY <1>1, FirstOfSet DEF NextTask, TypeOK
<1>3. ASSUME NEW c \in Conns, Pending(c)
      PROVE  Pending(c)' \/ reading'[c]
  <2> DEFINE t == [kind |-> "established", conn |-> c]
  <2>1. PICK k \in Loops : t \in TaskSet(queue[k]) \cup TaskSet(batch[k])
    BY <1>3 DEF Pending
  <2>2. CASE t = Head(batch[l])
    <3>1. kind = "established" /\ Head(batch[l]).conn = c
      BY <2>2 DEF NextTask
    <3> QED
      BY <3>1
  <2>3. CASE t # Head(batch[l])
    <3>1. t \in TaskSet(queue'[k]) \cup TaskSet(batch'[k])
      BY <1>1, <1>2, <2>1, <2>3
    <3> QED
      BY <3>1 DEF Pending
  <2> QED
    BY <2>2, <2>3
<1> QED
  BY <1>3 DEF KeepsPending, Accepting

\* The functions of a sub-loop leave no connection deaf.
LEMMA FuncsHearing ==
  ASSUME Hearing, NEW l \in Loops, LoopFuncs(l)
  PROVE  NotDeaf'
<1> USE DEF listenerVars, stateVars, socketVars, Hearing
<1>1. ASSUME NEW D \in SUBSET Conns, Tick(l, D)
      PROVE  NotDeaf'
  <2>1. \A k \in Loops : /\ batch'[k] = IF k = l THEN queue[k] ELSE batch[k]
                         /\ queue'[k] = IF k = l THEN <<>> ELSE queue[k]
    BY <1>1 DEF Tick, TypeOK
  <2>2. batch[l] = <<>>
    BY <1>1 DEF Tick, BatchOnlyInFuncs
  <2>3. \A k \in Loops : TaskSet(queue[k]) \cup TaskSet(batch[k])
                           = TaskSet(queue'[k]) \cup TaskSet(batch'[k])
    BY <2>1, <2>2, SetOfNone
  <2>4. KeepsPending
    BY <1>1, <2>3 DEF Tick, KeepsPending, Accepting, Pending
  <2>5. KeepsReading
    BY <1>1 DEF Tick, KeepsReading, Open
  <2> QED
    BY <2>4, <2>5, HearingStep
<1>2. CASE RunEstablished(l)
  <2>1. Head(batch[l]).conn \in Conns
    BY <1>2, NextTaskType DEF RunEstablished
  <2>2. reading'[Head(batch[l]).conn]
    BY <1>2, <2>1 DEF RunEstablished, TypeOK
  <2>3. KeepsPending
    BY <1>2, <2>2, TurnOfTask DEF RunEstablished
  <2>4. KeepsReading
    BY <1>2, <2>1 DEF RunEstablished, TypeOK, KeepsReading, Open
  <2> QED
    BY <2>3, <2>4, HearingStep
<1>3. CASE RunWriteCompleteKeep(l)
  <2>1. KeepsPending
    BY <1>3, TurnOfTask DEF RunWriteCompleteKeep
  <2>2. KeepsReading
    BY <1>3 DEF RunWriteCompleteKeep, KeepsReading, Open
  <2> QED
    BY <2>1, <2>2, HearingStep
<1>4. CASE RunWriteCompleteClose(l)
  <2>1. Head(batch[l]).conn \in Conns
    BY <1>4, NextTaskType DEF RunWriteCompleteClose
  <2>2. KeepsPending
    BY <1>4, TurnOfTask DEF RunWriteCompleteClose
  <2>3. KeepsReading
    BY <1>4, <2>1, CloseHearing DEF RunWriteCompleteClose
  <2> QED
    BY <2>2, <2>3, HearingStep
<1>5. ASSUME NEW c \in Conns, RunIdleKeep(l, c)
      PROVE  NotDeaf'
  <2>1. KeepsReading
    BY <1>5 DEF RunIdleKeep, KeepsReading, Open
  <2>2. KeepsPending
    BY <1>5, SendPending, SamePending DEF RunIdleKeep, Accepting
  <2> QED
    BY <2>1, <2>2, HearingStep
<1>6. ASSUME NEW c \in Conns, RunIdleClose(l, c)
      PROVE  NotDeaf'
  <2>1. KeepsReading
    BY <1>6, CloseHearing DEF RunIdleClose
  <2>2. KeepsPending
    BY <1>6, SamePending DEF RunIdleClose, Accepting
  <2> QED
    BY <2>1, <2>2, HearingStep
<1>7. CASE EndRound(l)
  BY <1>7, HearingAlone DEF EndRound, Accepting
<1>8. CASE LoopExit(l)
  BY <1>8, HearingAlone DEF LoopExit, Accepting
<1> QED
  BY <1>1, <1>2, <1>3, <1>4, <1>5, <1>6, <1>7, <1>8 DEF LoopFuncs

\* Clients and stop() leave no connection deaf.
LEMMA OthersHearing ==
  ASSUME Hearing, Stopper \/ \E c \in Conns : Peer(c)
  PROVE  NotDeaf'
<1> USE DEF listenerVars, stateVars, socketVars, loopVars, Hearing
<1>1. ASSUME NEW c \in Conns, Peer(c)
      PROVE  NotDeaf'
  BY <1>1, HearingAlone DEF Peer, PeerSend, PeerFin, PeerRst, Accepting
<1>2. CASE StopBegin \/ StopListenerGone \/ StopQuitLoops \/ StopReturn
  BY <1>2, HearingAlone
  DEF StopBegin, StopListenerGone, StopQuitLoops, StopReturn, Accepting
<1>3. ASSUME NEW f \in Fds, StopClearOne(f)
      PROVE  NotDeaf'
  BY <1>3, HearingAlone DEF StopClearOne, Accepting
<1> QED
  BY <1>1, <1>2, <1>3 DEF Stopper

\* Tasks that were taken are run before the round ends.
LEMMA BatchStep ==
  ASSUME TypeOK, BatchOnlyInFuncs, Next
  PROVE  BatchOnlyInFuncs'
<1> USE DEF listenerVars, stateVars, socketVars, loopVars, BatchOnlyInFuncs
<1>1. ASSUME NEW c \in Conns, Peer(c)
      PROVE  BatchOnlyInFuncs'
  BY <1>1 DEF Peer, PeerSend, PeerFin, PeerRst
<1>2. CASE Listener
  BY <1>2 DEF Listener, ListenerPoll, SetCallbacks, AddEstablishedTask, InsertConn,
              ReturnFromAccept, ListenerEndRound, ListenerExit, MakeConn
<1>3. ASSUME NEW l \in Loops, LoopEvents(l)
      PROVE  BatchOnlyInFuncs'
  BY <1>3 DEF LoopEvents, Listen, HandleEvent, DropEvent, OnHupOrError, OnReadClosed,
              OnReadMessage, OnReadClose, OnWrite, OnPost, TypeOK
<1>4. ASSUME NEW l \in Loops, LoopFuncs(l)
      PROVE  BatchOnlyInFuncs'
  BY <1>4 DEF LoopFuncs, Tick, RunEstablished, RunWriteCompleteKeep, NextTask,
              RunWriteCompleteClose, RunIdleKeep, RunIdleClose, EndRound, LoopExit, TypeOK
<1>5. CASE Stopper
  BY <1>5 DEF Stopper, StopBegin, StopListenerGone, StopQuitLoops, StopReturn, StopClearOne
<1> QED
  BY <1>1, <1>2, <1>3, <1>4, <1>5 DEF Next

\* NotDeaf is inductive, given the types and BatchOnlyInFuncs.
LEMMA NextHearing == Hearing /\ [Next]_vars => Hearing'
<1> SUFFICES ASSUME Hearing, [Next]_vars PROVE Hearing'
  OBVIOUS
<1>1. TypeOK'
  BY NextType DEF Hearing
<1>2. CASE UNCHANGED vars
  <2>1. NotDeaf' /\ BatchOnlyInFuncs'
    BY <1>2, HearingAlone
    DEF vars, listenerVars, stateVars, loopVars, Hearing, BatchOnlyInFuncs, Accepting
  <2> QED
    BY <1>1, <2>1 DEF Hearing
<1>3. CASE Next
  <2>1. BatchOnlyInFuncs'
    BY <1>3, BatchStep DEF Hearing
  <2>2. NotDeaf'
    BY <1>3, ListenerHearing, EventsHearing, FuncsHearing, OthersHearing DEF Next
  <2> QED
    BY <1>1, <2>1, <2>2 DEF Hearing
<1> QED
  BY <1>2, <1>3

\* Until it is closed, a connection is read, or the task that starts the reading
\* is still to come.
THEOREM NeverDeaf == Spec => []NotDeaf
<1>1. Init => Hearing
  <2> SUFFICES ASSUME Init PROVE Hearing
    OBVIOUS
  <2>1. \A c \in Conns : ~Open(c)
    BY DEF Init, Open
  <2>2. BatchOnlyInFuncs
    BY DEF Init, BatchOnlyInFuncs
  <2> QED
    BY <2>1, <2>2, InitType, Deafness DEF Hearing
<1>2. Hearing => NotDeaf
  BY DEF Hearing
<1> QED
  BY <1>1, <1>2, NextHearing, PTL DEF Spec

-----------------------------------------------------------------------------
(* What ends a connection. *)

\* A connection lives only while somebody points to it.
AliveIsHeld == \A c \in Conns : dtor[c] = "alive" => Held(c)

\* Only within onNewConnIn does the listener point to a connection.
CurInAccept == lpc \in {"poll", "events", "stopped"} => cur = NoConn

\* A sub-loop holds the connections of its tasks until the round ends.
HeldInFuncs == \A l \in Loops : pc[l] # "funcs" => held[l] = {}

\* The order in which stop() goes on.
StopOrder ==
  /\ Cleared => lpc = "stopped"
  /\ spc \in {"waitLoops", "stopped"} => \A f \in Fds : tcpConns[f] = NoConn
  /\ spc = "stopped" => \A l \in Loops : pc[l] = "stopped"

Stages == CurInAccept /\ HeldInFuncs /\ StopOrder

\* Clients, and the sub-loops, leave the stages alone.
LEMMA StagesAlone ==
  ASSUME Stages, TypeOK, UNCHANGED <<lpc, cur, spc, held, pc>>,
         \A f \in Fds : tcpConns'[f] \in {tcpConns[f], NoConn}
  PROVE  Stages'
  BY DEF Stages, CurInAccept, HeldInFuncs, StopOrder, Cleared

LEMMA ClosingTable ==
  ASSUME TypeOK, NEW c \in Conns, HandleClose(c)
  PROVE  \A f \in Fds : tcpConns'[f] \in {tcpConns[f], NoConn}
  BY DEF HandleClose, TypeOK

LEMMA StagesStep ==
  ASSUME TypeOK, Stages, Next
  PROVE  Stages'
<1> USE DEF listenerVars, stateVars, socketVars, loopVars
<1>1. ASSUME NEW c \in Conns, Peer(c)
      PROVE  Stages'
  BY <1>1, StagesAlone DEF Peer, PeerSend, PeerFin, PeerRst
<1>2. CASE Listener
  <2>1. UNCHANGED <<spc, held, pc>>
    BY <1>2 DEF Listener, ListenerPoll, SetCallbacks, AddEstablishedTask, InsertConn,
                ReturnFromAccept, ListenerEndRound, ListenerExit, MakeConn
  <2>2. CurInAccept'
    BY <1>2 DEF Listener, ListenerPoll, SetCallbacks, AddEstablishedTask, InsertConn, Stages,
                ReturnFromAccept, ListenerEndRound, ListenerExit, MakeConn, CurInAccept
  <2>3. lpc # "stopped"
    BY <1>2 DEF Listener, ListenerPoll, SetCallbacks, AddEstablishedTask, InsertConn,
                ReturnFromAccept, ListenerEndRound, ListenerExit, MakeConn
  <2>4. ~Cleared
    BY <2>3 DEF Stages, StopOrder
  <2> QED
    BY <2>1, <2>2, <2>4 DEF Stages, HeldInFuncs, StopOrder, Cleared
<1>3. ASSUME NEW l \in Loops, LoopEvents(l)
      PROVE  Stages'
  <2>1. ASSUME NEW W \in SUBSET Conns, Listen(l, W)
        PROVE  Stages'
    <3>1. pc[l] = "poll" /\ pc' = [pc EXCEPT ![l] = "events"]
      BY <2>1 DEF Listen
    <3> QED
      BY <2>1, <3>1 DEF Listen, Stages, CurInAccept, HeldInFuncs, StopOrder, Cleared, TypeOK
  <2>2. ASSUME NEW c \in Conns, HandleEvent(l, c)
        PROVE  Stages'
    BY <2>2, StagesAlone DEF HandleEvent
  <2>3. CASE DropEvent(l) \/ OnReadClosed(l) \/ OnPost(l) \/ OnReadMessage(l) \/ OnWrite(l)
    BY <2>3, StagesAlone DEF DropEvent, OnReadClosed, OnPost, OnReadMessage, OnWrite
  <2>4. CASE OnHupOrError(l) \/ OnReadClose(l)
    <3>1. hnd[l].conn \in Conns
      BY <2>4, TurnType DEF OnHupOrError, OnReadClose
    <3>2. HandleClose(hnd[l].conn)
      BY <2>4 DEF OnHupOrError, OnReadClose
    <3>3. UNCHANGED <<lpc, cur, spc, held, pc>>
      BY <2>4 DEF OnHupOrError, OnReadClose
    <3> QED
      BY <3>1, <3>2, <3>3, ClosingTable, StagesAlone
  <2> QED
    BY <1>3, <2>1, <2>2, <2>3, <2>4 DEF LoopEvents
<1>4. ASSUME NEW l \in Loops, LoopFuncs(l)
      PROVE  Stages'
  <2>1. ASSUME NEW D \in SUBSET Conns, Tick(l, D)
        PROVE  Stages'
    <3>1. pc[l] = "events" /\ pc' = [pc EXCEPT ![l] = "funcs"]
          /\ held' = [held EXCEPT ![l] = TaskConns(queue[l])]
      BY <2>1 DEF Tick
    <3> QED
      BY <2>1, <3>1 DEF Tick, Stages, CurInAccept, HeldInFuncs, StopOrder, Cleared, TypeOK
  <2>2. CASE RunEstablished(l) \/ RunWriteCompleteKeep(l) \/ \E c \in Conns : RunIdleKeep(l, c)
    BY <2>2, StagesAlone DEF RunEstablished, RunWriteCompleteKeep, RunIdleKeep
  <2>3. CASE RunWriteCompleteClose(l) \/ \E c \in Conns : RunIdleClose(l, c)
    <3>1. PICK c \in Conns : HandleClose(c)
      BY <2>3, NextTaskType DEF RunWriteCompleteClose, RunIdleClose
    <3>2. UNCHANGED <<lpc, cur, spc, held, pc>>
      BY <2>3 DEF RunWriteCompleteClose, RunIdleClose
    <3> QED
      BY <3>1, <3>2, ClosingTable, StagesAlone
  <2>4. CASE EndRound(l)
    <3>1. pc[l] = "funcs" /\ held' = [held EXCEPT ![l] = {}] /\ pc' = [pc EXCEPT ![l] = "poll"]
      BY <2>4 DEF EndRound
    <3> QED
      BY <2>4, <3>1 DEF EndRound, Stages, CurInAccept, HeldInFuncs, StopOrder, Cleared, TypeOK
  <2>5. CASE LoopExit(l)
    <3>1. pc[l] = "poll" /\ pc' = [pc EXCEPT ![l] = "stopped"]
      BY <2>5 DEF LoopExit
    <3> QED
      BY <2>5, <3>1 DEF LoopExit, Stages, CurInAccept, HeldInFuncs, StopOrder, Cleared, TypeOK
  <2> QED
    BY <1>4, <2>1, <2>2, <2>3, <2>4, <2>5 DEF LoopFuncs
<1>5. CASE Stopper
  <2>1. UNCHANGED <<lpc, cur, held, pc>>
    BY <1>5 DEF Stopper, StopBegin, StopListenerGone, StopQuitLoops, StopReturn, StopClearOne
  <2>2. StopOrder'
    BY <1>5 DEF Stopper, StopBegin, StopListenerGone, StopQuitLoops, StopReturn, StopClearOne,
                Stages, StopOrder, Cleared, TypeOK
  <2> QED
    BY <2>1, <2>2 DEF Stages, CurInAccept, HeldInFuncs
<1> QED
  BY <1>1, <1>2, <1>3, <1>4, <1>5 DEF Next

\* A step that drops pointers runs the destructors of what it leaves without any.
LEMMA ReapedIsGone ==
  ASSUME NEW b \in {"inLoop", "offLoop"}, Reap(b)
  PROVE  AliveIsHeld'
  BY DEF Reap, AliveIsHeld

\* Any other step keeps the pointers, though it may hand them on.
LEMMA PointersKept ==
  ASSUME AliveIsHeld, dtor' = dtor, \A c \in Conns : Held(c) => Held(c)'
  PROVE  AliveIsHeld'
  BY DEF AliveIsHeld

\* A step that leaves all pointers alone, or adds tasks.
LEMMA TasksAdded ==
  ASSUME AliveIsHeld, UNCHANGED <<dtor, cur, held>>,
         \A f \in Fds : tcpConns[f] \in Conns => tcpConns'[f] = tcpConns[f],
         \A l \in Loops : TaskConns(queue[l]) \subseteq TaskConns(queue'[l])
  PROVE  AliveIsHeld'
<1>1. \A c \in Conns : Held(c) => Held(c)'
  BY DEF Held
<1> QED
  BY <1>1, PointersKept

\* The queue of a sub-loop gets one more task, or none.
LEMMA LongerQueue ==
  ASSUME TypeOK, NEW l \in Loops, NEW t \in Tasks,
         queue' = queue \/ queue' = [queue EXCEPT ![l] = Append(@, t)]
  PROVE  \A k \in Loops : TaskConns(queue[k]) \subseteq TaskConns(queue'[k])
<1>1. CASE queue' = queue
  BY <1>1
<1>2. CASE queue' = [queue EXCEPT ![l] = Append(@, t)]
  <2>1. \A k \in Loops : queue'[k] = IF k = l THEN Append(queue[l], t) ELSE queue[k]
    BY <1>2 DEF TypeOK
  <2>2. TaskConns(Append(queue[l], t)) = TaskConns(queue[l]) \cup {t.conn}
    BY AppendTask DEF TypeOK
  <2> QED
    BY <2>1, <2>2
<1> QED
  BY <1>1, <1>2

LEMMA AliveStep ==
  ASSUME TypeOK, Stages, AliveIsHeld, Next
  PROVE  AliveIsHeld'
<1> USE DEF listenerVars, stateVars, socketVars, loopVars
<1>1. ASSUME NEW c \in Conns, Peer(c)
      PROVE  AliveIsHeld'
  BY <1>1, TasksAdded DEF Peer, PeerSend, PeerFin, PeerRst
<1>2. CASE Listener
  <2>1. CASE ListenerPoll \/ SetCallbacks \/ ListenerEndRound \/ ListenerExit
    BY <2>1, TasksAdded DEF ListenerPoll, SetCallbacks, ListenerEndRound, ListenerExit
  <2>2. CASE InsertConn
    BY <2>2, TasksAdded, NoConnAssumption DEF InsertConn, TypeOK
  <2>3. CASE AddEstablishedTask
    <3> DEFINE t == [kind |-> "established", conn |-> cur]
    <3>1. cur \in Conns /\ loopOf[cur] \in Loops /\ t \in Tasks
      BY <2>3 DEF AddEstablishedTask, TypeOK, Tasks
    <3>2. queue' = [queue EXCEPT ![loopOf[cur]] = Append(@, t)]
      BY <2>3 DEF AddEstablishedTask
    <3> HIDE DEF t
    <3>3. \A k \in Loops : TaskConns(queue[k]) \subseteq TaskConns(queue'[k])
      BY <3>1, <3>2, LongerQueue
    <3> QED
      BY <2>3, <3>3, TasksAdded DEF AddEstablishedTask
  <2>4. CASE ReturnFromAccept
    BY <2>4, ReapedIsGone DEF ReturnFromAccept
  <2>5. ASSUME NEW c \in Conns, NEW f \in Fds, MakeConn(c, f)
        PROVE  AliveIsHeld'
    <3>1. cur = NoConn /\ cur' = c
      BY <2>5 DEF MakeConn, Stages, CurInAccept
    <3>2. \A d \in Conns : dtor'[d] = "alive" => d = c \/ dtor[d] = "alive"
      BY <2>5 DEF MakeConn, TypeOK
    <3>3. \A d \in Conns : Held(d) => Held(d)'
      BY <2>5, <3>1, NoConnAssumption DEF MakeConn, Held
    <3> QED
      BY <3>1, <3>2, <3>3 DEF AliveIsHeld, Held
  <2> QED
    BY <1>2, <2>1, <2>2, <2>3, <2>4, <2>5 DEF Listener
<1>3. ASSUME NEW l \in Loops, LoopEvents(l)
      PROVE  AliveIsHeld'
  <2>1. ASSUME NEW W \in SUBSET Conns, Listen(l, W)
        PROVE  AliveIsHeld'
    BY <2>1, TasksAdded DEF Listen
  <2>2. ASSUME NEW c \in Conns, HandleEvent(l, c)
        PROVE  AliveIsHeld'
    BY <2>2, TasksAdded DEF HandleEvent
  <2>3. CASE DropEvent(l) \/ OnReadClosed(l) \/ OnPost(l)
    BY <2>3, TasksAdded DEF DropEvent, OnReadClosed, OnPost
  <2>4. CASE OnReadMessage(l) \/ OnWrite(l)
    <3> DEFINE t == WriteComplete(hnd[l].conn)
    <3>1. hnd[l].conn \in Conns
      BY <2>4, TurnType DEF OnReadMessage, OnWrite
    <3>2. t \in Tasks
      BY <3>1, WriteCompleteType
    <3>3. queue' = queue \/ queue' = [queue EXCEPT ![l] = Append(@, t)]
      BY <2>4 DEF OnReadMessage, OnWrite, Send
    <3> HIDE DEF t
    <3>4. \A k \in Loops : TaskConns(queue[k]) \subseteq TaskConns(queue'[k])
      BY <3>2, <3>3, LongerQueue
    <3> QED
      BY <2>4, <3>4, TasksAdded DEF OnReadMessage, OnWrite
  <2>5. CASE OnHupOrError(l) \/ OnReadClose(l)
    BY <2>5, ReapedIsGone DEF OnHupOrError, OnReadClose
  <2> QED
    BY <1>3, <2>1, <2>2, <2>3, <2>4, <2>5 DEF LoopEvents
<1>4. ASSUME NEW l \in Loops, LoopFuncs(l)
      PROVE  AliveIsHeld'
  <2>1. ASSUME NEW D \in SUBSET Conns, Tick(l, D)
        PROVE  AliveIsHeld'
    <3>1. held[l] = {}
      BY <2>1 DEF Tick, Stages, HeldInFuncs
    <3>2. \A k \in Loops : held[k] \cup TaskConns(queue[k]) \subseteq held'[k] \cup TaskConns(queue'[k])
      BY <2>1, <3>1 DEF Tick, TypeOK
    <3>3. \A c \in Conns : Held(c) => Held(c)'
      BY <2>1, <3>2 DEF Tick, Held
    <3> QED
      BY <2>1, <3>3, PointersKept DEF Tick
  <2>2. CASE RunEstablished(l) \/ RunWriteCompleteKeep(l) \/ LoopExit(l)
    BY <2>2, TasksAdded DEF RunEstablished, RunWriteCompleteKeep, LoopExit
  <2>3. ASSUME NEW c \in Conns, RunIdleKeep(l, c)
        PROVE  AliveIsHeld'
    <3>1. queue' = queue \/ queue' = [queue EXCEPT ![l] = Append(@, WriteComplete(c))]
      BY <2>3 DEF RunIdleKeep, Send
    <3>2. \A k \in Loops : TaskConns(queue[k]) \subseteq TaskConns(queue'[k])
      BY <3>1, WriteCompleteType, LongerQueue
    <3> QED
      BY <2>3, <3>2, TasksAdded DEF RunIdleKeep
  <2>4. CASE RunWriteCompleteClose(l) \/ EndRound(l) \/ \E c \in Conns : RunIdleClose(l, c)
    BY <2>4, ReapedIsGone DEF RunWriteCompleteClose, EndRound, RunIdleClose
  <2> QED
    BY <1>4, <2>1, <2>2, <2>3, <2>4 DEF LoopFuncs
<1>5. CASE Stopper
  <2>1. CASE StopBegin \/ StopListenerGone \/ StopQuitLoops \/ StopReturn
    BY <2>1, TasksAdded DEF StopBegin, StopListenerGone, StopQuitLoops, StopReturn
  <2>2. CASE \E f \in Fds : StopClearOne(f)
    BY <2>2, ReapedIsGone DEF StopClearOne
  <2> QED
    BY <1>5, <2>1, <2>2 DEF Stopper
<1> QED
  BY <1>1, <1>2, <1>3, <1>4, <1>5 DEF Next

\* The inductive invariant of lives and stages.
LEMMA LivesInvariant == Spec => [](IInv /\ Stages /\ AliveIsHeld)
<1>1. Init => Stages /\ AliveIsHeld
  BY DEF Init, Stages, CurInAccept, HeldInFuncs, StopOrder, Cleared, AliveIsHeld
<1>2. IInv /\ Stages /\ AliveIsHeld /\ [Next]_vars => Stages' /\ AliveIsHeld'
  <2> SUFFICES ASSUME IInv, Stages, AliveIsHeld, [Next]_vars PROVE Stages' /\ AliveIsHeld'
    OBVIOUS
  <2>1. CASE UNCHANGED vars
    BY <2>1, StagesAlone, TasksAdded DEF vars, listenerVars, loopVars, IInv
  <2>2. CASE Next
    BY <2>2, StagesStep, AliveStep DEF IInv
  <2> QED
    BY <2>1, <2>2
<1> QED
  BY <1>1, <1>2, OwnershipHolds, PTL DEF Spec

\* OffLoopOnlyAtStop, which is not so, with its one exception: a destructor runs outside the
\* connection's own loop only for an entry that stop() takes out of the table, or
\* when onNewConnIn returns, for the connection it has just made and which is closed already.
OffLoopHasCause ==
  \A c \in Conns : dtor[c] = "alive" /\ dtor'[c] = "offLoop" =>
    \/ spc = "clear" /\ \E f \in Fds : tcpConns[f] = c
    \/ ~Cleared /\ lpc = "inserted" /\ cur = c /\ cstate[c] = "DisConnected"

\* No other step runs a destructor off the loop.
LEMMA OthersInLoop ==
  ASSUME TypeOK, Next, ~ReturnFromAccept, \A f \in Fds : ~StopClearOne(f), NEW c \in Conns,
         dtor[c] = "alive"
  PROVE  dtor'[c] # "offLoop"
<1>1. \/ dtor' = dtor \/ Reap("inLoop") \/ \E d \in Conns : dtor' = [dtor EXCEPT ![d] = "alive"]
  <2> USE DEF listenerVars, stateVars, socketVars, loopVars
  <2>1. CASE \E d \in Conns : Peer(d)
    BY <2>1 DEF Peer, PeerSend, PeerFin, PeerRst
  <2>2. CASE Listener
    BY <2>2 DEF Listener, ListenerPoll, SetCallbacks, AddEstablishedTask, InsertConn,
                ListenerEndRound, ListenerExit, MakeConn
  <2>3. CASE \E l \in Loops : LoopEvents(l)
    BY <2>3 DEF LoopEvents, Listen, HandleEvent, DropEvent, OnHupOrError, OnReadClosed,
                OnReadMessage, OnReadClose, OnWrite, OnPost
  <2>4. CASE \E l \in Loops : LoopFuncs(l)
    BY <2>4 DEF LoopFuncs, Tick, RunEstablished, RunWriteCompleteKeep, RunWriteCompleteClose,
                RunIdleKeep, RunIdleClose, EndRound, LoopExit
  <2>5. CASE Stopper
    BY <2>5 DEF Stopper, StopBegin, StopListenerGone, StopQuitLoops, StopReturn
  <2> QED
    BY <2>1, <2>2, <2>3, <2>4, <2>5 DEF Next
<1> QED
  BY <1>1 DEF Reap, TypeOK

\* The connection a returning onNewConnIn lets go is its own, and closed: until stop() empties the
\* table, an open one is in it.
THEOREM OffLoopIsOwnOrStop == Spec => [][OffLoopHasCause]_vars
<1>1. IInv /\ Stages /\ AliveIsHeld /\ IInv' /\ [Next]_vars => [OffLoopHasCause]_vars
  <2> SUFFICES ASSUME IInv, Stages, AliveIsHeld, IInv', Next,
                      NEW c \in Conns, dtor[c] = "alive", dtor'[c] = "offLoop"
               PROVE  \/ spc = "clear" /\ \E f \in Fds : tcpConns[f] = c
                      \/ ~Cleared /\ lpc = "inserted" /\ cur = c /\ cstate[c] = "DisConnected"
    BY DEF OffLoopHasCause
  <2>1. Held(c)
    BY DEF AliveIsHeld
  <2>2. CASE ReturnFromAccept
    <3>1. lpc = "inserted" /\ ~Held(c)'
      BY <2>2 DEF ReturnFromAccept, Reap
    <3>2. cur = c
      BY <2>1, <2>2, <3>1 DEF ReturnFromAccept, Held, loopVars
    <3>3. ~Cleared /\ ~Cleared'
      BY <2>2, <3>1 DEF ReturnFromAccept, Stages, StopOrder, Cleared
    <3>4. cstate[c] = "DisConnected"
      BY <2>2, <3>3 DEF ReturnFromAccept, stateVars, IInv, Ownership, ClosedBeforeDestroyed
    <3> QED
      BY <3>1, <3>2, <3>3, <3>4
  <2>3. ASSUME NEW f \in Fds, StopClearOne(f)
        PROVE  spc = "clear" /\ \E g \in Fds : tcpConns[g] = c
    <3>1. spc = "clear" /\ ~Held(c)'
      BY <2>3 DEF StopClearOne, Reap
    <3> QED
      BY <2>1, <2>3, <3>1 DEF StopClearOne, Held, listenerVars, loopVars
  <2> QED
    BY <2>2, <2>3, OthersInLoop DEF IInv
<1> QED
  BY <1>1, LivesInvariant, PTL DEF Spec

\* What a graceful stop() leaves behind: a connection that is still there is held by a task that
\* no sub-loop has run, and by nothing else.
LeftInTasks ==
  spc = "stopped" =>
    \A c \in Conns : dtor[c] = "alive" => \E l \in Loops : c \in TaskConns(queue[l])

\* The listener has returned, the table is empty and the rounds have ended.
THEOREM StopLeavesOnlyTasks == Spec => []LeftInTasks
<1>1. IInv /\ Stages /\ AliveIsHeld => LeftInTasks
  <2> SUFFICES ASSUME Stages, AliveIsHeld, spc = "stopped", NEW c \in Conns, dtor[c] = "alive"
               PROVE  \E l \in Loops : c \in TaskConns(queue[l])
    BY DEF LeftInTasks
  <2>1. Held(c)
    BY DEF AliveIsHeld
  <2>2. cur # c /\ \A f \in Fds : tcpConns[f] # c
    BY NoConnAssumption DEF Stages, CurInAccept, StopOrder, Cleared
  <2>3. \A l \in Loops : held[l] = {}
    BY DEF Stages, StopOrder, HeldInFuncs
  <2> QED
    BY <2>1, <2>2, <2>3 DEF Held
<1> QED
  BY <1>1, LivesInvariant, PTL
=============================================================================

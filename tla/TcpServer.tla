------------------------------ MODULE TcpServer ------------------------------
(***************************************************************************)
(* The life of TCP connections in FeiLib: the listener thread that accepts *)
(* them (FTcpServer::onNewConnIn), the sub-loop threads that serve them    *)
(* (FEventLoop::Loop, FEvent::handleEvent, FTcpConnection), and the thread *)
(* that calls FTcpServer::stop().                                          *)
(*                                                                         *)
(* A connection object lives as long as a shared_ptr to it: the table      *)
(* m_tcpConns, the local variable of onNewConnIn, and the tasks of the     *)
(* loops.  The destructor runs in whichever thread drops the last one.     *)
(*                                                                         *)
(* The application is FHttpServer: what its callbacks may do to the        *)
(* connection is a nondeterministic choice.  The model starts when run()   *)
(* has returned, that is with every sub-loop created, and ends when stop() *)
(* has returned.                                                           *)
(***************************************************************************)
EXTENDS Naturals, Sequences

CONSTANTS Conns,    \* connection objects
          NoConn,   \* a null connection pointer
          Fds,      \* socket handles the system may hand out
          NoFd,     \* the handle of a connection not made yet
          NLoops    \* m_threadNums

ASSUME NLoopsAssumption == NLoops \in Nat \ {0}
ASSUME NoConnAssumption == NoConn \notin Conns
ASSUME NoFdAssumption == NoFd \notin Fds

Loops == 0 .. NLoops - 1

VARIABLES
  lpc,       \* program point of the listener thread
  cur,       \* onNewConnIn's local shared_ptr
  chooser,   \* IOThread_Chooser
  tcpConns,  \* m_tcpConns: the connection filed under each handle
  spc,       \* program point of the thread in stop()
  fault,     \* an empty std::function was called: the process is gone
  loopOf,    \* m_loop of each connection
  fdOf,      \* its socket handle
  dtor,      \* "unborn", "alive", or the branch of the destructor that ran
  cstate,    \* mstate
  reading,   \* ReadEvent is in mEvent
  writing,   \* WriteEvent is in mEvent (outBuffer holds bytes)
  timer,     \* the idle timer is in the time queue
  data,      \* unread bytes are waiting in the socket
  peer,      \* the other end: "open", "fin" or "rst"
  pc,        \* program point of each sub-loop
  revents,   \* mRevents of a connection in mActiveEvents, {} when it is not there
  hnd,       \* the event a loop is handling and the callbacks left to call
  queue,     \* m_curTasks
  batch,     \* the tasks taken by Tick and not run yet
  held,      \* connections the functions of this round hold until its end
  due        \* connections whose idle timer this round's Tick took

listenerVars == <<lpc, cur, chooser>>
stateVars    == <<cstate, reading, writing>>
socketVars   == <<data, peer>>
loopVars     == <<pc, revents, hnd, queue, batch, held, due>>
vars == <<listenerVars, tcpConns, spc, fault, loopOf, fdOf, dtor, stateVars,
          timer, socketVars, loopVars>>

Tasks     == [kind : {"established", "writeComplete"}, conn : Conns]
Callbacks == {"close", "error", "read", "write", "post"}
Idle      == [conn |-> NoConn, cbs |-> {}]

-----------------------------------------------------------------------------
(* Ownership. *)

TaskConns(q) == {q[i].conn : i \in DOMAIN q}

\* Wrong on purpose: a table of weak pointers.
HeldWeakTable(c) ==
  \/ cur = c
  \/ \E l \in Loops : c \in held[l] \cup TaskConns(queue[l])

\* Some shared_ptr to c exists.
Held(c) ==
  \/ cur = c
  \/ \E f \in Fds : tcpConns[f] = c
  \/ \E l \in Loops : c \in held[l] \cup TaskConns(queue[l])

\* ~FTcpConnection of every connection this step drops the last pointer to,
\* in the branch of the thread that takes the step.
Reap(branch) ==
  dtor' = [c \in Conns |->
             IF dtor[c] = "alive" /\ ~Held(c)' THEN branch ELSE dtor[c]]

\* setCloseCallback has been called.
Wired(c) == ~(cur = c /\ lpc = "made")

\* mAddedToLoop: set by makeConn, cleared by both branches of the destructor.
Added(c) == dtor[c] = "alive"

-----------------------------------------------------------------------------
Init ==
  /\ lpc = "poll" /\ cur = NoConn /\ chooser = 0
  /\ tcpConns = [f \in Fds |-> NoConn]
  /\ spc = "run" /\ fault = FALSE
  /\ loopOf = [c \in Conns |-> 0]
  /\ fdOf = [c \in Conns |-> NoFd]
  /\ dtor = [c \in Conns |-> "unborn"]
  /\ cstate = [c \in Conns |-> "Connecting"]
  /\ reading = [c \in Conns |-> FALSE]
  /\ writing = [c \in Conns |-> FALSE]
  /\ timer = [c \in Conns |-> FALSE]
  /\ data = [c \in Conns |-> FALSE]
  /\ peer = [c \in Conns |-> "open"]
  /\ pc = [l \in Loops |-> "poll"]
  /\ revents = [c \in Conns |-> {}]
  /\ hnd = [l \in Loops |-> Idle]
  /\ queue = [l \in Loops |-> <<>>]
  /\ batch = [l \in Loops |-> <<>>]
  /\ held = [l \in Loops |-> {}]
  /\ due = [l \in Loops |-> {}]

-----------------------------------------------------------------------------
(* The clients.  A socket that has not been closed is at their disposal.    *)

PeerSend(c) ==
  /\ dtor[c] = "alive" /\ peer[c] = "open" /\ ~data[c]
  /\ data' = [data EXCEPT ![c] = TRUE]
  /\ UNCHANGED <<listenerVars, tcpConns, spc, fault, loopOf, fdOf, dtor,
                 stateVars, timer, peer, loopVars>>

PeerFin(c) ==
  /\ dtor[c] = "alive" /\ peer[c] = "open"
  /\ peer' = [peer EXCEPT ![c] = "fin"]
  /\ UNCHANGED <<listenerVars, tcpConns, spc, fault, loopOf, fdOf, dtor,
                 stateVars, timer, data, loopVars>>

\* A reset discards what the client had sent.
PeerRst(c) ==
  /\ dtor[c] = "alive" /\ peer[c] # "rst"
  /\ peer' = [peer EXCEPT ![c] = "rst"]
  /\ data' = [data EXCEPT ![c] = FALSE]
  /\ UNCHANGED <<listenerVars, tcpConns, spc, fault, loopOf, fdOf, dtor,
                 stateVars, timer, loopVars>>

-----------------------------------------------------------------------------
(* The listener thread: onNewConnIn, cut where a sub-loop can see the        *)
(* difference.                                                               *)

Quitting == spc # "run"

ListenerPoll ==
  /\ lpc = "poll" /\ ~Quitting
  /\ lpc' = "events"
  /\ UNCHANGED <<cur, chooser, tcpConns, spc, fault, loopOf, fdOf, dtor,
                 stateVars, timer, socketVars, loopVars>>

\* Wrong on purpose: the chooser is not wrapped.
MakeConnUnwrapped(c, f) ==
  /\ lpc = "events" /\ dtor[c] = "unborn"
  /\ \A d \in Conns : dtor[d] = "alive" => fdOf[d] # f
  /\ lpc' = "made" /\ cur' = c
  /\ loopOf' = [loopOf EXCEPT ![c] = chooser]
  /\ chooser' = chooser + 1
  /\ fdOf' = [fdOf EXCEPT ![c] = f]
  /\ dtor' = [dtor EXCEPT ![c] = "alive"]
  /\ UNCHANGED <<tcpConns, spc, fault, stateVars, timer, socketVars, loopVars>>

\* Wrong on purpose: the socket is closed in handleClose, so its handle is free
\* while the connection object lives on.
MakeConnEarlyReuse(c, f) ==
  /\ lpc = "events" /\ dtor[c] = "unborn"
  /\ \A d \in Conns :
       dtor[d] = "alive" /\ cstate[d] # "DisConnected" => fdOf[d] # f
  /\ lpc' = "made" /\ cur' = c
  /\ loopOf' = [loopOf EXCEPT ![c] = chooser]
  /\ chooser' = (chooser + 1) % NLoops
  /\ fdOf' = [fdOf EXCEPT ![c] = f]
  /\ dtor' = [dtor EXCEPT ![c] = "alive"]
  /\ UNCHANGED <<tcpConns, spc, fault, stateVars, timer, socketVars, loopVars>>

\* makeConn: the connection exists and its event is in the sub-loop's epoll
\* set (subscribed to nothing: hang-ups and errors are reported all the same).
\* The handle is one no open socket has.
MakeConn(c, f) ==
  /\ lpc = "events" /\ dtor[c] = "unborn"
  /\ \A d \in Conns : dtor[d] = "alive" => fdOf[d] # f
  /\ lpc' = "made" /\ cur' = c
  /\ loopOf' = [loopOf EXCEPT ![c] = chooser]
  /\ chooser' = (chooser + 1) % NLoops
  /\ fdOf' = [fdOf EXCEPT ![c] = f]
  /\ dtor' = [dtor EXCEPT ![c] = "alive"]
  /\ UNCHANGED <<tcpConns, spc, fault, stateVars, timer, socketVars, loopVars>>

SetCallbacks ==
  /\ lpc = "made"
  /\ lpc' = "wired"
  /\ UNCHANGED <<cur, chooser, tcpConns, spc, fault, loopOf, fdOf, dtor,
                 stateVars, timer, socketVars, loopVars>>

AddEstablishedTask ==
  /\ lpc = "wired"
  /\ lpc' = "queued"
  /\ queue' = [queue EXCEPT ![loopOf[cur]] =
                 Append(@, [kind |-> "established", conn |-> cur])]
  /\ UNCHANGED <<cur, chooser, tcpConns, spc, fault, loopOf, fdOf, dtor,
                 stateVars, timer, socketVars, pc, revents, hnd, batch, held, due>>

\* Wrong on purpose: the connection is never filed.
InsertConnForgotten ==
  /\ lpc = "queued"
  /\ lpc' = "inserted"
  /\ UNCHANGED <<cur, chooser, tcpConns, spc, fault, loopOf, fdOf, dtor,
                 stateVars, timer, socketVars, loopVars>>

\* std::map::insert leaves an entry that is already there.
InsertConn ==
  /\ lpc = "queued"
  /\ lpc' = "inserted"
  /\ tcpConns' = IF tcpConns[fdOf[cur]] = NoConn
                 THEN [tcpConns EXCEPT ![fdOf[cur]] = cur]
                 ELSE tcpConns
  /\ UNCHANGED <<cur, chooser, spc, fault, loopOf, fdOf, dtor,
                 stateVars, timer, socketVars, loopVars>>

\* onNewConnIn returns and its shared_ptr goes.
ReturnFromAccept ==
  /\ lpc = "inserted"
  /\ lpc' = "events" /\ cur' = NoConn
  /\ UNCHANGED <<chooser, tcpConns, spc, fault, loopOf, fdOf,
                 stateVars, timer, socketVars, loopVars>>
  /\ Reap("offLoop")

ListenerEndRound ==
  /\ lpc = "events"
  /\ lpc' = "poll"
  /\ UNCHANGED <<cur, chooser, tcpConns, spc, fault, loopOf, fdOf, dtor,
                 stateVars, timer, socketVars, loopVars>>

ListenerExit ==
  /\ lpc = "poll" /\ Quitting
  /\ lpc' = "stopped"
  /\ UNCHANGED <<cur, chooser, tcpConns, spc, fault, loopOf, fdOf, dtor,
                 stateVars, timer, socketVars, loopVars>>

-----------------------------------------------------------------------------
(* What FTcpConnection does in its own loop.                                 *)

\* handleClose, with FTcpServer::onClose: the entry is erased by handle.
HandleClose(c) ==
  /\ cstate' = [cstate EXCEPT ![c] = "DisConnected"]
  /\ reading' = [reading EXCEPT ![c] = FALSE]
  /\ writing' = [writing EXCEPT ![c] = FALSE]
  /\ fault' = ~Wired(c)
  /\ tcpConns' = IF Wired(c) THEN [tcpConns EXCEPT ![fdOf[c]] = NoConn]
                             ELSE tcpConns

WriteComplete(c) == [kind |-> "writeComplete", conn |-> c]

\* The sendInLoop calls of one callback on an open connection: one that goes
\* out at once queues the write-complete task, one that does not leaves bytes in
\* outBuffer, one that fails leaves nothing.
Send(c, l) ==
  \E sent, left \in BOOLEAN :
    /\ sent => ~writing[c]
    /\ queue' = IF sent THEN [queue EXCEPT ![l] = Append(@, WriteComplete(c))] ELSE queue
    /\ writing' = [writing EXCEPT ![c] = @ \/ left]

-----------------------------------------------------------------------------
(* A sub-loop: the events of one round.                                      *)

\* What epoll reports of a connection whose subscribed writes are in W.
EventsOf(c, W) ==
  (IF reading[c] /\ (data[c] \/ peer[c] # "open") THEN {"In"} ELSE {})
    \cup (IF c \in W THEN {"Out"} ELSE {})
    \cup (IF peer[c] = "rst" THEN {"Hup", "Err"} ELSE {})

\* Wrong on purpose: the loops are told to quit after they were waited for.
LoopQuitLate == spc = "stopped"

LoopQuit == spc \in {"waitLoops", "stopped"}

\* listen(): every connection of the loop that is ready.  W are those whose
\* socket can take more bytes.
Listen(l, W) ==
  /\ pc[l] = "poll" /\ ~LoopQuit
  /\ \A c \in W : writing[c] /\ Added(c) /\ loopOf[c] = l
  /\ revents' = [c \in Conns |-> IF Added(c) /\ loopOf[c] = l
                                 THEN EventsOf(c, W) ELSE revents[c]]
  /\ pc' = [pc EXCEPT ![l] = "events"]
  /\ UNCHANGED <<listenerVars, tcpConns, spc, fault, loopOf, fdOf, dtor,
                 stateVars, timer, socketVars, hnd, queue, batch, held, due>>

\* The callbacks handleEvent makes for these events, in the order of Rank.
CallbacksFor(r) ==
  {"post"} \cup (IF "Hup" \in r /\ "In" \notin r THEN {"close"} ELSE {})
           \cup (IF "Err" \in r THEN {"error"} ELSE {})
           \cup (IF "In" \in r THEN {"read"} ELSE {})
           \cup (IF "Out" \in r THEN {"write"} ELSE {})

Rank == [close |-> 1, error |-> 2, read |-> 3, write |-> 4, post |-> 5]

\* The next active event; events of removed connections are passed over.
HandleEvent(l, c) ==
  /\ pc[l] = "events" /\ hnd[l] = Idle
  /\ loopOf[c] = l /\ revents[c] # {}
  /\ revents' = [revents EXCEPT ![c] = {}]
  /\ hnd' = IF Added(c)
            THEN [hnd EXCEPT ![l] = [conn |-> c, cbs |-> CallbacksFor(revents[c])]]
            ELSE hnd
  /\ UNCHANGED <<listenerVars, tcpConns, spc, fault, loopOf, fdOf, dtor, stateVars,
                 timer, socketVars, pc, queue, batch, held, due>>

\* Callback cb of the event at hand is next, and leaves the list.
Turn(l, cb) ==
  /\ cb \in hnd[l].cbs /\ Added(hnd[l].conn)
  /\ \A d \in hnd[l].cbs : Rank[cb] <= Rank[d]
  /\ hnd' = [hnd EXCEPT ![l] = IF cb = "post" THEN Idle
                               ELSE [conn |-> @.conn, cbs |-> @.cbs \ {cb}]]

\* The connection went away under the event: no further callback.
DropEvent(l) ==
  /\ hnd[l] # Idle /\ ~Added(hnd[l].conn)
  /\ hnd' = [hnd EXCEPT ![l] = Idle]
  /\ UNCHANGED <<listenerVars, tcpConns, spc, fault, loopOf, fdOf, dtor, stateVars,
                 timer, socketVars, pc, revents, queue, batch, held, due>>

\* mCloseCallback and mErrorCallback are both handleClose.
OnHupOrError(l) ==
  /\ Turn(l, "close") \/ Turn(l, "error")
  /\ HandleClose(hnd[l].conn)
  /\ UNCHANGED <<listenerVars, spc, loopOf, fdOf, timer, socketVars, pc,
                 revents, queue, batch, held, due>>
  /\ Reap("inLoop")

\* handleRead on a connection that is closed already.
OnReadClosed(l) ==
  /\ Turn(l, "read")
  /\ cstate[hnd[l].conn] = "DisConnected"
  /\ UNCHANGED <<listenerVars, tcpConns, spc, fault, loopOf, fdOf, dtor, stateVars,
                 timer, socketVars, pc, revents, queue, batch, held, due>>

\* handleRead with bytes: the application may answer.
OnReadMessage(l) ==
  LET c == hnd[l].conn IN
  /\ Turn(l, "read")
  /\ cstate[c] # "DisConnected" /\ data[c]
  /\ data' = [data EXCEPT ![c] = FALSE]
  /\ cstate' = [cstate EXCEPT ![c] = "Connected"]
  /\ Send(c, l)
  /\ UNCHANGED <<listenerVars, tcpConns, spc, fault, loopOf, fdOf, dtor, reading,
                 timer, peer, pc, revents, batch, held, due>>

\* handleRead that ends in handleClose: end of stream, an error, or bytes that
\* the application or TLS refuses, possibly after an answer was sent.
OnReadClose(l) ==
  LET c == hnd[l].conn IN
  /\ Turn(l, "read")
  /\ cstate[c] # "DisConnected" /\ (data[c] \/ peer[c] # "open")
  /\ data' = [data EXCEPT ![c] = FALSE]
  /\ \/ UNCHANGED queue
     \/ /\ data[c] /\ ~writing[c]
        /\ queue' = [queue EXCEPT ![l] = Append(@, WriteComplete(c))]
  /\ HandleClose(c)
  /\ UNCHANGED <<listenerVars, spc, loopOf, fdOf, timer, peer, pc, revents,
                 batch, held, due>>
  /\ Reap("inLoop")

\* Wrong on purpose: disableAll where only writing should be disabled.
OnWriteDisablesAll(l) ==
  LET c == hnd[l].conn IN
  /\ Turn(l, "write")
  /\ \/ UNCHANGED <<reading, writing, queue>>
     \/ /\ writing[c] /\ cstate[c] # "DisConnected"
        /\ reading' = [reading EXCEPT ![c] = FALSE]
        /\ writing' = [writing EXCEPT ![c] = FALSE]
        /\ queue' = [queue EXCEPT ![l] = Append(@, WriteComplete(c))]
  /\ UNCHANGED <<listenerVars, tcpConns, spc, fault, loopOf, fdOf, dtor, cstate,
                 timer, socketVars, pc, revents, batch, held, due>>

\* handleWrite: some of outBuffer goes out, or all of it.
OnWrite(l) ==
  LET c == hnd[l].conn IN
  /\ Turn(l, "write")
  /\ \/ UNCHANGED <<writing, queue>>
     \/ /\ writing[c] /\ cstate[c] # "DisConnected"
        /\ writing' = [writing EXCEPT ![c] = FALSE]
        /\ queue' = [queue EXCEPT ![l] = Append(@, WriteComplete(c))]
  /\ UNCHANGED <<listenerVars, tcpConns, spc, fault, loopOf, fdOf, dtor, cstate,
                 reading, timer, socketVars, pc, revents, batch, held, due>>

\* handlePostEvent: the idle timer starts again, unless the connection closed.
OnPost(l) ==
  LET c == hnd[l].conn IN
  /\ Turn(l, "post")
  /\ timer' = [timer EXCEPT ![c] = cstate[c] # "DisConnected"]
  /\ UNCHANGED <<listenerVars, tcpConns, spc, fault, loopOf, fdOf, dtor, stateVars,
                 socketVars, pc, revents, queue, batch, held, due>>

-----------------------------------------------------------------------------
(* A sub-loop: the functions of one round.                                   *)

\* Tick: all tasks, then the idle timers in D, which have run out.  The
\* destructor cancels the timer in the loop thread only.
Tick(l, D) ==
  /\ pc[l] = "events" /\ hnd[l] = Idle
  /\ \A c \in Conns : loopOf[c] = l => revents[c] = {}
  /\ \A c \in D : timer[c] /\ loopOf[c] = l /\ dtor[c] # "inLoop"
  /\ pc' = [pc EXCEPT ![l] = "funcs"]
  /\ batch' = [batch EXCEPT ![l] = queue[l]]
  /\ queue' = [queue EXCEPT ![l] = <<>>]
  /\ held' = [held EXCEPT ![l] = TaskConns(queue[l])]
  /\ due' = [due EXCEPT ![l] = D]
  /\ timer' = [c \in Conns |-> timer[c] /\ c \notin D]
  /\ UNCHANGED <<listenerVars, tcpConns, spc, fault, loopOf, fdOf, dtor,
                 stateVars, socketVars, revents, hnd>>

NextTask(l, kind) ==
  /\ pc[l] = "funcs" /\ batch[l] # <<>>
  /\ Head(batch[l]).kind = kind
  /\ batch' = [batch EXCEPT ![l] = Tail(@)]

\* Wrong on purpose: only a connection in state Connected is read.
RunEstablishedIfConnected(l) ==
  LET c == Head(batch[l]).conn IN
  /\ NextTask(l, "established")
  /\ reading' = [reading EXCEPT ![c] = cstate[c] = "Connected"]
  /\ UNCHANGED <<listenerVars, tcpConns, spc, fault, loopOf, fdOf, dtor, cstate,
                 writing, timer, socketVars, pc, revents, hnd, queue, held, due>>

\* handleTcpConnEstablish: setReading(true), whatever the state.
RunEstablished(l) ==
  /\ NextTask(l, "established")
  /\ reading' = [reading EXCEPT ![Head(batch[l]).conn] = TRUE]
  /\ UNCHANGED <<listenerVars, tcpConns, spc, fault, loopOf, fdOf, dtor, cstate,
                 writing, timer, socketVars, pc, revents, hnd, queue, held, due>>

\* handleTcpWriteComplete on a connection that is kept alive, or whose data
\* the close callback deleted (the data made anew says keep alive).
RunWriteCompleteKeep(l) ==
  /\ NextTask(l, "writeComplete")
  /\ UNCHANGED <<listenerVars, tcpConns, spc, fault, loopOf, fdOf, dtor, stateVars,
                 timer, socketVars, pc, revents, hnd, queue, held, due>>

\* handleTcpWriteComplete of a response after which the connection is closed.
RunWriteCompleteClose(l) ==
  LET c == Head(batch[l]).conn IN
  /\ NextTask(l, "writeComplete")
  /\ cstate[c] # "DisConnected"
  /\ HandleClose(c)
  /\ UNCHANGED <<listenerVars, spc, loopOf, fdOf, timer, socketVars, pc, revents,
                 hnd, queue, held, due>>
  /\ Reap("inLoop")

\* handleOnIdle through its weak pointer; the application may send a GOAWAY.
RunIdleKeep(l, c) ==
  /\ pc[l] = "funcs" /\ batch[l] = <<>> /\ c \in due[l]
  /\ due' = [due EXCEPT ![l] = @ \ {c}]
  /\ timer' = [timer EXCEPT ![c] = dtor[c] = "alive" /\ cstate[c] # "DisConnected"]
  /\ IF timer'[c] THEN Send(c, l) ELSE UNCHANGED <<writing, queue>>
  /\ UNCHANGED <<listenerVars, tcpConns, spc, fault, loopOf, fdOf, dtor, cstate,
                 reading, socketVars, pc, revents, hnd, batch, held>>

\* handleTcpIdle finds the connection timed out.
RunIdleClose(l, c) ==
  /\ pc[l] = "funcs" /\ batch[l] = <<>> /\ c \in due[l]
  /\ dtor[c] = "alive" /\ cstate[c] # "DisConnected"
  /\ due' = [due EXCEPT ![l] = @ \ {c}]
  /\ timer' = [timer EXCEPT ![c] = TRUE]
  /\ HandleClose(c)
  /\ UNCHANGED <<listenerVars, spc, loopOf, fdOf, socketVars, pc, revents, hnd,
                 queue, batch, held>>
  /\ Reap("inLoop")

\* The vector of functions goes, with the pointers its tasks hold.
EndRound(l) ==
  /\ pc[l] = "funcs" /\ batch[l] = <<>> /\ due[l] = {}
  /\ pc' = [pc EXCEPT ![l] = "poll"]
  /\ held' = [held EXCEPT ![l] = {}]
  /\ UNCHANGED <<listenerVars, tcpConns, spc, fault, loopOf, fdOf, stateVars,
                 timer, socketVars, revents, hnd, queue, batch, due>>
  /\ Reap("inLoop")

LoopExit(l) ==
  /\ pc[l] = "poll" /\ LoopQuit
  /\ pc' = [pc EXCEPT ![l] = "stopped"]
  /\ UNCHANGED <<listenerVars, tcpConns, spc, fault, loopOf, fdOf, dtor, stateVars,
                 timer, socketVars, revents, hnd, queue, batch, held, due>>

-----------------------------------------------------------------------------
(* FTcpServer::stop(false).                                                  *)

StopBegin ==
  /\ spc = "run"
  /\ spc' = "waitListener"
  /\ UNCHANGED <<listenerVars, tcpConns, fault, loopOf, fdOf, dtor, stateVars,
                 timer, socketVars, loopVars>>

StopListenerGone ==
  /\ spc = "waitListener" /\ lpc = "stopped"
  /\ spc' = "clear"
  /\ UNCHANGED <<listenerVars, tcpConns, fault, loopOf, fdOf, dtor, stateVars,
                 timer, socketVars, loopVars>>

\* m_tcpConns.clear(), one entry at a time: the sub-loops are running.
StopClearOne(f) ==
  /\ spc = "clear" /\ tcpConns[f] # NoConn
  /\ tcpConns' = [tcpConns EXCEPT ![f] = NoConn]
  /\ UNCHANGED <<listenerVars, spc, fault, loopOf, fdOf, stateVars, timer,
                 socketVars, loopVars>>
  /\ Reap("offLoop")

StopQuitLoops ==
  /\ spc = "clear" /\ \A f \in Fds : tcpConns[f] = NoConn
  /\ spc' = "waitLoops"
  /\ UNCHANGED <<listenerVars, tcpConns, fault, loopOf, fdOf, dtor, stateVars,
                 timer, socketVars, loopVars>>

StopReturn ==
  /\ spc = "waitLoops" /\ \A l \in Loops : pc[l] = "stopped"
  /\ spc' = "stopped"
  /\ UNCHANGED <<listenerVars, tcpConns, fault, loopOf, fdOf, dtor, stateVars,
                 timer, socketVars, loopVars>>

-----------------------------------------------------------------------------
Peer(c) == PeerSend(c) \/ PeerFin(c) \/ PeerRst(c)

Listener ==
  \/ ListenerPoll \/ SetCallbacks \/ AddEstablishedTask \/ InsertConn
  \/ ReturnFromAccept \/ ListenerEndRound \/ ListenerExit
  \/ \E c \in Conns, f \in Fds : MakeConn(c, f)

LoopEvents(l) ==
  \/ \E W \in SUBSET Conns : Listen(l, W)
  \/ \E c \in Conns : HandleEvent(l, c)
  \/ DropEvent(l) \/ OnHupOrError(l) \/ OnReadClosed(l) \/ OnReadMessage(l)
  \/ OnReadClose(l) \/ OnWrite(l) \/ OnPost(l)

LoopFuncs(l) ==
  \/ \E D \in SUBSET Conns : Tick(l, D)
  \/ RunEstablished(l) \/ RunWriteCompleteKeep(l) \/ RunWriteCompleteClose(l)
  \/ \E c \in Conns : RunIdleKeep(l, c) \/ RunIdleClose(l, c)
  \/ EndRound(l) \/ LoopExit(l)

Stopper ==
  \/ StopBegin \/ StopListenerGone \/ StopQuitLoops \/ StopReturn
  \/ \E f \in Fds : StopClearOne(f)

\* The process ends at a call of an empty std::function.
Next ==
  /\ ~fault
  /\ \/ \E c \in Conns : Peer(c)
     \/ Listener
     \/ \E l \in Loops : LoopEvents(l) \/ LoopFuncs(l)
     \/ Stopper

Spec == Init /\ [][Next]_vars

\* The threads run: the listener and the sub-loops because nothing in them
\* blocks for good, the caller of stop() because it polls HasStoped().  Clients,
\* and the decision to stop, owe nothing; nor do idle timers, which every event of
\* their connection arms anew.
LoopStep(l) == LoopEvents(l) \/ LoopFuncs(l)
StopStep ==
  StopListenerGone \/ StopQuitLoops \/ StopReturn \/ \E f \in Fds : StopClearOne(f)

Fairness ==
  /\ WF_vars(~fault /\ Listener)
  /\ WF_vars(~fault /\ StopStep)
  /\ \A l \in Loops : WF_vars(~fault /\ LoopStep(l))

FairSpec == Spec /\ Fairness

-----------------------------------------------------------------------------
(* Type invariant: every variable holds a value its C++ counterpart can hold. *)
TypeOK ==
  /\ lpc \in {"poll", "events", "made", "wired", "queued", "inserted", "stopped"}
  /\ cur \in Conns \cup {NoConn}
  /\ lpc \in {"made", "wired", "queued", "inserted"} <=> cur # NoConn
  /\ chooser \in Loops
  /\ tcpConns \in [Fds -> Conns \cup {NoConn}]
  /\ spc \in {"run", "waitListener", "clear", "waitLoops", "stopped"}
  /\ fault \in BOOLEAN
  /\ loopOf \in [Conns -> Loops]
  /\ fdOf \in [Conns -> Fds \cup {NoFd}]
  /\ dtor \in [Conns -> {"unborn", "alive", "inLoop", "offLoop"}]
  /\ cstate \in [Conns -> {"Connecting", "Connected", "DisConnected"}]
  /\ reading \in [Conns -> BOOLEAN]
  /\ writing \in [Conns -> BOOLEAN]
  /\ timer \in [Conns -> BOOLEAN]
  /\ data \in [Conns -> BOOLEAN]
  /\ peer \in [Conns -> {"open", "fin", "rst"}]
  /\ pc \in [Loops -> {"poll", "events", "funcs", "stopped"}]
  /\ revents \in [Conns -> SUBSET {"In", "Out", "Err", "Hup"}]
  /\ hnd \in [Loops -> [conn : Conns, cbs : SUBSET Callbacks] \cup {Idle}]
  /\ queue \in [Loops -> Seq(Tasks)]
  /\ batch \in [Loops -> Seq(Tasks)]
  /\ held \in [Loops -> SUBSET Conns]
  /\ due \in [Loops -> SUBSET Conns]

Open(c) == dtor[c] = "alive" /\ cstate[c] # "DisConnected"

\* stop() has begun to empty m_tcpConns.
Cleared == spc \notin {"run", "waitListener"}

\* A connection that is not closed stays in the table from the moment the
\* listener files it, whatever the sub-loop does meanwhile: FTcpServer::onClose
\* is the only way out.
OpenIsFiled ==
  ~Cleared =>
    \A c \in Conns :
      Open(c) =>
        \/ cur = c /\ lpc \in {"made", "wired", "queued"}
        \/ tcpConns[fdOf[c]] = c

\* The assertion of ~FTcpConnection, until stop() empties the table: no
\* connection is destroyed that was not closed first.
ClosedBeforeDestroyed ==
  ~Cleared =>
    \A c \in Conns :
      dtor[c] \in {"inLoop", "offLoop"} => cstate[c] = "DisConnected"

\* Handles are used again, and onClose erases by handle: the entry under a
\* handle is always a live connection on that very handle, so no onClose takes
\* another connection's entry.
FiledUnderItsHandle ==
  \A f \in Fds :
    tcpConns[f] # NoConn => /\ fdOf[tcpConns[f]] = f
                            /\ dtor[tcpConns[f]] = "alive"

\* A connection is never deaf: until it is closed, either its socket is read or
\* the task that starts the reading is still to come.
NotDeaf ==
  \A c \in Conns : Open(c) =>
    \/ reading[c]
    \/ cur = c /\ lpc \in {"made", "wired"}
    \/ \E l \in Loops : [kind |-> "established", conn |-> c]
                          \in {queue[l][i] : i \in DOMAIN queue[l]}
                             \cup {batch[l][i] : i \in DOMAIN batch[l]}

\* A client that leaves is noticed: its connection is closed, unless the server
\* is being stopped.
GoneIsClosed ==
  \A c \in Conns :
    (Open(c) /\ peer[c] # "open") ~> (~Open(c) \/ Quitting \/ fault)

\* A graceful stop() returns, whatever the clients and the sub-loops are doing.
StopReturns == Quitting ~> (spc = "stopped" \/ fault)

\* FHttpServer.h:80-82, "Time wait for uncomplete http request; if the time is
\* out, the connection will be closed": the idle callback, which closes it, is
\* run for every connection that stays open.
SilentIsTimedOut ==
  \A c \in Conns :
    (Open(c) /\ reading[c]) ~> (c \in due[loopOf[c]] \/ ~Open(c) \/ Quitting \/ fault)

\* FTcpConnection.cpp:35, "Only happened when Server is closed": outside stop()
\* a destructor runs in the connection's own loop thread.
OffLoopOnlyAtStop ==
  ~Cleared => \A c \in Conns : dtor[c] # "offLoop"

\* FTcpConnection.cpp:31, assert(mstate == TcpConnState::DisConnected).
DestructorAssertion ==
  \A c \in Conns : dtor[c] = "inLoop" => cstate[c] = "DisConnected"
=============================================================================

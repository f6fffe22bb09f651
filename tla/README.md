# BlogServer in TLA+

TLA+ models of the core of BlogServer: FeiLib, the C++ network library with its
HTTP server, and the services of the blog that its threads share; TLC configurations that check them on small
instances, and TLAPS proofs of what matters most for every instance.

Paths below are relative to the repository; `FeiLib/` stands for `src/FeiLib/`,
`Server/` for `src/Server/src/`.

## Contents

1. [The system](#1-the-system): components, state, interactions, what is hard
2. [Modules](#2-modules): which module models which part, and how
3. [Runs](#3-runs): what each run asks, its bounds and what it shows
4. [Fairness](#4-fairness)
5. [Proofs](#5-proofs)
6. [Disagreements found](#6-disagreements-found)
7. [Possible extensions](#7-possible-extensions)
8. [Not modelled](#8-not-modelled)

To run everything: `tlc -config X.cfg M.tla` for the pairs of section 3,
`tlapm M.tla` for each of the eight modules `*Proofs.tla`.
`PROJECT.json` holds the same information for tools: the map from definitions to
source lines, the runs, for every property a wrong version of the code that the
run refutes, the hazards with the properties that cover them.

## 1. The system

### Threads

| thread | what it runs |
|---|---|
| main | `FTcpServer::run`, then a tick every 20 s (`tickUserEvent`: the sweeps of route caches, sessions and files), the request to stop |
| listener | an `FEventLoop` with the acceptors; runs `FTcpServer::onNewConnIn` |
| sub-loops (`m_threadNums`) | an `FEventLoop` each; every callback of a connection, so the HTTP server, the router's `route()` and the controllers |
| image pool (2) | `ThreadPool` workers that fetch images and store their dimensions |

Everything a sub-loop shares with another thread is behind one of: the mutex of a
task queue, `m_mutex` of `FTcpServer`, the lock inside a concurrent map, an atomic
flag, or nothing at all. The models concentrate on these places.

### Components

**TCP server and connections** (`FeiLib/src/FTcpServer.cpp`,
`FTcpConnection.cpp`, `FAcceptor.cpp`).
State: the table `m_tcpConns` from socket handles to `shared_ptr`s, the
round-robin `IOThread_Chooser`, the state of each connection
(`Connecting`, `Connected`, `DisConnected`), its event mask, its buffers and idle timer.
Operations: accept, established, read, write, write complete, idle, close,
destroy, `stop()`.
Interactions: the listener hands a connection to a sub-loop by a task; the
sub-loop removes it from the table by handle; the last `shared_ptr` may be
dropped by the listener, by a sub-loop, or by `stop()`, and the destructor behaves
differently in each.
Hard: the listener is still wiring up and filing a connection that its sub-loop
is already serving or closing; handles are reused; `stop()` empties the table under
the feet of the sub-loops.
Correct when: an open connection stays filed; none is destroyed before it is
closed; the entry under a handle is the live connection on it; no open connection is
left with reading switched off; a client that leaves is noticed; `stop()` returns.

**Event loop** (`FEventLoop.cpp`, `FEvent.cpp`, `FEPollListener.cpp`,
`FTimeQueue.cpp`).
State: the epoll set, active events, the task queue, the timers.
A round is: wait for events, handle each one (close, error, read, write, then post, each
only while the event is still in the loop), take the expired timers and the queued
tasks (`Tick`), run them, end.
Hard: tasks and timers taken by `Tick` run after an earlier one of the same round
has closed their connection; the taken functions hold `shared_ptr`s to the end of
the round.

**Concurrent maps** (`FeiLib/include/FConcurrentMap.h`).
State: `mWriteMutex`, `mModifyMutex`, and the counters `mReadingCounts` and
`mWriteLock`. Read operations (find, traversal, findAndModifyLocked, and insert
of the ordered map) share the map; write operations are alone in it.
Hard: half of the accesses to the counters are made without the mutex.
Correct when: a writer is alone; counters never go negative (the assertions
`ReadCheck`, `WriteCheck`); writers get in.

**Router** (`FeiLib/src/Http/FRouter.cpp`).
State: controllers by name, an ordered queue of path patterns and a route cache per
method, the flags `isHandleRoute` and `isHandleUnreg`.
Operations: `route` (sub-loops), `checkRouteCache` (main), registering
and unregistering controllers.
Hard: the cache is looked up twice for one answer while the sweep erases; one
flag stands for all routing threads; patterns of equal priority; a cache filled
before the table changes; ages computed by unsigned subtraction.
Correct when: the queue has exactly the patterns of the registered
controllers, cache and results name the best match, route and unregister return.

**HTTP/1** (`FHttpServer.cpp`, `FHttpRequestParser.cpp`). State per
connection: `HttpConnData` (the parser and `shouldKeepAlive`), created by the first
callback that looks for it, deleted by the close callback. The parser is fed what a
read delivers, in any cut. `http1Process` answers a complete request; the
write-complete task closes the connection or keeps it; the idle callback compares
the age of the data with two limits.
Hard: the state survives from read to read; the answer goes out in parts while new bytes arrive;
callbacks of one round come after a close.
Correct when: what is handled does not depend on the cuts, each request is answered once, in
order and to the end, the connection closes after its last answer, a request that takes too long is ended,
a close ends what belongs to the connection.

**HTTP/2** (`FHttp2Helper.cpp`). State: nghttp2's session, the map of streams,
two counters of open streams, GOAWAY. nghttp2 calls back for frames; after a read
`http2Process` traverses the finished streams and submits answers and promises.
Hard: counters and map are kept in step by hand over four callbacks, nghttp2 keeps raw
pointers to entries of the map, the traversal inserts, the idle callback ends a connection in two ways.
Correct when: map, counters and pointers follow the streams, the limit holds, each request is
answered once, a context is neither used nor made after its deletion.

**Buffers** (`FBuffer.cpp`, `FBufferReader.cpp`): bytes between the reader and the writer of a
connection. Correct when: what is sent is what was appended, in order, once.

**Administrator login and sessions** (`Server/Service/AdminLogin.cpp`,
`Server/Core/Session.cpp`): a flag, a failure counter and a time, written one by one by
parallel requests; sessions in a concurrent map, swept by the main thread by an unsigned age.
Correct when: after the limit of failures in a row the login is locked for its time, a sweep ends
the sessions whose time has passed and no other. Neither is so in every interleaving: see sections 3 and 6.

**RSS feed** (`Server/Service/RssBuilder.cpp`): a dirty flag and a cached text; edits set
the flag, the first reader after that rebuilds. Hard: nothing but the flag is atomic.
Correct when: a feed that is out of date is known to be.

**Thread pool, photo wall** (`Server/Utils/ThreadPool.h`,
`Server/Controller/PhotoWallController.cpp`, `Server/DAO/PhotoQuery.cpp`): a photo that is posted or
whose url changes gets its dimensions later, from a task of the pool; what a
dead process has not done is submitted at the next start. Correct when: every task is
begun once and in order, none is forgotten, and the dimensions are in the end those of the image.

**Blocking queues** (`FBlockingQueue.h`; no user in the tree), **path matcher** (patterns to RE2
expressions), **TLS**, **logger, configuration, sockets**, **database access**,
**controllers**: see section 8.

## 2. Modules

| module | models | kind |
|---|---|---|
| `TcpServer` | TCP server, connections, event loops, time queue; external: clients, what `FHttpServer`'s callbacks choose | specification |
| `MCTcpServer` | symmetric connections and handles; idle timers that all expire, for one run | instance |
| `TcpServerProofs` | types and ownership, for all constants | proofs |
| `ReadersWriter` | what a concurrent map promises to its threads | abstract specification |
| `FConcurrentMap` | the lock of the concurrent maps | specification, implements `ReadersWriter` |
| `FConcurrentMapProofs` | types, exclusion, refinement, for all constants | proofs |
| `FRouter` | routing, route cache, sweep, registering, unregistering | specification |
| `MCFRouter` | a few patterns, paths and controllers | instance |
| `FRouterProofs` | types, table, cache and results, for all constants | proofs |
| `FHttp1` | one HTTP/1 connection: parser, answers, keep-alive, buffers, timeouts; external: client, clock | specification |
| `FHttp1Proofs` | types, cuts, answers, end of a connection, for all constants | proofs |
| `FHttp2` | one HTTP/2 connection and its context; external: client, nghttp2 | specification |
| `FHttp2Proofs` | streams, counters, pointers, limit, context, for all constants | proofs |
| `MCFHttp` | a connection that speaks one of the two | instance |
| `AdminLogin` | logins, lock, sessions and their sweep | specification |
| `MCLogin` | `AdminLogin` with an observer that counts failures in a row | instance |
| `AdminLoginProofs` | types, the count at its limit, early unlocks, sweep, for all constants | proofs |
| `RssBuilder` | edits, dirty flag, rebuilds | specification |
| `RssBuilderProofs` | the feed, for all constants | proofs |
| `JobQueue` | what a pool of threads promises | abstract specification |
| `ThreadPool` | the pool with its queue, condition variable and destructor | specification, implements `JobQueue` |
| `PhotoWall` | photos, their jobs in `ThreadPool`, death and restart of the process | composition over `ThreadPool` |
| `PhotoWallProofs` | the pool: no lost wakeup, refinement; the photo wall: use of the pool, dimensions, for all constants | proofs |
| `MCServices` | logins, feed, photos with a pool, and the lock of a concurrent map | instance |

### TcpServer

One variable per piece of state; `dtor` says whether a connection object is
unborn, alive, or destroyed by its own loop's thread (`inLoop`) or another one
(`offLoop`). `Held(c)` is "some `shared_ptr` to c exists": the table, the local of
`onNewConnIn`, the tasks of a queue, the functions of the current round. Every
step that drops a pointer ends with `Reap`, which runs the destructor of what
nobody holds any more, in the branch of the thread that takes the step.

`onNewConnIn` is cut into `MakeConn`, `SetCallbacks`, `AddEstablishedTask`,
`InsertConn`, `ReturnFromAccept`: between them a sub-loop can already see the
connection (it is in its epoll set from `makeConn` on). A sub-loop's round is
`Listen`, `HandleEvent` for each active connection in any order, one step per
callback in the order of `FEvent::handleEvent` (`Turn`), `Tick`, one step per
function (`RunEstablished`, `RunWriteComplete...`, `RunIdle...`), `EndRound`,
where the functions' pointers go. What the HTTP layer answers is a choice: send or not, close or not,
keep alive or not. `stop()` is `StopBegin`, `StopListenerGone`,
`StopClearOne` for each entry, `StopQuitLoops`, `StopReturn`.

A socket is reduced to: unread bytes or none, and the other end open, finished
or reset. A buffer is reduced to: bytes are waiting to be written (`writing`) or
none. `fault` records a call of an empty `std::function`, which ends the process.

Simplifications. The model starts when `run()` has returned: that the listener
accepts before the sub-loops exist is a hazard in the list, not a behaviour of the model. A
callback checked and then called in `handleEvent` is one step, because nothing removes
the event in between. The unsynchronised accesses to `m_pollEvents` and, in `stop()`, to
`m_tcpConns` are atomic steps. An idle time is configured. `send`, `forceClose` and
the like are called in the loop's thread, as every caller in the tree does.

### FConcurrentMap and ReadersWriter

One program point per access to a mutex or counter. The abstraction `Phase` counts a
reader from the increment of `mReadingCounts` to its decrement, and a writer from the
increment of `mWriteLock` to its decrement, in three phases (claimed, writing,
written). `ReadersWriter` then says: reads begin only when no writer has a claim,
writes begin only when the map is empty. The contents of the map and TBB's accessor
locks are not modelled: between two operations that hold the lock in a compatible way TBB
is trusted. The counters do not wrap (they count threads).

### FRouter

One request method: queues and caches are kept per method and do not meet. An
operation on a concurrent map is one step (that it is atomic with respect to erase
is what `FConcurrentMap` shows), except the traversal in `route()`, which is one
step per pattern and keeps `ErasePattern` out. The `find` and the
`findAndModifyLocked` of `getRouteInCache` are two steps (`FindInCache`,
`TakeFromCache`), as are reading the flag and setting it (`PassGate`,
`EnterRoute`; `WaitUnreg`, `SetUnreg`), and the search for a free priority and the
insertion (`RegFunc`, `RegPut`). The loop that looks for a free priority is one step; only
administrators change the queue, and the runs have one.

Time is not a number: a cached path is `stale` once it has gone unused for
`CACHE_CLEAR_CACHE_UNUSED_TIME`. The age is an unsigned difference, so an entry
stored or used after the sweep has read the clock is immensely old; `since` collects those, and the
sweep takes any of them (any, because the clock has the resolution of a millisecond).
What a pattern matches, and what `calcPathPatternPriority` reads of it, are constants.
A controller that is registered again is the same object.

`raced` is a history variable: an administrator has changed what a route in its
section was reading, or has inserted a pattern that an already filled cache knows nothing of. The two
flags do not exclude this (one boolean stands for several routing threads, and each
flag is tested before it is set), registering does not even try, and the code makes no
promise about it: in the tree controllers are registered during static
initialisation and unregistered only by a test. `CacheAgrees` and `ResultIsBest`
are about the behaviours without it; everything else is about all behaviours.

### FHttp1

One connection and the rounds of its sub-loop. A *piece* is a byte, or a run of bytes
that only makes sense together (the rest of a request line, a header line); it
carries the number of its request and its place there, and `unsent` is the one the client sends next. `Pieces` is the order of a
request's pieces, `Kind` what one of them means to the parser. `ClientSend` puts one piece into the socket, so a
read finds any number of them: every cut is a behaviour. `HandleRead` takes what has arrived, `ParseNext`
is one turn of the loop in `parse()` (`Feed` is its switch), `ParseEnd` the end of
`parse()` and the rest of `http1Process`. An answer has two pieces, so it can be sent in part.
What the parser does at the edges is kept: `readNext()` takes a piece before the state is tested,
so the first piece of a pipelined request is lost with the end of the one before; a zero byte
looks like the end of the buffer. `HandleWrite` sends, then pops twice
(`PopTwice`); `spoiled` marks the behaviours in which that happened, `aborted` those in which the assertion
of `Pop` failed - the model is of a build with assertions, and stops there.
`pipelined` says whether the client waits for its answers. Sockets are non-blocking or not: a send
takes any part, all of it included. A Content-Length that is no number is an error (`EndHeaders`); for one that cannot be
reserved the parser throws (`"Thrown"`), nobody catches it, and the process ends (`aborted`).

The idle timer is `armed` by every event and `due` once a `Tick` has taken it: the `Tick` of a round with events, when the
round outlasts it, or that of a round without (`IdleTick`). What is taken runs, after the tasks of the round, although
one of them may have closed the connection meanwhile: `RunIdle` then makes the data of the closed connection anew, which is
never deleted. `ReadOtherHeader` is a client that sends one header line after the other, none of which the parser looks at:
each is an event, and arms the timer again.

Simplifications. Clock values are two booleans, one for each limit. Handlers answer at once.
A script of requests ends with the first that holds a zero byte: what follows is parsed out of step.
The error branch of `sendInLoop` for encrypted connections is not modelled. Of `HttpConnData` and `FHttpParser` the fields
that decide anything are kept; `hasSurvivedTime` is the two booleans.

### FHttp2

`session` is nghttp2's state of each stream and `hasData` its user data pointers; the map
`mStreamDataMap` is the set `mapped` with a set per field (`finished`, `processed`). One action per frame that a read
delivers, `EndRecv` (the send after it), one `Handle` per finished stream in the order of the map,
`EndHandle`, the write-complete task. What nghttp2 does is a choice within its documentation:
it refuses streams above the limit it was told, or ends the session; it closes a stream when both
sides have ended it, and calls back. How far answers get depends on the client's windows: any
subset of what is submitted. `RunIdleH2` is `handleTcpIdle` for a request that took too long:
close at once (`mHttp2CloseImm`) or drain. `usedAfterDelete` records that the code went on with a deleted
context; the model stops there.

### AdminLogin

Two kinds of thread over one clock. A request to log in is one step for each access to a shared field
(`ReadLocked`, `JudgeLock`, `Unlock`, `ResetCount`, then `CompareNames`, ..., `Lock`, `StampLock`,
`ClearCount`), because the fields are atomic one by one and not together. `mFailedCount++` is one step:
the field is atomic. The sweep reads the clock, collects, and erases one by one. The age is
`(time - lastTime) % Word`. The time of a lock that was never set is the epoch. `lockedAt` and `lseen` are history.

What the guide promises, a lock after so many failures in a row and for so long, is `LockHolds` of `MCLogin`, which adds an
observer of the failures; the code breaks it (section 6). `LimitIsSeen` and `EarlyUnlockIsARace` say how far it can go wrong: a count at the
limit never stands without a login on its way to test or to clear it, and an early unlock is one of two races.

### RssBuilder

A version number stands for what the feed shows of the database. `Write` and `SetDirty` are the two halves of an edit of
a post; `EditCategory` is an edit of a category, which `rebuild()` reads as well but which nobody marks.
`Query`, `Publish`, `ClearDirty` are the three steps of `rebuild()` another thread can come between. The
assignment of the text itself, which a reader may be copying, is atomic here.
`missed` says that an edit was lost - marked behind a rebuild that had read before it,
or of a category when none was due - or that feeds were published out of order, and that no
rebuild that has read everything has come since. Both properties exclude these behaviours, so they say nothing about the feed
between a missed edit and that rebuild: the code may then give an old feed as if it were new, and no text of the repository promises the contrary.

### ThreadPool, JobQueue and PhotoWall

What a worker does under the mutex is one step, `cv_.wait` can wake up without a reason, `submit()` notifies after it has
released the mutex. `PhotoWall` extends `ThreadPool`: handlers that post (`InsertPhoto`, `ReadBack`, or `QueryPhoto`,
`UpdatePhoto`, then `Submit`), jobs that fetch an image and may fail (`RunJob`), the exit of the server (`Exit`) and
the end of the process at any moment (`EndProcess`), and the start that submits what is missing (`Restart`, `Backfill`).
A url may be missing, which is the empty one (`NoUrl`): then nothing is submitted, and the photo keeps the dimensions it has.
Reading the new row back, looking for the old url and updating the row may fail (`UpdateFails` answers with the error).
The dimensions of an image are named by its url, so "right" is `dims[p] = url[p]`, for a photo with a url. `excused` collects the photos whose dimensions
may rightly be old: two posts or jobs of one photo overlapped, two inserts of one url included, of which both read the newest row back; the
image could not be fetched; one of the two queries failed; the
database was deleted before the pool had ended; or the process died before *new* dimensions of a photo that had some were stored - the start
only looks for photos without any.

## 3. Runs

| run | instance | distinct states | checks |
|---|---|---|---|
| `tcp_server` (MCTcpServer.cfg) | 2 connections, 2 handles, 1 sub-loop, symmetric | 1.3 million | `TypeOK`, `OpenIsFiled`, `ClosedBeforeDestroyed`, `FiledUnderItsHandle`, `NotDeaf` |
| `tcp_server_live` (MCTcpServerLive.cfg) | 1 connection, 1 handle, 1 sub-loop | 7 thousand | `GoneIsClosed`, `StopReturns` |
| `tcp_server_destroyed` (MCTcpServerDestroyed.cfg) | same | counterexample | `DestructorAssertion` |
| `tcp_server_off_loop` (MCTcpServerOffLoop.cfg) | same | counterexample | `OffLoopOnlyAtStop` |
| `tcp_server_silent` (MCTcpServerSilent.cfg) | same | counterexample | `SilentIsTimedOut` |
| `router` (MCFRouter.cfg) | 2 routing threads (symmetric), 1 administrator, 2 controllers, 3 patterns, 2 paths | 5.8 million | `TypeOK`, `QueueComplete`, `CacheAgrees`, `ResultIsBest` |
| `router_live` (MCFRouterLive.cfg) | 2 routing threads, 1 administrator, 1 controller, 2 patterns, 1 path | 0.1 million | `RouteReturns`, `UnregReturns` |
| `router_404` (MCFRouter404.cfg) | 2 routing threads, 1 administrator, 3 patterns, 1 path | counterexample | `RegisteredIsRouted` |
| `http` (MCFHttp.cfg) | HTTP/1: 1 or 2 requests out of 6 scripts, pipelined or not; HTTP/2: 3 client streams, limit 2, 1 promise | 0.4 million | HTTP/1: `Http1TypeOK`, `CutsDoNotMatter`, `AnswersArrive`, `DataAfterClose`, `ClosedAfterAnswer`, `WaitingIsAnswered`, `TimedOutIsClosed`; HTTP/2: `Http2TypeOK`, `CountersMatch`, `PointersAreValid`, `WithinLimit`, `AnsweredOnce`, `ContextLifetime` |
| `http_pop` (MCFHttpPop.cfg) | same scripts | counterexample | `PopWithinBuffer` |
| `services` (MCServices.cfg) | 2 logins, 1 session, 2 failures allowed, clock to 2; 2 editors, 2 readers, 4 edits; 2 handlers, 2 photos, 2 urls and none, 2 workers, 4 jobs, 1 death; 4 threads at the lock of a map | 0.24 million | `LimitIsSeen`, `EarlyUnlockIsARace`, `SweepSparesSeen`, `SessionsExpire`; `StaleIsMarked`, `FeedIsFresh`; `NoTaskForgotten`, `PoolKeepsPromise`, `JobsEnd`, `DimsFollowUrl`; `MapTypeOK`, `Exclusion`, `Implements`, `WritersGetIn` |
| `login_lock` (MCLogin.cfg) | 2 logins, 2 failures allowed, clock to 3 | counterexample | `LockHolds` |

`http` and `services` put together modules that have no variable in common: a
connection speaks one protocol, and logins, feed, photos and the lock of a map do not meet, so each
behaviour is a behaviour of one of them.

**Why the bounds are enough.** *tcp_server*: what one connection can do to another goes
through a handle that is used again, or through the order of two events of one
round: two connections and two handles have both (one closes, its handle is
given to the other, the late `onClose` of the first arrives; both die in one
round). Connections of different sub-loops share the table only, and the table is touched
in single steps; the proofs cover any number of sub-loops.
No counter needs a bound: a
round queues at most a few tasks per connection, and its `Tick` takes them all.
Deadlock is not checked: after `stop()`, or when the process has ended, nothing happens.
*tcp_server_live*: `GoneIsClosed` is about one connection, and `StopReturns` about one entry and the
loops; a second connection adds steps but no new way of waiting.
*router*: three patterns of which two have equal priorities and two match
the same path, so both the order and the search for a free priority matter; two routing threads, because
the flag is shared.
*router_live*: leaves out the second controller, which only lengthens the queue.
*http*: what one request can do to the next goes through the parser, the flag and the two
buffers: two requests, with and without a body, a close, a bad line, a zero byte and a wrong length, have each of these; every
cut of their pieces and every partial send occurs. Of HTTP/2, three streams over a limit of two have a stream
refused while answers wait, one answered while another is reset, and a promise between them; the proofs cover any number.
Deadlock is not checked: a closed connection stops.
*services*: two threads of each kind have every overlap of the steps of one operation; two failures allowed means one may
be counted between another's test and reset; four edits let two rebuilds pass each other with an edit behind each.
`MaxPosts`, `MaxJobs`, `MaxDeaths`, `MaxClock` and `MaxVersion` only end the behaviours, after at least two posts of a photo, a death and a
backfill; a job that would exceed `MaxJobs` does not occur within `MaxPosts` and `MaxDeaths`. The urls are two and the empty one. Of the map, any four threads
have every overlap of the counters: a writer leaving while another drains, a reader entering while another leaves. Deadlock is
checked; the photos, where nobody has to post, may rest.
*login_lock*: two logins and two failures are the least that has a lock and a request beside it.

**What they show.** `OpenIsFiled`, `ClosedBeforeDestroyed` and `FiledUnderItsHandle`:
although the listener files a connection after the sub-loop may have
served it, and although `onClose` erases by handle without looking at the connection, the
table never loses an open connection, and never keeps a dead one; the
reason is that a handle is not reused before its connection is destroyed, and
the table keeps it alive. `NotDeaf`: no path leaves an open connection with
reading off and nobody to switch it on. `GoneIsClosed`, `StopReturns`: see section 4.
`Implements`: the lock is a readers-writers lock with the writers' preference. `WritersGetIn`: an announced
writer, or another, gets in, because no new reader is let in; readers have no such property,
and a stream of writers starves them. `QueueComplete`: no pattern is lost to
another one of the same priority, none outlives its controller.
`CacheAgrees`, `ResultIsBest`: whatever the sweep does, and in whatever state
of it a route arrives, the answer is the best pattern or nothing.
`RouteReturns`, `UnregReturns`: the spinning on the two flags ends.
`CutsDoNotMatter`, `AnswersArrive`, `ClosedAfterAnswer`, `WaitingIsAnswered`: for a client that
waits for its answers, the parser and the send path do what they should, whatever TCP does to the bytes - except
for bodies with zero bytes, and after the second `Pop`. A client that pipelines loses requests, so the first
and the last are not about it. `TimedOutIsClosed`: the idle timer is armed again each time
`handleTcpIdle` decides to wait, so the longer limit is acted upon once a connection has no further event; while it has events
nothing is promised. `ClosedAfterAnswer`: a write-complete task finds the client with every answer it was to get, not just an empty
buffer - but for the second `Pop`, which may empty the buffer of bytes that were never sent. `DataAfterClose`: the write-complete task, which looks
for the data as well, never comes after a close; an idle timer already taken may. `WithinLimit`, `AnsweredOnce`, `PointersAreValid`: the strict comparison of
`on_begin_headers_callback` never matters, because nghttp2 was told the limit; inserting promises during the
traversal is harmless, because it skips them and insertion moves no entry of a `std::map`.
`ContextLifetime`: the context is used after its deletion in one way only, `handleTcpIdle` with
`mHttp2CloseImm` (FHttpServer.cpp:281-293), and is made anew for a closed connection, and leaked, in one way only, a write-complete
task of the GOAWAY that was sent when idle. `LimitIsSeen`: no parallel failure overlooks a count at the
limit; what it does not say is that a lock follows, and `login_lock` shows that none may.
`EarlyUnlockIsARace`: besides its end, a lock has two ways out that the code leaves open, a login that had judged
by an older time, and one that looks between the flag and the time; both are against the guide (section 6), and there is no third.
`SweepSparesSeen`: of the sessions that were there when the sweep read the clock, none ends early; one opened after that looks immensely
old and is ended at once, against the guide. `DimsFollowUrl`: the start makes up for the first
dimensions of a photo, not for changed ones.

## 4. Fairness

- `TcpServer`: weak fairness of the listener, of each sub-loop and of the caller
  of `stop()`. They are threads the system schedules; `epoll_wait` has a timeout, the
  mutexes are held for short sections, and `stop()` polls. Clients, and whoever decides to stop,
  owe nothing, nor do idle timers, which every event arms anew. Only `tcp_server_silent` has more than the code gives
  (`TimerSpec`, strong fairness of `Tick` taking an armed timer): even so a silent client is not timed out. The process may end (`fault`); nothing is promised then.
- The lock of the maps (`MapFairness` of `MCServices`): weak fairness of each thread inside an operation, so a traversal ends. Nothing
  is asked of the mutexes: a thread that finds one taken again and again may wait for ever.
- `FRouter`: weak fairness of each routing thread and administrator once its
  operation has begun, and of a sweep that has begun. `RouteReturns` is about a
  route past the gate: at the gate it may lose every race against unregistering.
- `FHttp1`: weak fairness of the sub-loop and of `IdleTick`. A timer that is armed anew by every event need not ever expire
  (`resetIdle` starts the whole period again), so nothing more than weak fairness is justified: a connection without
  further events has its timer taken, one with events may not. `TimedOutIsClosed` therefore excuses rounds with
  events. The client sends when it likes and the clock owes nothing: `WaitingIsAnswered` speaks of what it has sent,
  `TimedOutIsClosed` of a time that has passed. A write that the network never takes is excused (`writing`).
- `AdminLogin`: weak fairness of the sweep, which the main thread runs every twenty seconds. Nobody has to log in.
- `PhotoWall`: weak fairness of each handler and worker with something to do, of the notification that
  `submit()` owes, of the restart and its backfill. Nobody has to post, stop or die; a condition variable does
  not have to wake up without a reason.

`FHttp2` and `RssBuilder` have safety properties only.

## 5. Proofs

All assumptions are those named in the modules: a positive number of sub-loops,
finitely many threads in a map and in the login, finitely many streams and a positive limit, a word that is longer than any
age, times and bounds that are numbers, scripts that end with the first zero byte, and null values that are not values. Two theorems
have a hypothesis of their own: `RouterQueueComplete`, one administrator at a time, and `RouterLosesToSweepOnly`, a sweep that spares what routes are about to take.

**TcpServerProofs** (`TypeCorrect`, `OwnershipHolds`, `NeverDestroyedOpen`,
`NeverUnfiled`, `NeverMisfiled`, `NeverDeaf`, `OffLoopIsOwnOrStop`, `StopLeavesOnlyTasks`). For any connections, handles and sub-loops.
The safety invariants are not inductive one by one. `onClose` erases the
entry of a *handle*: that this is the closing connection's own entry, so that no
other open connection leaves the table, needs `FiledUnderItsHandle` and
`HandlesDistinct`. That `makeConn` may take a handle again
needs that nobody points to a connection that is not alive (`HeldIsAlive`), or the
table could still show the old one. That a function of the current round has a live connection needs
`BatchIsHeld`. That `insert`, which keeps an existing entry, finds none needs
`NotFiledYet` besides. Their conjunction with
`TypeOK` is `IInv`; there is a lemma per group of actions (peer, listener,
events, functions, stop), and lemmas for what they share: `OwnershipStep` reduces a
step to what it does to `Held`, the states and the table, `CloseTakesItsOwn` is the
argument about handles, `AppendTask` and `FirstTask` are about task queues.
`NotDeaf` has an invariant of its own, `Hearing`: `Tick` puts the queue in the place of the
last round's tasks, so there must be none left (`BatchOnlyInFuncs`), or the task that
starts a reading could be thrown away. Each step then either stops only the reading of what it closes
(`KeepsReading`) and loses no such task without running it (`KeepsPending`), or is `makeConn`.
The last two are about what ends a connection. A connection that is alive is pointed to (`AliveIsHeld`): a step that drops pointers runs the
destructors, `Tick` hands those of the queue to the round (it holds none, `HeldInFuncs`), and `makeConn` finds the listener's own pointer free
(`CurInAccept`). So what `onNewConnIn` destroys when it returns is its own connection, which `ClosedBeforeDestroyed` says is closed; and
after `stop()`, whose order is `StopOrder`, only tasks that were never run are left to hold one.

**FConcurrentMapProofs** (`TypeCorrect`, `ExclusionHolds`, `Refinement`). For any finite
set of threads. `Exclusion` needs that the counters count (`CountsCount`: the
cardinalities of the sets of counted readers and announced writers), who holds which
mutex (`MutexesHeld`), and that no reader is counted from the moment a writer has seen
the readers drained until it withdraws (`DrainedStays`): a reader counts itself only under
`mWriteMutex` after reading the writers' counter, and the writer is still in it. The refinement
maps every step to a step of `ReadersWriter` or a stutter, from the same invariant.

**FRouterProofs** (`RouterTypeOK`, `RouterCacheAgrees`, `RouterResultIsBest`, `RouterLosesToSweepOnly`, `RouterQueueComplete`). For any patterns, paths, threads and
controllers. The strengthening follows a traversal (`RouteAgrees`): entries it has passed do not match the path, so the first
that does wins; while a controller is being erased nobody routes and the caches are empty (`Erasing` in `Agree`). All of it is claimed of
the behaviours that are not `raced`. Types need that the queue is finite with distinct priorities (`QueueInv`): then the
search for a free priority ends in a natural number, and a traversal that is not at its end has a next entry. Both are
shown by the smallest counterexample, for which the library has a theorem that takes no operator. `RouterLosesToSweepOnly` is about
`RegisteredIsRouted`, which section 6 refutes: under the hypothesis that a sweep spares the entries of routes that are between their two lookups
(`SweepSparesHits`, which the code does not see to) it holds, for a route has found what it will take, or has passed every entry (`FindsAll`). `RouterQueueComplete` says of the
table what it is in the middle of an operation (`TableInv`): while a controller is registered the queue lacks the patterns that are still to be inserted
(`Missing`), and the priority about to be used is free; while one is unregistered the priorities to be erased are those of its entries and of
no others (`Unregistering`), which needs `Distinct`. Two administrators may take the same free priority, and `insert()` then
drops a pattern: with two the property is false, so the hypothesis is needed.

**FHttp1Proofs** (`Http1DataAfterClose`, `Http1ClosedAfterAnswer`, `Http1Types`, `Http1Cuts`, `Http1AnswersArrive`). For any scripts. The first two
rest on the order of a round: a write-complete
task is queued by an answer that left nothing in the buffer, and from then on the round has nothing to read and no close to handle
(`CompleteIsLast`), so the task finds the connection open and the buffer still empty; a closed connection has no events and no tasks (`ClosedIsQuiet`), so
only a timer that was taken is left to make data. That an empty buffer means that the client has every answer is `AnswersArrive`, and that the
last answered request asked to close is what `shouldKeepAlive` remembers (`CloseAsked`).
The other three rest on where the parser is in what the client sends. The input buffer, what has arrived and the client's next piece follow each other
(`InOrder`), so the first of them, `ToRead`, stands for all, and no sequence has to be looked at piece by piece. `InStep` relates the parser's state to that piece:
in the headers it is a header of the same request, in the body the byte after `bodyBytesRead`. This is inductive only with its
exceptions: the piece that ends `parse()` is lost, so a pipelined request may lack its first byte, and a body with a zero byte never ends.
`Http1Types` needs it because a parser out of step could count a body past its length. For a client that waits, `WaitingInv` adds that nothing
of the request after the next is on its way (`InTime`), which needs that the answers received and waiting are no more than those of the handled requests (`NotTooMuch`).
Then a finished parser has read everything, the piece lost with it is none, the request handled next is the one after the last (`AtNext`), and after one that
asks to close the parser stays `Done` with nothing to read until the connection is closed (`LastAnswer`, `Closing`). `Http1AnswersArrive` follows a send: what goes out and what is kept
are the answer, in order (`SendParts`), and the answers to one request more are the answers so far and that one (`AnswersNext`).

**FHttp2Proofs** (`Http2Types`, `Http2Counters`, `Http2Pointers`, `Http2Limit`, `Http2Answers`, `Http2Context`). For any
finite sets of streams and any positive limit. The strengthening: a stream nghttp2 has not seen has no answer (`AnswersFollow`), the traversal
leaves nothing finished behind its cursor (`Traversed`), and a completed write is either looked for in the round that queued it or comes
after GOAWAY (`FlagInv`). Counters and limit are cardinality arguments about what a closed set of streams leaves behind (`CloseCounts`)
and what room the limit leaves for one more (`RoomForOne`).

**AdminLoginProofs** (`LoginTypes`, `LoginLimit`, `LoginUnlock`, `LoginSweep`). For any finite set of threads and any times. `LimitIsSeen` is a counting
argument: each step that raises the count adds its thread to `Acting`, each that leaves `Acting` has reset the count or seen it
below the limit. `SweepSparesSeen` needs what `toErase` was collected from (a session's time does not change while it is there) and
that the unsigned difference is the difference when it is not negative: this is what the assumption on `Word` is for. `EarlyUnlockIsARace` needs
`LockIsStamped`: the time of the lock is no older than the lock unless a login has still to set it, and a login that found the time passed
judged by a time that has.

**RssBuilderProofs** (`RssInvariant`, `RssStaleIsMarked`, `RssFeedIsFresh`). For any handlers and any number of edits. The last two are stated for behaviours
in which no edit is `missed` at the moment: what an edit marked behind a rebuild, feeds published out of order or an unmarked category lead to is
not covered. The strengthening follows a
rebuild: what it has read is as new as the marked edits (`ReadWhatIsMarked`), what it has not read has still to be marked
(`UnreadIsUnmarked`), what it has published stays (`PublishedStays`).

**PhotoWallProofs** (`PoolForgetsNothing`, `PoolRefines`, `PhotoUsesPool`, `PhotoDims`). For any workers, jobs, handlers, photos and urls. No wakeup is lost because a worker tests the
queue under the mutex before it waits, and a notification that is owed is counted; a worker is gone only
when the queue is empty and stays so. The refinement maps every step to a step of `JobQueue` or a stutter; it needs that a
job is in one place only. Every step of the photo wall is a step of its pool or a stutter
(`PhotoUsesPool`): a task is submitted once, and only to a pool that is not being destroyed; so what is proved of the pool holds in the composition. `PhotoDims` follows one photo. While it
is not excused, at most one of a handler, a task or the start is on its way for it (`Alone`), and if one is, it carries the url the photo has, or the
dimensions are right already; a photo without a url claims none (`Heads`). Most steps leave a photo alone (`RestStaysTidy`); those that touch it hand it on.

**Only model-checked**: the counterexamples of section 6, and everything
temporal (`GoneIsClosed`, `StopReturns`, `WritersGetIn`, `RouteReturns`, `UnregReturns`, `WaitingIsAnswered`, `TimedOutIsClosed`,
`SessionsExpire`, `JobsEnd`): liveness under fairness is out of the prover's reach. Every invariant and every action property of the passing
runs is a theorem. No module with a theorem declares a RECURSIVE operator.

## 6. Disagreements found

1. `assert(mstate == DisConnected)` in `~FTcpConnection` (FTcpConnection.cpp:31)
   fails during a graceful `stop()`: the table is emptied while a task of the
   sub-loop holds the last pointer to an open connection (`tcp_server_destroyed`).
2. "Only happened when Server is closed" (FTcpConnection.cpp:35) is not so: a
   connection closed before `onNewConnIn` returns is destroyed by the listener
   thread (`tcp_server_off_loop`). There is no other way (`OffLoopIsOwnOrStop`).
3. "if the time is out, the connection will be closed" (FHttpServer.h:80-81) does not
   hold for a client that connects and sends nothing: the idle timer is armed after
   an event of the connection only (`tcp_server_silent`).
4. A registered path (docs/guide.md:229 for the home page) is answered with
   404 when the sweep erases its cached route between the two lookups of
   `getRouteInCache` (`router_404`). Unless the table changes under a route there is no other way
   (`RouterLosesToSweepOnly`).

5. `assert(0)` in `FBuffer::Pop` (FBuffer.cpp:64-65) fails when a waiting answer goes out by more than half:
   `FBuffer::Write` pops what it has sent (FBuffer.cpp:44), and `handleWrite` pops it again
   (FTcpConnection.cpp:256); when less goes out, bytes are skipped (`http_pop`).

6. "After five failures in a row the account is locked for 60 minutes" (docs/guide.md:253, docs/API.md:21, 174). A login sets
   the flag (AdminLogin.cpp:247) before the time (:248), and a request that comes in between judges the new lock by the time of the one before,
   or of none, and lifts it: the account is open at once (`login_lock`). A request that judged just before by the older time
   does the same. The reset of the count (:46) that follows an unlock also takes away failures that were counted
   since, so that five of them in a row may lock nothing. `EarlyUnlockIsARace` says that there is no other way to unlock early.

Read in the code while modelling, without a run of their own:

- A session opened after the sweep has read the clock is ended by that sweep, because its age is an unsigned difference
  (Session.cpp:112), although a session is to last `SessionHoldTime` (docs/guide.md:252, docs/API.md:20,
  Server/doc/CONFIGURATIONS.md:23-24). It is the exception of `SweepSparesSeen`.
- A client that sends a byte now and then is never timed out, however long its request takes: every event starts the whole idle period again
  (FTcpConnection.cpp:321-330), and only the idle callback looks at the time. FHttpServer.h:80-86 says
  that the connection is closed when the time is out. `TimedOutIsClosed` excuses connections with events.
- An idle timer that was taken in the round in which its connection is closed makes the connection's data anew
  (FHttpServer.cpp:28-34, 238), and nothing deletes it: `DataAfterClose`.
- A Content-Length whose number is too large throws in the parser (FHttpRequestParser.cpp:157-158); nobody catches it.
- A connection that is closed before `onNewConnIn` has filed it is filed all the same (FTcpServer.cpp:184-188), and stays, with its socket, until
  `stop()`. `OpenIsFiled` and `FiledUnderItsHandle` allow a closed connection in the table.

- `ImageDimReader.cpp:621` says that the caller stores 0/0 when an image cannot be read; no caller does: the
  photo keeps the dimensions it had.
- CONFIGURATIONS.md:26-27 lets `TemplateCacheTime` decide how soon edits of templates take effect. The value is read into a
  local that nobody uses (TemplateRender.cpp:15-23); templates stay in the file cache, which is refreshed at every
  use, so a template in constant use is not read again until the server restarts.
- A POST over HTTP/2 with a content-length of zero is never finished and never answered (FHttp2Helper.cpp:873-879): in
  `FHttp2` the kind "zero" stays unfinished, and `AnsweredOnce` speaks of finished requests.
- A rename or removal of a category never marks the feed that names it (AdminLogin.cpp:302, 319): `EditCategory`.

## 7. Possible extensions

1. The file cache: the sweep of `AdminLogin` over entries that each use refreshes.
2. The HTTP connection under the connection of `TcpServer`, in place of the choices made there. The two agree on rounds, callbacks and tasks;
   the product is beyond TLC at the bounds that matter, so it would be a refinement of the choices.
3. Start-up of the server: accepting before the sub-loops exist.

## 8. Not modelled

Most of the lines of the repository are vendored: SQLite, stb, miniz, wepoll, the font baker, next to some fifteen
thousand of its own. What they do is external here.

| part | why |
|---|---|
| `run()`, `stop(true)`, listen ports | start-up precedes the model; nothing in the tree removes a port, and `stop(true)` comes after a graceful stop |
| loop close callbacks, `EINTR`/`EAGAIN` | no effect on what the properties tell apart |
| contents of the maps, TBB's own locks | external library |
| `lateInit`, path variables, `invalidCache` of the router | once before serving; formatting; no caller |
| path matcher | translates patterns to RE2 expressions: strings; its result is the constant `Matches` |
| TLS, logger, configuration, sockets | wrappers of libraries and of the system |
| nghttp2 | external: the choices of `FHttp2` |
| blocking queues | no user in the tree |
| file cache, templates, view counters | the same sweep as that of the sessions; text; sums without a reader |
| database access | builds queries; what matters happens in SQLite |
| other controllers | one handler per page, formatting over the services |

------------------------------- MODULE FHttp2 -------------------------------
(***************************************************************************)
(* One HTTP/2 connection of FHttpServer and its FHttp2Context.             *)
(*                                                                         *)
(* nghttp2 is external: the variable session is the state it keeps of each *)
(* stream, hasData the streams with a user data pointer.  It calls back    *)
(* for each frame of a read, refuses streams above the limit it was told,  *)
(* opens a promised stream when the promise is submitted, and calls        *)
(* on_stream_close_callback for whatever it closes.  How much of an answer *)
(* http2SendProcess gets out depends on the client's windows.              *)
(***************************************************************************)
EXTENDS Integers, FiniteSets

CONSTANTS ClientStreams,  \* odd stream identifiers, as many as are looked at
          PushStreams,    \* even ones: as many promises as are looked at
          MaxStreams,     \* s_maxConcurrentStream
          Kinds           \* what a request says of its body

Streams == ClientStreams \cup PushStreams

ASSUME StreamsAssumption ==
  /\ IsFiniteSet(ClientStreams) /\ IsFiniteSet(PushStreams)
  /\ Streams \subseteq Nat \ {0}
  /\ ClientStreams \cap PushStreams = {}
ASSUME MaxStreamsAssumption == MaxStreams \in Nat \ {0}
\* No content-length, one of zero, one that counts the bytes that follow.
ASSUME KindsAssumption == Kinds \subseteq {"noLength", "zero", "length"}

VARIABLES
  session,     \* nghttp2: state of each stream
  hasData,     \* nghttp2: streams with a pointer to their Http2StreamData
  goawaySeen,  \* nghttp2: a GOAWAY frame is on its way, new streams are ignored
  submitted,   \* nghttp2: streams with an answer to be sent
  mapped,      \* keys of mStreamDataMap
  kind,        \* what the headers of each client stream say of its body
  finished,    \* streams with parser.isFinish()
  processed,   \* streams with processed
  openedStreams, serverOpenedStreams, mHasGoawaySent, enablePush,
  h2phase,     \* "idle", or the step of http2Process
  cursor,      \* the stream that traversalFinishedStreams has reached
  h2open,      \* the connection
  context,     \* an FHttp2Context hangs on the connection
  completion,  \* write-complete tasks are queued
  mHttp2CloseImm,
  answers,     \* history: how often an answer was submitted on each stream
  usedAfterDelete  \* history: the context was used after it was deleted

nghttp2Vars == <<session, hasData, goawaySeen, submitted>>
streamVars  == <<mapped, kind, finished, processed, openedStreams, serverOpenedStreams>>
connVars    == <<h2open, context, completion>>
http2Vars   == <<nghttp2Vars, streamVars, mHasGoawaySent, enablePush, h2phase, cursor,
                 connVars, mHttp2CloseImm, answers, usedAfterDelete>>

Http2Init ==
  /\ session = [s \in Streams |-> "idle"]
  /\ hasData = {}
  /\ goawaySeen = FALSE
  /\ submitted = {}
  /\ mapped = {}
  /\ kind = [s \in ClientStreams |-> "none"]
  /\ finished = {}
  /\ processed = {}
  /\ openedStreams = 0
  /\ serverOpenedStreams = 0
  /\ mHasGoawaySent = FALSE
  /\ enablePush \in BOOLEAN
  /\ h2phase = "idle"
  /\ cursor = 0
  /\ h2open = TRUE
  /\ context = TRUE
  /\ completion = FALSE
  /\ mHttp2CloseImm \in BOOLEAN
  /\ answers = [s \in Streams |-> 0]
  /\ usedAfterDelete = FALSE

-----------------------------------------------------------------------------
(* The callbacks of nghttp2 *)

Live(s) == session[s] \notin {"idle", "closed"}

\* Wrong on purpose: only streams that were answered are known.
KnownAnswered(S) == S \cap processed

\* Those that have a user data pointer.
Known(S) == S \cap hasData

\* Wrong on purpose: every stream is taken for one the client opened.
OpenedByAnyone(S) == S

\* ~isServerOpen
OpenedByClient(S) == S \cap ClientStreams

\* on_stream_close_callback, for each of the streams S.
OnStreamClose(S) ==
  LET known == Known(S)
      ofClient == OpenedByClient(known)
  IN
  /\ mapped' = mapped \ known
  /\ openedStreams' = openedStreams - Cardinality(ofClient)
  /\ serverOpenedStreams' = serverOpenedStreams - Cardinality(known \ ofClient)
  /\ hasData' = hasData \ S
  /\ finished' = finished \ S
  /\ processed' = processed \ S
  /\ kind' = [s \in ClientStreams |-> IF s \in S THEN "none" ELSE kind[s]]

CloseStreams(S) ==
  /\ session' = [s \in Streams |-> IF s \in S THEN "closed" ELSE session[s]]
  /\ submitted' = submitted \ S
  /\ OnStreamClose(S)

\* Wrong on purpose: the settings do not limit the streams.
ToldLimitNone == Cardinality(ClientStreams)

\* submit_settings
ToldLimit == MaxStreams

\* nghttp2 passes on the headers of a new stream unless it has sent GOAWAY or as
\* many as it may have are open.
Accepted == ~goawaySeen /\ Cardinality({t \in ClientStreams : Live(t)}) < ToldLimit

\* on_begin_headers_callback, the callbacks for each header, and
\* on_frame_recv_callback with onHeaderFinish: without content-length the request
\* is finished; with one it waits for the data.
OnHeaders(s, k) ==
  /\ mapped' = mapped \cup {s}
  /\ hasData' = hasData \cup {s}
  /\ openedStreams' = openedStreams + 1
  /\ kind' = [kind EXCEPT ![s] = k]
  /\ finished' = IF k = "noLength" THEN finished \cup {s} ELSE finished

\* The server's own limit, where on_begin_headers_callback gives up.
TooMany == openedStreams > MaxStreams

RecvHeaders(s, k, end) ==
  /\ h2phase = "recv"
  /\ \A t \in ClientStreams : t >= s => session[t] = "idle"
  /\ end => k # "length"
  /\ IF Accepted /\ ~TooMany
     THEN /\ OnHeaders(s, k)
          /\ session' = [session EXCEPT ![s] = IF end THEN "halfRemote" ELSE "open"]
          /\ UNCHANGED <<goawaySeen, mHasGoawaySent>>
     ELSE /\ session' = [session EXCEPT ![s] = "closed"]
          /\ mHasGoawaySent' = (mHasGoawaySent \/ Accepted)
          \* nghttp2 resets a stream too many, or ends the session with GOAWAY.
          /\ goawaySeen' \in {goawaySeen \/ Accepted, TRUE}
          /\ UNCHANGED <<mapped, hasData, openedStreams, finished, kind>>
  /\ UNCHANGED <<submitted, processed, serverOpenedStreams, enablePush, h2phase, cursor,
                 connVars, mHttp2CloseImm, answers, usedAfterDelete>>

\* appendData: the bytes that content-length counts are there.
WholeBody(s, whole) == kind[s] = "length" /\ whole

\* DATA; nghttp2 resets a stream that ends before its body does.
RecvData(s, whole, end) ==
  /\ h2phase = "recv"
  /\ session[s] \in {"open", "halfLocal"}
  /\ (end /\ kind[s] = "length" /\ s \notin finished) => whole
  /\ IF end /\ session[s] = "halfLocal"
     THEN CloseStreams({s})
     ELSE /\ session' = [session EXCEPT ![s] = IF end THEN "halfRemote" ELSE @]
          /\ finished' = IF WholeBody(s, whole) THEN finished \cup {s} ELSE finished
          /\ UNCHANGED <<kind, mapped, openedStreams, serverOpenedStreams, hasData, submitted,
                         processed>>
  /\ UNCHANGED <<goawaySeen, mHasGoawaySent, enablePush, h2phase, cursor, connVars,
                 mHttp2CloseImm, answers, usedAfterDelete>>

RecvRst(s) ==
  /\ h2phase = "recv"
  /\ Live(s)
  /\ CloseStreams({s})
  /\ UNCHANGED <<goawaySeen, mHasGoawaySent, enablePush, h2phase, cursor, connVars,
                 mHttp2CloseImm, answers, usedAfterDelete>>

\* on_settings.  enablePush stands for both the client's word and the server's.
RecvSettings ==
  /\ h2phase = "recv"
  /\ enablePush' = ~enablePush
  /\ UNCHANGED <<nghttp2Vars, streamVars, mHasGoawaySent, h2phase, cursor, connVars,
                 mHttp2CloseImm, answers, usedAfterDelete>>

-----------------------------------------------------------------------------
(* http2Process *)

BeginRead ==
  /\ h2phase = "idle" /\ h2open
  /\ h2phase' = "recv"
  /\ UNCHANGED <<nghttp2Vars, streamVars, mHasGoawaySent, enablePush, cursor, connVars,
                 mHttp2CloseImm, answers, usedAfterDelete>>

\* http2SendProcess gets all of the answers out to their end: a request that has
\* ended closes its stream, a promised stream closes, the others wait for the
\* client.  send() queues the write-complete task if the socket takes it all.
SendProcess(out) ==
  LET ended == {s \in out : session[s] \in {"halfRemote", "reserved"}} IN
  /\ session' = [s \in Streams |->
                   IF s \in ended THEN "closed" ELSE IF s \in out THEN "halfLocal" ELSE session[s]]
  /\ OnStreamClose(ended)
  /\ submitted' = submitted \ out
  /\ completion' \in {completion, TRUE}

EndRecv ==
  /\ h2phase = "recv"
  /\ \E out \in SUBSET submitted : SendProcess(out)
  /\ h2phase' = "handle"
  /\ cursor' = 0
  /\ UNCHANGED <<goawaySeen, mHasGoawaySent, enablePush, h2open, context,
                 mHttp2CloseImm, answers, usedAfterDelete>>

\* Wrong on purpose: nobody looks whether the stream was processed.
ReadyToHandleAgain(s) == s \in finished

\* What traversalFinishedStreams asks of a stream of the client.
ReadyToHandle(s) == s \in finished /\ s \notin processed

\* The streams the traversal of mStreamDataMap has yet to reach.
Waiting == {s \in mapped \cap ClientStreams : s > cursor /\ ReadyToHandle(s)}

IdlePushes == {p \in PushStreams : session[p] = "idle"}

\* perStream: answer it, and promise what the push map has for its path.
Handle(s, pushes) ==
  /\ h2phase = "handle"
  /\ s \in Waiting /\ \A t \in Waiting : s <= t
  /\ pushes # {} => enablePush
  /\ \A p \in pushes, q \in IdlePushes \ pushes : p < q
  /\ session' = [t \in Streams |-> IF t \in pushes THEN "reserved" ELSE session[t]]
  /\ hasData' = hasData \cup pushes
  /\ mapped' = mapped \cup pushes
  /\ serverOpenedStreams' = serverOpenedStreams + Cardinality(pushes)
  /\ submitted' = submitted \cup {s} \cup pushes
  /\ processed' = processed \cup {s}
  /\ answers' = [t \in Streams |-> IF t \in pushes \cup {s} THEN answers[t] + 1 ELSE answers[t]]
  /\ cursor' = s
  /\ UNCHANGED <<goawaySeen, kind, finished, openedStreams, mHasGoawaySent, enablePush,
                 h2phase, connVars, mHttp2CloseImm, usedAfterDelete>>

\* Wrong on purpose: tasks queued by the events are left for the next round.
AfterEventsLate == "idle"

\* Tick follows the events in the same round.
AfterEvents == "tasks"

EndHandle ==
  /\ h2phase = "handle"
  /\ Waiting = {}
  /\ \E out \in SUBSET submitted : SendProcess(out)
  /\ h2phase' = AfterEvents
  /\ UNCHANGED <<goawaySeen, mHasGoawaySent, enablePush, cursor, h2open, context,
                 mHttp2CloseImm, answers, usedAfterDelete>>

\* handleTcpWriteComplete: keep-alive is always set here, but looking for it
\* attaches a context where there is none.
RunTasks ==
  /\ \/ h2phase = "tasks"
     \/ h2phase = "idle" /\ completion
  /\ h2phase' = "idle"
  /\ completion' = FALSE
  /\ context' = (context \/ completion)
  /\ UNCHANGED <<nghttp2Vars, streamVars, mHasGoawaySent, enablePush, cursor, h2open,
                 mHttp2CloseImm, answers, usedAfterDelete>>

-----------------------------------------------------------------------------
(* The end of the connection *)

\* handleClose; handleTcpConnClosed deletes the context with all it knows.
DropConnection ==
  /\ h2open' = FALSE
  /\ context' = FALSE
  /\ session' = [s \in Streams |-> "closed"]
  /\ hasData' = {} /\ submitted' = {} /\ mapped' = {} /\ finished' = {} /\ processed' = {}
  /\ kind' = [s \in ClientStreams |-> "none"]
  /\ openedStreams' = 0 /\ serverOpenedStreams' = 0

\* The client closes or resets, or nghttp2 said so to the client.
PeerCloses ==
  /\ h2phase = "idle" /\ h2open
  /\ DropConnection
  /\ h2phase' = AfterEvents
  /\ UNCHANGED <<goawaySeen, mHasGoawaySent, enablePush, cursor, completion,
                 mHttp2CloseImm, answers, usedAfterDelete>>

\* handleTcpIdle, when the time for a request has passed: close at once or drain.
\* After forceClose the code goes on to submit GOAWAY to the context, unless the
\* time of the connection has passed too.
RunIdleH2(isTimeOut) ==
  /\ h2phase = "idle" /\ h2open
  /\ IF mHttp2CloseImm \/ isTimeOut
     THEN /\ DropConnection
          /\ usedAfterDelete' = ~isTimeOut
          /\ UNCHANGED <<goawaySeen, mHasGoawaySent, completion>>
     ELSE /\ goawaySeen' = TRUE
          /\ mHasGoawaySent' = TRUE
          /\ \E out \in SUBSET submitted : SendProcess(out)
          /\ UNCHANGED <<h2open, context, usedAfterDelete>>
  /\ UNCHANGED <<enablePush, h2phase, cursor, mHttp2CloseImm, answers>>

-----------------------------------------------------------------------------
RecvFrame ==
  \/ \E s \in ClientStreams, k \in Kinds, end \in BOOLEAN : RecvHeaders(s, k, end)
  \/ \E s \in ClientStreams, whole, end \in BOOLEAN : RecvData(s, whole, end)
  \/ \E s \in Streams : RecvRst(s)
  \/ RecvSettings

Http2Process ==
  \/ EndRecv
  \/ \E s \in ClientStreams, pushes \in SUBSET IdlePushes : Handle(s, pushes)
  \/ EndHandle
  \/ RunTasks

Http2Next ==
  /\ ~usedAfterDelete
  /\ \/ BeginRead \/ RecvFrame \/ Http2Process \/ PeerCloses
     \/ \E isTimeOut \in BOOLEAN : RunIdleH2(isTimeOut)

Http2Spec == Http2Init /\ [][Http2Next]_http2Vars

-----------------------------------------------------------------------------
SessionStates == {"idle", "open", "halfRemote", "halfLocal", "reserved", "closed"}

Http2TypeOK ==
  /\ session \in [Streams -> SessionStates]
  /\ hasData \subseteq Streams /\ submitted \subseteq Streams /\ mapped \subseteq Streams
  /\ kind \in [ClientStreams -> Kinds \cup {"none"}]
  /\ finished \subseteq ClientStreams /\ processed \subseteq ClientStreams
  /\ openedStreams \in Nat /\ serverOpenedStreams \in Nat
  /\ h2phase \in {"idle", "recv", "handle", "tasks"}
  /\ cursor \in ClientStreams \cup {0}
  /\ answers \in [Streams -> Nat]
  /\ goawaySeen \in BOOLEAN /\ mHasGoawaySent \in BOOLEAN /\ enablePush \in BOOLEAN
  /\ h2open \in BOOLEAN /\ context \in BOOLEAN /\ completion \in BOOLEAN
  /\ mHttp2CloseImm \in BOOLEAN /\ usedAfterDelete \in BOOLEAN

\* The two counters, kept by hand in four callbacks, count the entries of
\* mStreamDataMap that the client and the server have opened.
CountersMatch ==
  /\ openedStreams = Cardinality(mapped \cap ClientStreams)
  /\ serverOpenedStreams = Cardinality(mapped \cap PushStreams)

\* Every pointer nghttp2 holds is to an entry of the map that is still there and
\* whose stream lives; submit_data_read_callback dereferences it unasked.
PointersAreValid ==
  /\ hasData = mapped
  /\ submitted \subseteq mapped
  /\ \A s \in mapped : Live(s)

\* "max stream to handle concurrently": also while answers wait for the client,
\* streams are refused and the client resets others.
WithinLimit == openedStreams <= MaxStreams

\* Each request is answered once, whatever its frames are mixed with, and no
\* finished request is left over when the loop waits again.
AnsweredOnce ==
  /\ \A s \in Streams : answers[s] <= 1
  /\ h2phase \in {"idle", "tasks"} => finished \cap mapped \subseteq processed

\* The context is not used after it was deleted, and does not outlive the
\* connection - but for a drain: HTTP/2 closed at once, or GOAWAY sent when idle.
ContextLifetime ==
  /\ usedAfterDelete => mHttp2CloseImm
  /\ ~h2open /\ context => mHasGoawaySent
=============================================================================

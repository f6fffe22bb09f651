---------------------------- MODULE FHttp2Proofs ----------------------------
(***************************************************************************)
(* For any finite number of streams and any limit: the counters of a       *)
(* context count, its pointers are valid, no more streams are handled than *)
(* the limit allows, each request is answered once, and the context does   *)
(* not outlive the connection unless it was drained.                       *)
(*                                                                         *)
(* The strengthening: a stream that nghttp2 has not seen has no answer, the*)
(* traversal leaves nothing finished behind its cursor, and a write that is*)
(* complete is either looked for in the round that queued it or comes after*)
(* GOAWAY.                                                                 *)
(***************************************************************************)
EXTENDS FHttp2, FiniteSetTheorems, TLAPS

StreamTypes ==
  /\ session \in [Streams -> SessionStates]
  /\ mapped \subseteq Streams
  /\ kind \in [ClientStreams -> Kinds \cup {"none"}]
  /\ finished \subseteq ClientStreams /\ processed \subseteq ClientStreams
  /\ h2phase \in {"idle", "recv", "handle", "tasks"}
  /\ cursor \in ClientStreams \cup {0}
  /\ answers \in [Streams -> Nat]

AnswersFollow ==
  /\ \A s \in Streams : answers[s] <= 1
  /\ \A s \in Streams : session[s] = "idle" => answers[s] = 0
  /\ \A s \in mapped \cap ClientStreams : s \notin processed => answers[s] = 0

Traversed ==
  /\ h2phase \in {"idle", "tasks"} => finished \cap mapped \subseteq processed
  /\ h2phase = "handle" => \A s \in finished \cap mapped : s <= cursor => s \in processed

StreamInv ==
  /\ StreamTypes /\ PointersAreValid /\ CountersMatch /\ WithinLimit
  /\ AnswersFollow /\ Traversed

FlagTypes ==
  /\ goawaySeen \in BOOLEAN /\ mHasGoawaySent \in BOOLEAN /\ enablePush \in BOOLEAN
  /\ h2open \in BOOLEAN /\ context \in BOOLEAN /\ completion \in BOOLEAN
  /\ mHttp2CloseImm \in BOOLEAN /\ usedAfterDelete \in BOOLEAN

FlagInv ==
  /\ FlagTypes /\ ContextLifetime
  /\ h2phase \in {"recv", "handle"} => h2open
  /\ completion /\ (h2phase = "idle" \/ ~h2open) => mHasGoawaySent

-----------------------------------------------------------------------------
\* What the map holds is finite, and counted in whole numbers.
LEMMA MappedIsFinite ==
  ASSUME NEW M, NEW C, IsFiniteSet(C)
  PROVE  IsFiniteSet(M \cap C) /\ Cardinality(M \cap C) \in Nat
<1>1. IsFiniteSet(M \cap C)
  BY FS_Intersection
<1> QED
  BY <1>1, FS_CardinalityType

LEMMA CountersAreNat ==
  ASSUME CountersMatch PROVE openedStreams \in Nat /\ serverOpenedStreams \in Nat
BY MappedIsFinite, StreamsAssumption DEF CountersMatch

\* Streams that close take their entry and their count with them.
LEMMA CloseCounts ==
  ASSUME mapped \subseteq Streams, CountersMatch, hasData = mapped,
         NEW S \in SUBSET Streams, OnStreamClose(S)
  PROVE  /\ mapped' = mapped \ S /\ hasData' = hasData \ S
         /\ finished' = finished \ S /\ processed' = processed \ S
         /\ CountersMatch' /\ openedStreams' <= openedStreams
<1> DEFINE C == mapped \cap ClientStreams
           P == mapped \cap PushStreams
<1>1. IsFiniteSet(C) /\ IsFiniteSet(P)
  BY MappedIsFinite, StreamsAssumption
<1>2. /\ mapped' = mapped \ (S \cap hasData) /\ hasData' = hasData \ S
      /\ finished' = finished \ S /\ processed' = processed \ S
      /\ openedStreams' = openedStreams - Cardinality((S \cap hasData) \cap ClientStreams)
      /\ serverOpenedStreams' = serverOpenedStreams
            - Cardinality((S \cap hasData) \ ((S \cap hasData) \cap ClientStreams))
  BY DEF OnStreamClose, Known, OpenedByClient
<1>3. mapped' = mapped \ S
  BY <1>2
<1>4. (S \cap hasData) \cap ClientStreams = C \cap S
  OBVIOUS
<1>5. (S \cap hasData) \ ((S \cap hasData) \cap ClientStreams) = P \cap S
  BY StreamsAssumption DEF Streams
<1>6. Cardinality(C \ S) = Cardinality(C) - Cardinality(C \cap S)
  BY <1>1, FS_Difference
<1>7. Cardinality(P \ S) = Cardinality(P) - Cardinality(P \cap S)
  BY <1>1, FS_Difference
<1>8. (mapped \cap ClientStreams)' = C \ S /\ (mapped \cap PushStreams)' = P \ S
  BY <1>3
<1>9. /\ openedStreams' = openedStreams - Cardinality(C \cap S)
      /\ serverOpenedStreams' = serverOpenedStreams - Cardinality(P \cap S)
  BY <1>2, <1>4, <1>5
<1>10. Cardinality(C \cap S) \in Nat /\ Cardinality(C) \in Nat
  BY <1>1, MappedIsFinite, FS_Intersection, FS_CardinalityType
<1>11. CountersMatch'
  BY <1>6, <1>7, <1>8, <1>9 DEF CountersMatch
<1>12. openedStreams' <= openedStreams
  BY <1>9, <1>10, CountersAreNat
<1> QED
  BY <1>2, <1>3, <1>11, <1>12

\* The streams of the client that are handled are among those that live.
LEMMA RoomForOne ==
  ASSUME StreamTypes, PointersAreValid, CountersMatch, Accepted
  PROVE  openedStreams + 1 <= MaxStreams
<1> DEFINE Alive == {t \in ClientStreams : Live(t)}
<1>1. IsFiniteSet(Alive)
  BY StreamsAssumption, FS_Subset
<1>2. mapped \cap ClientStreams \in SUBSET Alive
  BY DEF PointersAreValid
<1>3. Cardinality(mapped \cap ClientStreams) <= Cardinality(Alive)
  BY <1>1, <1>2, FS_Subset
<1>4. Cardinality(Alive) < MaxStreams
  BY DEF Accepted, ToldLimit
<1>5. Cardinality(Alive) \in Nat
  BY <1>1, FS_CardinalityType
<1> HIDE DEF Alive
<1> QED
  BY <1>3, <1>4, <1>5, CountersAreNat, MaxStreamsAssumption DEF CountersMatch

-----------------------------------------------------------------------------
\* Nothing is known of any stream at first.
LEMMA Http2InitInv == Http2Init => StreamInv /\ FlagInv
<1> SUFFICES ASSUME Http2Init PROVE StreamInv /\ FlagInv
  OBVIOUS
<1>1. StreamTypes
  BY DEF Http2Init, StreamTypes, SessionStates
<1>2. PointersAreValid
  BY DEF Http2Init, PointersAreValid
<1>3. mapped \cap ClientStreams = {} /\ mapped \cap PushStreams = {}
  BY DEF Http2Init
<1>4. CountersMatch
  BY <1>3, FS_EmptySet DEF Http2Init, CountersMatch
<1>5. WithinLimit
  BY MaxStreamsAssumption DEF Http2Init, WithinLimit
<1>6. AnswersFollow /\ Traversed
  BY DEF Http2Init, AnswersFollow, Traversed
<1>7. FlagTypes
  BY Zenon DEF Http2Init, FlagTypes
<1>8. FlagInv
  BY <1>7 DEF Http2Init, FlagInv, ContextLifetime
<1> QED
  BY <1>1, <1>2, <1>4, <1>5, <1>6, <1>8 DEF StreamInv

-----------------------------------------------------------------------------
(* Streams *)

\* A new stream of the client, or one that is refused.
LEMMA RecvHeadersStreams ==
  ASSUME StreamInv, NEW s \in ClientStreams, NEW k \in Kinds, NEW end \in BOOLEAN,
         RecvHeaders(s, k, end)
  PROVE  StreamInv'
<1>1. /\ h2phase = "recv" /\ session[s] = "idle" /\ s \in Streams
      /\ UNCHANGED <<submitted, processed, serverOpenedStreams, h2phase, cursor, answers>>
  BY StreamsAssumption DEF RecvHeaders, Streams
<1>2. s \notin mapped
  BY <1>1 DEF StreamInv, PointersAreValid, Live
<1>3. CASE Accepted /\ ~TooMany
  <2>1. /\ OnHeaders(s, k)
        /\ session' = [session EXCEPT ![s] = IF end THEN "halfRemote" ELSE "open"]
    BY <1>3 DEF RecvHeaders
  <2>2. /\ mapped' = mapped \cup {s} /\ hasData' = hasData \cup {s}
        /\ openedStreams' = openedStreams + 1
        /\ kind' = [kind EXCEPT ![s] = k]
        /\ finished' \in {finished, finished \cup {s}}
    BY <2>1 DEF OnHeaders
  <2>3. StreamTypes'
    BY <1>1, <2>1, <2>2 DEF StreamInv, StreamTypes, SessionStates
  <2>4. /\ session'[s] \in {"halfRemote", "open"}
        /\ \A t \in Streams : t # s => session'[t] = session[t]
    BY <1>1, <2>1 DEF StreamInv, StreamTypes
  <2>5. PointersAreValid'
    BY <1>1, <2>2, <2>4 DEF StreamInv, StreamTypes, PointersAreValid, Live
  <2>6. CountersMatch'
    <3>1. /\ (mapped \cap ClientStreams)' = (mapped \cap ClientStreams) \cup {s}
          /\ (mapped \cap PushStreams)' = mapped \cap PushStreams
      BY <2>2, StreamsAssumption
    <3>2. Cardinality((mapped \cap ClientStreams) \cup {s}) = Cardinality(mapped \cap ClientStreams) + 1
      BY <1>2, MappedIsFinite, FS_AddElement, StreamsAssumption
    <3> QED
      BY <1>1, <2>2, <3>1, <3>2 DEF StreamInv, CountersMatch
  <2>7. WithinLimit'
    BY <1>3, <2>2, RoomForOne DEF StreamInv, WithinLimit
  <2>8. AnswersFollow' /\ Traversed'
    BY <1>1, <2>2, <2>4 DEF StreamInv, AnswersFollow, Traversed
  <2> QED
    BY <2>3, <2>5, <2>6, <2>7, <2>8 DEF StreamInv
<1>4. CASE ~(Accepted /\ ~TooMany)
  <2>1. /\ session' = [session EXCEPT ![s] = "closed"]
        /\ UNCHANGED <<mapped, hasData, openedStreams, finished, kind>>
    BY <1>4 DEF RecvHeaders
  <2>2. StreamTypes'
    BY <1>1, <2>1 DEF StreamInv, StreamTypes, SessionStates
  <2>3. \A t \in Streams : t # s => session'[t] = session[t]
    BY <2>1 DEF StreamInv, StreamTypes
  <2>4. session'[s] = "closed"
    BY <1>1, <2>1 DEF StreamInv, StreamTypes
  <2>5. PointersAreValid'
    BY <1>1, <1>2, <2>1, <2>3 DEF StreamInv, StreamTypes, PointersAreValid, Live
  <2>6. CountersMatch' /\ WithinLimit' /\ Traversed'
    BY <1>1, <2>1 DEF StreamInv, CountersMatch, WithinLimit, Traversed
  <2>7. AnswersFollow'
    BY <1>1, <2>1, <2>3, <2>4 DEF StreamInv, AnswersFollow
  <2> QED
    BY <2>2, <2>5, <2>6, <2>7 DEF StreamInv
<1> QED
  BY <1>3, <1>4

\* Streams that close.
LEMMA CloseStreamsStreams ==
  ASSUME StreamInv, NEW S \in SUBSET Streams, CloseStreams(S),
         UNCHANGED <<h2phase, cursor, answers>>
  PROVE  StreamInv'
<1>1. /\ mapped' = mapped \ S /\ hasData' = hasData \ S
      /\ finished' = finished \ S /\ processed' = processed \ S
      /\ CountersMatch' /\ openedStreams' <= openedStreams
  BY CloseCounts DEF CloseStreams, StreamInv, StreamTypes, PointersAreValid
<1>2. /\ session' = [s \in Streams |-> IF s \in S THEN "closed" ELSE session[s]]
      /\ submitted' = submitted \ S
      /\ kind' = [s \in ClientStreams |-> IF s \in S THEN "none" ELSE kind[s]]
  BY DEF CloseStreams, OnStreamClose
<1>3. StreamTypes'
  BY <1>1, <1>2 DEF StreamInv, StreamTypes, SessionStates
<1>4. PointersAreValid'
  BY <1>1, <1>2 DEF StreamInv, StreamTypes, PointersAreValid, Live
<1>5. WithinLimit'
  <2>1. openedStreams' \in Nat
    BY <1>1, MappedIsFinite, StreamsAssumption DEF CountersMatch
  <2> QED
    BY <1>1, <2>1, CountersAreNat, MaxStreamsAssumption DEF StreamInv, WithinLimit
<1>6. AnswersFollow' /\ Traversed'
  BY <1>1, <1>2 DEF StreamInv, AnswersFollow, Traversed
<1> QED
  BY <1>1, <1>3, <1>4, <1>5, <1>6 DEF StreamInv

\* Data that comes in ends a body, or a stream.
LEMMA RecvDataStreams ==
  ASSUME StreamInv, NEW s \in ClientStreams, NEW whole \in BOOLEAN, NEW end \in BOOLEAN,
         RecvData(s, whole, end)
  PROVE  StreamInv'
<1>1. UNCHANGED <<h2phase, cursor, answers>> /\ h2phase = "recv" /\ s \in Streams
  BY DEF RecvData, Streams
<1>2. CASE CloseStreams({s})
  BY <1>1, <1>2, CloseStreamsStreams
<1>3. CASE ~(end /\ session[s] = "halfLocal")
  <2>1. /\ session[s] \in {"open", "halfLocal"}
        /\ session' \in {session, [session EXCEPT ![s] = "halfRemote"]}
        /\ finished' \in {finished, finished \cup {s}}
        /\ UNCHANGED <<kind, mapped, openedStreams, serverOpenedStreams, hasData, submitted,
                       processed>>
    <3>1. /\ session' = [session EXCEPT ![s] = IF end THEN "halfRemote" ELSE @]
          /\ finished' = IF WholeBody(s, whole) THEN finished \cup {s} ELSE finished
      BY <1>3 DEF RecvData
    <3>2. ~end => session' = session
      BY <1>1, <3>1 DEF StreamInv, StreamTypes
    <3> QED
      BY <1>3, <3>1, <3>2 DEF RecvData
  <2>2. StreamTypes'
    BY <1>1, <2>1 DEF StreamInv, StreamTypes, SessionStates
  <2>3. \A t \in Streams : session'[t] = session[t] \/ (t = s /\ session'[t] = "halfRemote")
    BY <1>1, <2>1 DEF StreamInv, StreamTypes
  <2>4. PointersAreValid'
    BY <1>1, <2>1, <2>3 DEF StreamInv, StreamTypes, PointersAreValid, Live
  <2>5. CountersMatch' /\ WithinLimit' /\ Traversed'
    BY <1>1, <2>1 DEF StreamInv, CountersMatch, WithinLimit, Traversed
  <2>6. AnswersFollow'
    BY <1>1, <2>1, <2>3 DEF StreamInv, AnswersFollow
  <2> QED
    BY <2>2, <2>4, <2>5, <2>6 DEF StreamInv
<1> QED
  BY <1>2, <1>3 DEF RecvData

\* Answers go out: the ended ones close their streams.
LEMMA SendProcessStreams ==
  ASSUME StreamInv, NEW out \in SUBSET submitted, SendProcess(out), answers' = answers,
         h2phase' \in {"idle", "handle", "tasks"}, cursor' \in ClientStreams \cup {0}, Traversed'
  PROVE  StreamInv'
<1> DEFINE E == {s \in out : session[s] \in {"halfRemote", "reserved"}}
<1>1. /\ session' = [s \in Streams |-> IF s \in E THEN "closed"
                                       ELSE IF s \in out THEN "halfLocal" ELSE session[s]]
      /\ OnStreamClose(E)
      /\ submitted' = submitted \ out
  BY DEF SendProcess
<1>2. E \in SUBSET Streams /\ E \subseteq out /\ out \subseteq mapped
  BY DEF StreamInv, StreamTypes, PointersAreValid
<1> HIDE DEF E
<1>3. /\ mapped' = mapped \ E /\ hasData' = hasData \ E
      /\ finished' = finished \ E /\ processed' = processed \ E
      /\ CountersMatch' /\ openedStreams' <= openedStreams
  BY <1>1, <1>2, CloseCounts DEF StreamInv, StreamTypes, PointersAreValid
<1>4. kind' = [s \in ClientStreams |-> IF s \in E THEN "none" ELSE kind[s]]
  BY <1>1 DEF OnStreamClose
<1>5. StreamTypes'
  BY <1>1, <1>3, <1>4 DEF StreamInv, StreamTypes, SessionStates
<1>6. PointersAreValid'
  BY <1>1, <1>2, <1>3 DEF StreamInv, StreamTypes, PointersAreValid, Live
<1>7. WithinLimit'
  <2>1. openedStreams' \in Nat
    BY <1>3, MappedIsFinite, StreamsAssumption DEF CountersMatch
  <2> QED
    BY <1>3, <2>1, CountersAreNat, MaxStreamsAssumption DEF StreamInv, WithinLimit
<1>8. AnswersFollow'
  BY <1>1, <1>2, <1>3 DEF StreamInv, AnswersFollow
<1> QED
  BY <1>3, <1>5, <1>6, <1>7, <1>8 DEF StreamInv

\* The traversal begins with nothing behind its cursor.
LEMMA EndRecvStreams ==
  ASSUME StreamInv, EndRecv PROVE StreamInv'
<1>1. PICK out \in SUBSET submitted : SendProcess(out)
  BY DEF EndRecv
<1>2. h2phase' = "handle" /\ cursor' = 0 /\ answers' = answers
  BY DEF EndRecv
<1>3. finished' \subseteq finished
  BY <1>1 DEF SendProcess, OnStreamClose
<1>4. \A s \in finished' : ~(s <= 0)
  BY <1>3, StreamsAssumption DEF StreamInv, StreamTypes, Streams
<1>5. Traversed'
  BY <1>2, <1>4 DEF Traversed
<1> QED
  BY <1>1, <1>2, <1>5, SendProcessStreams

\* It ends with nothing ahead of it.
LEMMA EndHandleStreams ==
  ASSUME StreamInv, EndHandle PROVE StreamInv'
<1>1. PICK out \in SUBSET submitted : SendProcess(out)
  BY DEF EndHandle
<1>2. h2phase = "handle" /\ h2phase' = "tasks" /\ cursor' = cursor /\ answers' = answers
      /\ Waiting = {}
  BY DEF EndHandle, AfterEvents
<1>3. \A s \in finished \cap mapped : s \in processed
  <2> SUFFICES ASSUME NEW s \in finished \cap mapped, s \notin processed PROVE FALSE
    OBVIOUS
  <2>1. ~(s > cursor)
    BY <1>2 DEF Waiting, ReadyToHandle, StreamInv, StreamTypes
  <2>2. s \in Int /\ cursor \in Int
    BY StreamsAssumption DEF StreamInv, StreamTypes, Streams
  <2>3. s <= cursor
    BY <2>1, <2>2
  <2> QED
    BY <1>2, <2>3 DEF StreamInv, Traversed
<1>4. PICK E \in SUBSET Streams : OnStreamClose(E)
  BY <1>1 DEF SendProcess, StreamInv, StreamTypes, PointersAreValid
<1>5. mapped' = mapped \ E /\ finished' = finished \ E /\ processed' = processed \ E
  BY <1>4, CloseCounts DEF StreamInv, StreamTypes, PointersAreValid
<1>6. Traversed'
  BY <1>2, <1>3, <1>5 DEF Traversed
<1> QED
  BY <1>1, <1>2, <1>6, SendProcessStreams DEF StreamInv, StreamTypes

\* A request is answered for the first time, and so are the promises made with it.
LEMMA HandleStreams ==
  ASSUME StreamInv, NEW s \in ClientStreams, NEW pushes \in SUBSET IdlePushes,
         Handle(s, pushes)
  PROVE  StreamInv'
<1>1. /\ s \in mapped /\ s \in finished /\ s \notin processed /\ h2phase = "handle"
      /\ \A t \in Waiting : s <= t
  BY DEF Handle, Waiting, ReadyToHandle
<1>2. /\ session' = [t \in Streams |-> IF t \in pushes THEN "reserved" ELSE session[t]]
      /\ hasData' = hasData \cup pushes /\ mapped' = mapped \cup pushes
      /\ serverOpenedStreams' = serverOpenedStreams + Cardinality(pushes)
      /\ submitted' = submitted \cup {s} \cup pushes
      /\ processed' = processed \cup {s}
      /\ answers' = [t \in Streams |-> IF t \in pushes \cup {s} THEN answers[t] + 1 ELSE answers[t]]
      /\ cursor' = s
      /\ UNCHANGED <<kind, finished, openedStreams, h2phase>>
  BY DEF Handle
<1>3. pushes \subseteq PushStreams /\ \A p \in pushes : p \in Streams /\ session[p] = "idle"
  BY DEF IdlePushes, Streams
<1>4. pushes \cap mapped = {} /\ pushes \cap ClientStreams = {}
  BY <1>3, StreamsAssumption DEF StreamInv, PointersAreValid, Live
<1>5. StreamTypes'
  BY <1>2, <1>3 DEF StreamInv, StreamTypes, SessionStates, Streams
<1>6. PointersAreValid'
  BY <1>1, <1>2, <1>3 DEF StreamInv, StreamTypes, PointersAreValid, Live
<1>7. CountersMatch'
  <2> DEFINE P == mapped \cap PushStreams
  <2>1. (mapped \cap ClientStreams)' = mapped \cap ClientStreams
        /\ (mapped \cap PushStreams)' = P \cup pushes
    BY <1>2, <1>3, <1>4
  <2>2. IsFiniteSet(P) /\ IsFiniteSet(pushes) /\ P \cap pushes = {}
    BY <1>3, <1>4, StreamsAssumption, MappedIsFinite, FS_Subset
  <2>3. Cardinality(P \cup pushes) = Cardinality(P) + Cardinality(pushes) - Cardinality(P \cap pushes)
    BY <2>2, FS_Union
  <2>4. Cardinality(P \cap pushes) = 0 /\ Cardinality(P) \in Nat /\ Cardinality(pushes) \in Nat
    BY <2>2, FS_EmptySet, FS_CardinalityType
  <2>5. Cardinality(P \cup pushes) = Cardinality(P) + Cardinality(pushes)
    BY <2>3, <2>4
  <2> QED
    BY <1>2, <2>1, <2>5 DEF StreamInv, CountersMatch
<1>8. WithinLimit'
  BY <1>2 DEF StreamInv, WithinLimit
<1>9. AnswersFollow'
  <2>1. answers[s] = 0 /\ s \in Streams /\ \A p \in pushes : answers[p] = 0
    BY <1>1, <1>3 DEF StreamInv, AnswersFollow, StreamTypes
  <2>2. \A t \in Streams : answers'[t] = IF t \in pushes \cup {s} THEN answers[t] + 1 ELSE answers[t]
    BY <1>2
  <2>3. session[s] # "idle"
    BY <1>1 DEF StreamInv, PointersAreValid, Live
  <2> QED
    BY <1>2, <1>4, <2>1, <2>2, <2>3 DEF StreamInv, StreamTypes, AnswersFollow
<1>10. Traversed'
  <2> SUFFICES ASSUME NEW t \in finished \cap mapped, t <= s, t \notin processed, t # s
               PROVE  FALSE
    BY <1>1, <1>2, <1>4 DEF Traversed, StreamInv, StreamTypes
  <2>1. t \in Int /\ s \in Int /\ cursor \in Int /\ t \in ClientStreams
    BY StreamsAssumption DEF StreamInv, StreamTypes, Streams
  <2>2. ~(t <= cursor)
    BY <1>1 DEF StreamInv, Traversed
  <2>3. t \in Waiting
    BY <2>1, <2>2 DEF Waiting, ReadyToHandle
  <2>4. s <= t
    BY <1>1, <2>3
  <2> QED
    BY <2>1, <2>4
<1> QED
  BY <1>5, <1>6, <1>7, <1>8, <1>9, <1>10 DEF StreamInv

\* With the connection go all its streams.
LEMMA DropStreams ==
  ASSUME StreamInv, DropConnection, UNCHANGED <<cursor, answers>>,
         h2phase' \in {"idle", "tasks"}
  PROVE  StreamInv'
<1>1. /\ session' = [s \in Streams |-> "closed"]
      /\ hasData' = {} /\ submitted' = {} /\ mapped' = {} /\ finished' = {} /\ processed' = {}
      /\ kind' = [s \in ClientStreams |-> "none"]
      /\ openedStreams' = 0 /\ serverOpenedStreams' = 0
  BY DEF DropConnection
<1>2. StreamTypes'
  BY <1>1 DEF StreamInv, StreamTypes, SessionStates
<1>3. PointersAreValid' /\ Traversed'
  BY <1>1 DEF PointersAreValid, Traversed
<1>4. (mapped \cap ClientStreams)' = {} /\ (mapped \cap PushStreams)' = {}
  BY <1>1
<1>5. CountersMatch'
  BY <1>1, <1>4, FS_EmptySet DEF CountersMatch
<1>6. WithinLimit'
  BY <1>1, MaxStreamsAssumption DEF WithinLimit
<1>7. AnswersFollow'
  BY <1>1 DEF StreamInv, AnswersFollow
<1> QED
  BY <1>2, <1>3, <1>5, <1>6, <1>7 DEF StreamInv

\* GOAWAY is sent, with the answers that fit.
LEMMA DrainStreams ==
  ASSUME StreamInv, h2phase = "idle", UNCHANGED <<h2phase, cursor, answers>>,
         NEW out \in SUBSET submitted, SendProcess(out)
  PROVE  StreamInv'
<1>1. PICK E \in SUBSET Streams : OnStreamClose(E)
  BY DEF SendProcess, StreamInv, StreamTypes, PointersAreValid
<1>2. mapped' = mapped \ E /\ finished' = finished \ E /\ processed' = processed \ E
  BY <1>1, CloseCounts DEF StreamInv, StreamTypes, PointersAreValid
<1>3. Traversed'
  BY <1>2 DEF StreamInv, Traversed
<1> QED
  BY <1>3, SendProcessStreams DEF StreamInv, StreamTypes

LEMMA Http2Streams ==
  ASSUME StreamInv, [Http2Next]_http2Vars PROVE StreamInv'
<1> DEFINE Same == UNCHANGED <<session, hasData, submitted, streamVars, cursor, answers>>
<1>1. ASSUME Same, \/ h2phase' = h2phase \/ h2phase' = "recv"
                   \/ h2phase \in {"idle", "tasks"} /\ h2phase' = "idle"
      PROVE  StreamInv'
  BY <1>1 DEF streamVars, StreamInv, StreamTypes, PointersAreValid, Live, CountersMatch, WithinLimit,
              AnswersFollow, Traversed
<1>2. CASE UNCHANGED http2Vars
  BY <1>1, <1>2 DEF http2Vars, nghttp2Vars
<1>3. CASE BeginRead
  BY <1>1, <1>3 DEF BeginRead, nghttp2Vars
<1>4. CASE RecvSettings
  BY <1>1, <1>4 DEF RecvSettings, nghttp2Vars
<1>5. CASE RunTasks
  BY <1>1, <1>5 DEF RunTasks, nghttp2Vars
<1>6. ASSUME NEW s \in Streams, RecvRst(s) PROVE StreamInv'
  BY <1>6, CloseStreamsStreams DEF RecvRst
<1>7. CASE PeerCloses
  BY <1>7, DropStreams DEF PeerCloses, AfterEvents
<1>8. ASSUME NEW isTimeOut \in BOOLEAN, RunIdleH2(isTimeOut) PROVE StreamInv'
  BY <1>8, DropStreams, DrainStreams DEF RunIdleH2
<1> QED
  BY <1>2, <1>3, <1>4, <1>5, <1>6, <1>7, <1>8, RecvHeadersStreams, RecvDataStreams, EndRecvStreams,
     HandleStreams, EndHandleStreams
  DEF Http2Next, RecvFrame, Http2Process

-----------------------------------------------------------------------------
(* The context and its connection *)

\* What the flags are after a step: all the steps but the end of the connection keep
\* the context, and a completed write leaves the round it was queued in only by GOAWAY.
LEMMA Http2Flags ==
  ASSUME FlagInv, Http2Next PROVE FlagInv'
<1> USE DEF connVars
<1>1. ASSUME UNCHANGED <<context, h2open, mHttp2CloseImm, usedAfterDelete>>,
             mHasGoawaySent => mHasGoawaySent',
             h2phase' \in {"recv", "handle"} => h2open,
             completion' => \/ completion /\ (h2phase = "idle" \/ ~h2open)
                            \/ h2phase' # "idle" /\ h2open
                            \/ mHasGoawaySent'
      PROVE  ContextLifetime' /\ (h2phase' \in {"recv", "handle"} => h2open') /\
             (completion' /\ (h2phase' = "idle" \/ ~h2open') => mHasGoawaySent')
  BY <1>1, Zenon DEF FlagInv, ContextLifetime
<1>2. CASE BeginRead \/ RecvFrame \/ EndRecv \/ EndHandle
           \/ \E s \in ClientStreams, pushes \in SUBSET IdlePushes : Handle(s, pushes)
  <2>1. /\ UNCHANGED <<context, h2open, mHttp2CloseImm, usedAfterDelete>>
        /\ mHasGoawaySent => mHasGoawaySent'
    <3>1. CASE BeginRead \/ EndRecv \/ EndHandle
               \/ \E s \in ClientStreams, pushes \in SUBSET IdlePushes : Handle(s, pushes)
      <4>1. UNCHANGED <<context, h2open, mHttp2CloseImm, usedAfterDelete, mHasGoawaySent>>
        BY <3>1 DEF BeginRead, EndRecv, EndHandle, Handle, SendProcess
      <4> QED
        BY <4>1, Zenon
    <3>2. ASSUME NEW s \in ClientStreams, NEW k \in Kinds, NEW end \in BOOLEAN,
                 RecvHeaders(s, k, end)
          PROVE  /\ UNCHANGED <<context, h2open, mHttp2CloseImm, usedAfterDelete>>
                 /\ mHasGoawaySent => mHasGoawaySent'
      <4>1. UNCHANGED <<context, h2open, mHttp2CloseImm, usedAfterDelete>>
        BY <3>2 DEF RecvHeaders
      <4>2. mHasGoawaySent => mHasGoawaySent'
        BY <3>2, Zenon DEF RecvHeaders
      <4> QED
        BY <4>1, <4>2
    <3>3. CASE \/ \E s \in ClientStreams, whole, end \in BOOLEAN : RecvData(s, whole, end)
               \/ \E s \in Streams : RecvRst(s)
               \/ RecvSettings
      <4>1. UNCHANGED <<context, h2open, mHttp2CloseImm, usedAfterDelete, mHasGoawaySent>>
        BY <3>3 DEF RecvData, RecvRst, RecvSettings
      <4> QED
        BY <4>1, Zenon
    <3> QED
      BY <1>2, <3>1, <3>2, <3>3 DEF RecvFrame
  <2>2. h2open /\ h2phase' # "idle"
    BY <1>2 DEF BeginRead, RecvFrame, RecvHeaders, RecvData, RecvRst, RecvSettings, EndRecv,
                EndHandle, Handle, SendProcess, FlagInv, AfterEvents
  <2>3. FlagTypes'
    <3>1. CASE BeginRead \/ EndRecv \/ EndHandle
               \/ \E s \in ClientStreams, pushes \in SUBSET IdlePushes : Handle(s, pushes)
      <4>1. /\ UNCHANGED <<goawaySeen, mHasGoawaySent, enablePush>>
            /\ completion' \in {completion, TRUE}
        BY <3>1 DEF BeginRead, EndRecv, EndHandle, Handle, SendProcess, nghttp2Vars
      <4> QED
        BY <2>1, <4>1, Zenon DEF FlagInv, FlagTypes
    <3>2. CASE RecvFrame
      <4>1. /\ completion' = completion
            /\ enablePush' \in {enablePush, ~enablePush}
            /\ goawaySeen' \in {goawaySeen, goawaySeen \/ Accepted, TRUE}
            /\ mHasGoawaySent' \in {mHasGoawaySent, mHasGoawaySent \/ Accepted}
        BY <3>2 DEF RecvFrame, RecvHeaders, RecvData, RecvRst, RecvSettings, nghttp2Vars
      <4>2. /\ (goawaySeen \/ Accepted) \in BOOLEAN /\ (mHasGoawaySent \/ Accepted) \in BOOLEAN
            /\ (~enablePush) \in BOOLEAN
        BY Zenon
      <4> QED
        BY <2>1, <4>1, <4>2, Zenon DEF FlagInv, FlagTypes
    <3> QED
      BY <1>2, <3>1, <3>2
  <2> QED
    BY <1>1, <2>1, <2>2, <2>3 DEF FlagInv
<1>3. CASE RunTasks
  <2>1. /\ ~completion' /\ completion' \in BOOLEAN
        /\ context' = (context \/ completion) /\ context' \in BOOLEAN
    BY <1>3, Zenon DEF RunTasks
  <2>2. /\ UNCHANGED <<goawaySeen, mHasGoawaySent, enablePush, h2open, mHttp2CloseImm,
                       usedAfterDelete>>
        /\ h2phase' = "idle"
    BY <1>3 DEF RunTasks, nghttp2Vars
  <2>3. FlagTypes'
    BY <2>1, <2>2, Zenon DEF FlagInv, FlagTypes
  <2>4. ContextLifetime'
    BY <2>1, <2>2, Zenon DEF FlagInv, ContextLifetime
  <2> QED
    BY <2>1, <2>2, <2>3, <2>4 DEF FlagInv
<1>4. CASE PeerCloses
  <2>1. ~h2open' /\ h2open' \in BOOLEAN /\ ~context' /\ context' \in BOOLEAN
    BY <1>4, Zenon DEF PeerCloses, DropConnection
  <2>2. /\ UNCHANGED <<goawaySeen, mHasGoawaySent, enablePush, completion, mHttp2CloseImm,
                       usedAfterDelete>>
        /\ h2phase' = "tasks" /\ h2phase = "idle"
    BY <1>4 DEF PeerCloses, AfterEvents
  <2>3. FlagTypes'
    BY <2>1, <2>2, Zenon DEF FlagInv, FlagTypes
  <2>4. ContextLifetime'
    BY <2>1, <2>2, Zenon DEF FlagInv, ContextLifetime
  <2> QED
    BY <2>2, <2>3, <2>4 DEF FlagInv
<1>5. ASSUME NEW isTimeOut \in BOOLEAN, RunIdleH2(isTimeOut) PROVE FlagInv'
  <2>1. UNCHANGED <<enablePush, h2phase, mHttp2CloseImm>> /\ h2phase = "idle" /\ h2open
    BY <1>5 DEF RunIdleH2
  <2>2. CASE mHttp2CloseImm \/ isTimeOut
    <3>1. /\ ~h2open' /\ h2open' \in BOOLEAN /\ ~context' /\ context' \in BOOLEAN
          /\ usedAfterDelete' = ~isTimeOut /\ usedAfterDelete' \in BOOLEAN
          /\ UNCHANGED <<goawaySeen, mHasGoawaySent, completion>>
      BY <1>5, <2>2, Zenon DEF RunIdleH2, DropConnection
    <3>2. FlagTypes'
      BY <2>1, <3>1, Zenon DEF FlagInv, FlagTypes
    <3>3. ContextLifetime'
      BY <2>1, <2>2, <3>1, Zenon DEF ContextLifetime
    <3> QED
      BY <2>1, <3>1, <3>2, <3>3 DEF FlagInv
  <2>3. CASE ~(mHttp2CloseImm \/ isTimeOut)
    <3>1. /\ goawaySeen' /\ goawaySeen' \in BOOLEAN
          /\ mHasGoawaySent' /\ mHasGoawaySent' \in BOOLEAN
          /\ completion' \in {completion, TRUE}
          /\ UNCHANGED <<h2open, context, usedAfterDelete>>
      BY <1>5, <2>3, Zenon DEF RunIdleH2, SendProcess
    <3>2. FlagTypes'
      BY <2>1, <3>1, Zenon DEF FlagInv, FlagTypes
    <3>3. ContextLifetime'
      BY <2>1, <3>1, Zenon DEF FlagInv, ContextLifetime
    <3> QED
      BY <2>1, <3>1, <3>2, <3>3 DEF FlagInv
  <2> QED
    BY <2>2, <2>3
<1> QED
  BY <1>2, <1>3, <1>4, <1>5 DEF Http2Next, Http2Process

-----------------------------------------------------------------------------
LEMMA Http2Inv == Http2Spec => [](StreamInv /\ FlagInv)
<1>1. FlagInv /\ [Http2Next]_http2Vars => FlagInv'
  <2>1. FlagInv /\ UNCHANGED http2Vars => FlagInv'
    BY DEF http2Vars, nghttp2Vars, connVars, FlagInv, FlagTypes, ContextLifetime
  <2> QED
    BY <2>1, Http2Flags
<1> QED
  BY <1>1, Http2InitInv, Http2Streams, PTL DEF Http2Spec

\* The types of a connection and its context.
THEOREM Http2Types == Http2Spec => []Http2TypeOK
<1>1. StreamInv /\ FlagInv => Http2TypeOK
  BY CountersAreNat DEF StreamInv, StreamTypes, PointersAreValid, FlagInv, FlagTypes, Http2TypeOK
<1> QED
  BY <1>1, Http2Inv, PTL

\* CountersMatch: openedStreams and serverOpenedStreams count the entries of
\* mStreamDataMap.
THEOREM Http2Counters == Http2Spec => []CountersMatch
BY Http2Inv, PTL DEF StreamInv

\* PointersAreValid: nghttp2 holds pointers to live entries only.
THEOREM Http2Pointers == Http2Spec => []PointersAreValid
BY Http2Inv, PTL DEF StreamInv

\* WithinLimit: no more than s_maxConcurrentStream streams of the client are handled.
THEOREM Http2Limit == Http2Spec => []WithinLimit
BY Http2Inv, PTL DEF StreamInv

\* AnsweredOnce: traversalFinishedStreams answers each request once and leaves none.
THEOREM Http2Answers == Http2Spec => []AnsweredOnce
<1>1. StreamInv => AnsweredOnce
  BY DEF StreamInv, AnswersFollow, Traversed, AnsweredOnce
<1> QED
  BY <1>1, Http2Inv, PTL

\* ContextLifetime: the context goes with its connection, unless it was drained.
THEOREM Http2Context == Http2Spec => []ContextLifetime
BY Http2Inv, PTL DEF FlagInv
=============================================================================

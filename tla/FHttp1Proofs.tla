---------------------------- MODULE FHttp1Proofs ----------------------------
(***************************************************************************)
(* Theorems about FHttp1, whatever the clients send.                       *)
(*                                                                         *)
(* The order of a round.  A write-complete task is queued by an answer     *)
(* that left nothing in the buffer; from then on the round has nothing to  *)
(* read and no close to handle, so the task finds the connection open and  *)
(* the buffer still empty.                                                 *)
(*                                                                         *)
(* With the order of the pieces that were sent (AnswersArrive) and the     *)
(* reason why a connection is not to be used again (CloseAsked), an empty  *)
(* buffer says that the client has every answer when the task closes.      *)
(*                                                                         *)
(* The parser stays in step.  What is in the input buffer, what has        *)
(* arrived and what the client sends next follow each other piece by       *)
(* piece, so one piece, ToRead, says where all of it begins; InStep        *)
(* relates the state of the parser to that piece.  A parser in step finds  *)
(* the request line, the headers and the body of one request, and reads no *)
(* byte that is not its own - with two exceptions the invariant names: the *)
(* first byte of a pipelined request may be lost, and a zero byte leaves a *)
(* body that never ends.                                                   *)
(*                                                                         *)
(* A client that waits has nothing in the buffers beyond the request to be *)
(* handled next (NotTooMuch, InTime), so a finished parser has read it all *)
(* and the piece that ends parse() is none.  The request handled next is   *)
(* then the one after the last (AtNext), and the one that asks to close is *)
(* the last (LastAnswer).                                                  *)
(***************************************************************************)
EXTENDS FHttp1, SequenceTheorems, TLAPS

RoundOrder ==
  /\ phase \in {"poll", "events", "parse", "funcs"}
  /\ active \subseteq {"close", "read", "write"}
  /\ phase \in {"poll", "funcs"} => active = {}
  /\ phase = "parse" => active \subseteq {"write"}

CompleteIsLast ==
  /\ wc \in {0, 1}
  /\ wc = 1 => phase \in {"events", "funcs"} /\ active \subseteq {"write"} /\ outBuffer = <<>>

ClosedIsQuiet ==
  ~open => active = {} /\ wc = 0 /\ phase # "parse"

RoundInv == RoundOrder /\ CompleteIsLast /\ ClosedIsQuiet

-----------------------------------------------------------------------------
\* The first round has not begun.
LEMMA Http1InitInv == Http1Init => RoundInv
<1> SUFFICES ASSUME Http1Init PROVE RoundInv
  OBVIOUS
<1>1. RoundOrder /\ CompleteIsLast
  BY DEF Http1Init, RoundOrder, CompleteIsLast
<1>2. ClosedIsQuiet
  BY Zenon DEF Http1Init, ClosedIsQuiet
<1> QED
  BY <1>1, <1>2 DEF RoundInv

\* The client and the clock touch nothing of a round.
LEMMA OutsideInv ==
  ASSUME RoundInv, UNCHANGED <<phase, active, wc, outBuffer, open>>
  PROVE  RoundInv'
<1>1. RoundOrder' /\ CompleteIsLast'
  BY DEF RoundInv, RoundOrder, CompleteIsLast
<1>2. ClosedIsQuiet'
  BY Zenon DEF RoundInv, ClosedIsQuiet
<1> QED
  BY <1>1, <1>2 DEF RoundInv

\* What sending an answer does to a round that has none complete.
LEMMA SendInLoopInv ==
  ASSUME wc = 0, NEW data, SendInLoop(data)
  PROVE  wc' \in {0, 1} /\ (wc' = 1 => outBuffer' = <<>>)
<1>1. wc' = wc + Completed(outBuffer') \/ wc' = wc
  BY Zenon DEF SendInLoop
<1>2. Completed(outBuffer') \in {0, 1} /\ (Completed(outBuffer') = 1 => outBuffer' = <<>>)
  BY DEF Completed
<1> QED
  BY <1>1, <1>2

\* A read closes, or hands what it read to the parser.
LEMMA HandleReadInv ==
  ASSUME RoundInv, HandleRead PROVE RoundInv'
<1>1. /\ phase = "events" /\ "read" \in active /\ "close" \notin active
      /\ UNCHANGED <<wc, outBuffer>>
  BY DEF HandleRead
<1>2. wc = 0 /\ open
  BY <1>1 DEF RoundInv, CompleteIsLast, ClosedIsQuiet
<1>3. CASE arrived = <<>>
  <2>1. HandleClose /\ phase' = phase
    BY <1>3 DEF HandleRead
  <2>2. ~open' /\ active' = {} /\ connData' = NoData
    BY <2>1, Zenon DEF HandleClose
  <2> QED
    BY <1>1, <1>2, <2>1, <2>2 DEF RoundInv, RoundOrder, CompleteIsLast, ClosedIsQuiet
<1>4. CASE arrived # <<>>
  <2>1. phase' = "parse" /\ active' = active \ {"read"} /\ open' = open
    BY <1>4 DEF HandleRead
  <2> QED
    BY <1>1, <1>2, <2>1 DEF RoundInv, RoundOrder, CompleteIsLast, ClosedIsQuiet
<1> QED
  BY <1>3, <1>4

\* A turn of parse() ends in a close, or leaves the round alone.
LEMMA ParseNextInv ==
  ASSUME RoundInv, ParseNext PROVE RoundInv'
<1>1. phase = "parse" /\ UNCHANGED <<wc, outBuffer>>
  BY DEF ParseNext
<1>2. wc = 0 /\ open /\ active \subseteq {"write"}
  BY <1>1 DEF RoundInv, RoundOrder, CompleteIsLast, ClosedIsQuiet
<1>3. CASE HandleClose /\ phase' = "events"
  <2>1. ~open' /\ active' = {}
    BY <1>3, Zenon DEF HandleClose
  <2> QED
    BY <1>1, <1>2, <1>3, <2>1 DEF RoundInv, RoundOrder, CompleteIsLast, ClosedIsQuiet
<1>4. CASE UNCHANGED <<open, active, phase>>
  BY <1>1, <1>2, <1>4 DEF RoundInv, RoundOrder, CompleteIsLast, ClosedIsQuiet
<1> QED
  BY <1>3, <1>4, Zenon DEF ParseNext

\* The answer that is sent at the end of parse() queues one task at most.
LEMMA ParseEndInv ==
  ASSUME RoundInv, ParseEnd PROVE RoundInv'
<1>1. phase = "parse" /\ phase' = "events" /\ UNCHANGED <<open, active>>
  BY DEF ParseEnd
<1>2. wc = 0 /\ open /\ active \subseteq {"write"}
  BY <1>1 DEF RoundInv, RoundOrder, CompleteIsLast, ClosedIsQuiet
<1>3. wc' \in {0, 1} /\ (wc' = 1 => outBuffer' = <<>>)
  <2>1. CASE SendInLoop(Answer(connData.parser.req))
    BY <1>2, <2>1, SendInLoopInv
  <2>2. CASE UNCHANGED <<received, outBuffer, writing, wc, handled, connData>>
    BY <1>2, <2>2
  <2> QED
    BY <2>1, <2>2, Zenon DEF ParseEnd
<1> QED
  BY <1>1, <1>2, <1>3 DEF RoundInv, RoundOrder, CompleteIsLast, ClosedIsQuiet

\* A close leaves nothing of the round to be done.
LEMMA HandleHupInv ==
  ASSUME RoundInv, HandleHup PROVE RoundInv'
<1>1. phase = "events" /\ "close" \in active /\ UNCHANGED <<outBuffer, phase, wc>>
  BY DEF HandleHup
<1>2. wc = 0
  BY <1>1 DEF RoundInv, CompleteIsLast
<1>3. ~open' /\ active' = {}
  BY Zenon DEF HandleHup, HandleClose
<1> QED
  BY <1>1, <1>2, <1>3 DEF RoundInv, RoundOrder, CompleteIsLast, ClosedIsQuiet

\* A socket that can be written is only written if something waits: then no answer
\* of this round was complete.
LEMMA HandleWriteInv ==
  ASSUME RoundInv, HandleWrite PROVE RoundInv'
<1>1. /\ phase = "events" /\ active = {"write"} /\ active' = {}
      /\ UNCHANGED <<open, phase>>
  BY DEF HandleWrite
<1>2. open
  BY <1>1 DEF RoundInv, ClosedIsQuiet
<1>3. wc' \in {0, 1} /\ (wc' = 1 => outBuffer' = <<>>)
  <2>1. CASE UNCHANGED <<received, outBuffer, writing, wc, spoiled, aborted>>
    BY <2>1 DEF RoundInv, CompleteIsLast
  <2>2. ASSUME NEW n \in 1 .. Len(outBuffer), PopTwice(n)
        PROVE  wc' \in {0, 1} /\ (wc' = 1 => outBuffer' = <<>>)
    <3>1. wc = 0
      BY <2>2 DEF RoundInv, CompleteIsLast
    <3>2. \/ UNCHANGED <<outBuffer, wc>>
          \/ wc' = wc + Completed(outBuffer')
      BY <2>2 DEF PopTwice
    <3> QED
      BY <3>1, <3>2 DEF Completed
  <2> QED
    BY <2>1, <2>2 DEF HandleWrite
<1> QED
  BY <1>1, <1>2, <1>3 DEF RoundInv, RoundOrder, CompleteIsLast, ClosedIsQuiet

\* The events of a round come before its tasks.
LEMMA ListenInv ==
  ASSUME RoundInv, Listen \/ ReadOtherHeader PROVE RoundInv'
<1>1. phase = "poll" /\ open /\ phase' = "events" /\ UNCHANGED <<open, wc, outBuffer>>
  BY DEF Listen, ReadOtherHeader, tcpVars
<1>2. active' \subseteq {"close", "read", "write"}
  BY DEF Listen, ReadOtherHeader, Ready, RoundInv, RoundOrder
<1>3. wc = 0
  BY <1>1 DEF RoundInv, CompleteIsLast
<1> QED
  BY <1>1, <1>2, <1>3 DEF RoundInv, RoundOrder, CompleteIsLast, ClosedIsQuiet

\* The end of a round.
LEMMA RoundEndInv ==
  ASSUME RoundInv, Tick \/ IdleTick \/ EndRound PROVE RoundInv'
<1>1. UNCHANGED <<open, wc, outBuffer, active>>
  BY DEF Tick, IdleTick, EndRound, tcpVars
<1>2. \/ phase' = "funcs" /\ active = {}
      \/ phase' = "poll" /\ phase = "funcs" /\ wc = 0
  BY DEF Tick, IdleTick, EndRound, RoundInv, RoundOrder
<1> QED
  BY <1>1, <1>2 DEF RoundInv, RoundOrder, CompleteIsLast, ClosedIsQuiet

\* The task finds its connection open.
LEMMA RunWriteCompleteInv ==
  ASSUME RoundInv, RunWriteComplete PROVE RoundInv'
<1>1. phase = "funcs" /\ wc > 0 /\ wc' = wc - 1 /\ UNCHANGED <<outBuffer, phase>>
  BY DEF RunWriteComplete
<1>2. wc' = 0 /\ open
  BY <1>1 DEF RoundInv, CompleteIsLast, ClosedIsQuiet
<1>3. CASE HandleClose
  <2>1. ~open' /\ active' = {}
    BY <1>3, Zenon DEF HandleClose
  <2> QED
    BY <1>1, <1>2, <2>1 DEF RoundInv, RoundOrder, CompleteIsLast, ClosedIsQuiet
<1>4. CASE UNCHANGED <<open, active>>
  BY <1>1, <1>2, <1>4 DEF RoundInv, RoundOrder, CompleteIsLast, ClosedIsQuiet
<1> QED
  BY <1>3, <1>4, Zenon DEF RunWriteComplete

\* A timer runs after the tasks, and may close as they do.
LEMMA RunIdleInv ==
  ASSUME RoundInv, RunIdle PROVE RoundInv'
<1>1. phase = "funcs" /\ wc = 0 /\ UNCHANGED <<outBuffer, phase, wc>>
  BY DEF RunIdle
<1>3. CASE HandleClose
  <2>1. ~open' /\ active' = {}
    BY <1>3, Zenon DEF HandleClose
  <2> QED
    BY <1>1, <2>1 DEF RoundInv, RoundOrder, CompleteIsLast, ClosedIsQuiet
<1>4. CASE UNCHANGED <<open, active>>
  BY <1>1, <1>4 DEF RoundInv, RoundOrder, CompleteIsLast, ClosedIsQuiet
<1> QED
  BY <1>3, <1>4, Zenon DEF RunIdle

-----------------------------------------------------------------------------
\* Steps that the loop does not take.
LEMMA OutsideUnchanged ==
  ASSUME ClientSend \/ ClientLeave \/ TimePasses \/ UNCHANGED http1Vars
  PROVE  UNCHANGED <<phase, active, wc, outBuffer, open, connData>>
BY DEF ClientSend, ClientLeave, TimePasses, http1Vars, clientVars, tcpVars, loopVars

\* A step keeps the order of the round.
LEMMA RoundStep ==
  ASSUME RoundInv, [Http1Next]_http1Vars
  PROVE  RoundInv'
<1>1. CASE ClientSend \/ ClientLeave \/ TimePasses \/ UNCHANGED http1Vars
  BY <1>1, OutsideUnchanged, OutsideInv
<1>2. CASE SubLoop
  BY <1>2, HandleReadInv, ParseNextInv, ParseEndInv, HandleHupInv, HandleWriteInv, ListenInv,
     RoundEndInv, RunWriteCompleteInv, RunIdleInv
  DEF SubLoop
<1> QED
  BY <1>1, <1>2, ListenInv, RoundEndInv DEF Http1Next

\* The order of a round holds always.
LEMMA Http1Inv == Http1Spec => []RoundInv
BY RoundStep, Http1InitInv, PTL DEF Http1Spec

-----------------------------------------------------------------------------
(* What is attached to a closed connection *)

\* A closed connection is left alone by all but a timer that was taken.
LEMMA ClosedDataStays ==
  ASSUME RoundInv, ~open, [Http1Next]_http1Vars
  PROVE  connData' = connData \/ (due /\ ~due')
<1>1. active = {} /\ wc = 0 /\ phase # "parse"
  BY DEF RoundInv, ClosedIsQuiet
<1>2. CASE ClientSend \/ ClientLeave \/ TimePasses \/ UNCHANGED http1Vars
  BY <1>2, OutsideUnchanged
<1>3. CASE ReadOtherHeader \/ IdleTick \/ Listen \/ Tick \/ EndRound
  BY <1>3 DEF ReadOtherHeader, IdleTick, Listen, Tick, EndRound
<1>4. CASE RunIdle
  BY <1>4 DEF RunIdle
<1>5. CASE HandleRead \/ HandleHup \/ HandleWrite
  BY <1>1, <1>5 DEF HandleRead, HandleHup, HandleWrite
<1>6. CASE ParseNext \/ ParseEnd
  BY <1>1, <1>6 DEF ParseNext, ParseEnd
<1>7. CASE RunWriteComplete
  BY <1>1, <1>7 DEF RunWriteComplete
<1> QED
  BY <1>2, <1>3, <1>4, <1>5, <1>6, <1>7 DEF Http1Next, SubLoop

\* Every close deletes the data.
LEMMA CloseDeletes ==
  ASSUME open, ~open', [Http1Next]_http1Vars
  PROVE  connData' = NoData
<1>1. CASE ClientSend \/ ClientLeave \/ TimePasses \/ UNCHANGED http1Vars
  BY <1>1, OutsideUnchanged
<1>2. CASE ReadOtherHeader \/ IdleTick \/ Listen \/ Tick \/ EndRound
  BY <1>2 DEF ReadOtherHeader, IdleTick, Listen, Tick, EndRound, tcpVars
<1>3. CASE ParseEnd \/ HandleWrite
  BY <1>3 DEF ParseEnd, HandleWrite
<1>4. CASE HandleRead \/ ParseNext \/ HandleHup \/ RunWriteComplete \/ RunIdle
  <2>1. HandleClose \/ open' = open
    BY <1>4, Zenon DEF HandleRead, ParseNext, HandleHup, RunWriteComplete, RunIdle
  <2> QED
    BY <2>1, Zenon DEF HandleClose
<1> QED
  BY <1>1, <1>2, <1>3, <1>4 DEF Http1Next, SubLoop

\* DataAfterClose: every close deletes HttpConnData, and afterwards only handleTcpIdle
\* makes it anew, when its timer was taken before the close.
THEOREM Http1DataAfterClose == Http1Spec => DataAfterClose
<1>1. RoundInv /\ [Http1Next]_http1Vars
        => [(~open' /\ connData' # NoData)
              => ~open /\ (connData' = connData \/ (due /\ ~due'))]_http1Vars
  BY ClosedDataStays, CloseDeletes
<1> QED
  BY <1>1, Http1Inv, PTL DEF Http1Spec, DataAfterClose

-----------------------------------------------------------------------------
(* Where the parser is in what the client sends *)

\* The place of a request's empty line.
EndAt(r) == 3 + (IF r.close THEN 1 ELSE 0) + (IF r.body # <<>> THEN 1 ELSE 0)

HeadOr(s, x) == IF s = <<>> THEN x ELSE s[1]

\* The pieces of s, then x, are sent one after the other.
Follow(s, x) ==
  \A i \in 1 .. Len(s) : NextPiece(s[i]) = IF i = Len(s) THEN x ELSE s[i + 1]

Coming == HeadOr(arrived, unsent)
ToRead == HeadOr(inBuffer, Coming)

InOrder == Follow(arrived, unsent) /\ Follow(inBuffer, Coming)

\* A request line may be found without its first byte: a loop that ended has lost it.
LineInStep(p, x) ==
  /\ p.contentLength = 0 /\ p.bodyBytesRead = 0
  /\ x.at = 2 \/ (x.at = 1 /\ p.lineBuf = <<>>)

HeadersInStep(p, x) ==
  LET r == script[p.req] IN
  /\ x.req = p.req /\ x.at \in 3 .. EndAt(r)
  /\ p.contentLength = IF r.body # <<>> /\ x.at = EndAt(r) THEN Len(r.body) ELSE 0
  /\ p.bodyBytesRead = 0

\* A zero byte that was lost leaves a body that never ends.
BodyInStep(p, x) ==
  LET r    == script[p.req]
      here == EndAt(r) + 1 + p.bodyBytesRead
  IN
  /\ p.contentLength = Len(r.body) /\ p.bodyBytesRead < p.contentLength
  /\ \/ x.req = p.req /\ x.at = here
     \/ p.req = Len(script) /\ (x.req > p.req \/ (x.req = p.req /\ x.at > here))

DoneInStep(p, x) == x = FirstPiece(p.req + 1) \/ (pipelined /\ p.close)

CloseInStep(p, x) ==
  /\ p.state = "RequestLine" => ~p.close
  /\ p.state = "Headers" => (p.close <=> script[p.req].close /\ x.at > 3)
  /\ p.state \in {"Body", "Done"} => (p.close <=> script[p.req].close)

InStep(p, x) ==
  /\ CloseInStep(p, x)
  /\ p.state = "RequestLine" => LineInStep(p, x)
  /\ p.state # "RequestLine" => p.req \in DOMAIN script
  /\ p.state = "Headers" => HeadersInStep(p, x)
  /\ p.state = "Body" => BodyInStep(p, x)
  /\ p.state = "Done" => DoneInStep(p, x)

ParserInv ==
  /\ InOrder
  /\ open => InStep(DataOf.parser, ToRead)
  /\ phase = "parse" => open /\ connData \in HttpConnData

-----------------------------------------------------------------------------
(* A client that waits for its answers *)

NotTooMuch == Len(received) + Len(outBuffer) <= AnswerSize * Len(handled)

\* Nothing of the request after the one to be handled next.
InTime(s) == \A i \in DOMAIN s : s[i].req <= Len(handled) + 1

\* The request the parser is at is the one after those that were handled.
AtNext(p, x) ==
  /\ p.state = "RequestLine" => x.req = Len(handled) + 1 /\ (p.lineBuf = <<>> => x.at = 1)
  /\ p.state \in {"Headers", "Body"} => p.req = Len(handled) + 1
  /\ p.state = "Done" => p.req = IF phase = "parse" THEN Len(handled) + 1 ELSE Len(handled)

\* The answer to the last request is on its way, and nothing else arrives before
\* it is complete.
Closing ==
  /\ DataOf.parser.state = "Done"
  /\ inBuffer = <<>>
  /\ wc = 0 => arrived = <<>> /\ Len(received) < AnswerSize * Len(handled)

NoneCloses == \A n \in DOMAIN handled : ~script[n].close

\* A connection that is not to be used again is closed before anything is read.
LastAnswer ==
  /\ phase = "parse" => DataOf.shouldKeepAlive
  /\ DataOf.shouldKeepAlive => (DataOf.parser.state = "Done" => phase = "parse")
  /\ DataOf.shouldKeepAlive => NoneCloses
  /\ ~DataOf.shouldKeepAlive => Closing

Cuts ==
  /\ handled = [n \in DOMAIN handled |-> n]
  /\ \A n \in DOMAIN handled : script[n].close => n = Len(handled)

WaitingInv ==
  /\ ~aborted => /\ NotTooMuch /\ InTime(arrived) /\ InTime(inBuffer)
                 /\ open => AtNext(DataOf.parser, ToRead) /\ LastAnswer
  /\ Cuts

\* Where the empty line is.
LEMMA EndAtOf ==
  ASSUME NEW r
  PROVE  /\ EndAt(r) \in 3 .. 5
         /\ r.close /\ r.body # <<>> => EndAt(r) = 5
         /\ r.close /\ r.body = <<>> => EndAt(r) = 4
         /\ ~r.close /\ r.body # <<>> => EndAt(r) = 4
         /\ ~r.close /\ r.body = <<>> => EndAt(r) = 3
BY DEF EndAt

-----------------------------------------------------------------------------
(* Pieces of requests *)

\* Short sequences, put together.
LEMMA PairAndOne ==
  ASSUME NEW S, NEW a \in S, NEW b \in S, NEW c \in S
  PROVE  <<a, b>> \o <<c>> = <<a, b, c>>
<1>1. <<a, b>> \in Seq(S) /\ <<c>> \in Seq(S) /\ <<a, b, c>> \in Seq(S)
  OBVIOUS
<1> DEFINE s == <<a, b>> \o <<c>>
           t == <<a, b, c>>
<1>2. s \in Seq(S) /\ Len(s) = 3 /\ \A i \in 1 .. 3 : s[i] = t[i]
  BY <1>1, ConcatProperties
<1>3. t \in Seq(S) /\ Len(t) = 3
  BY <1>1
<1> HIDE DEF s, t
<1>4. s = t
  BY <1>2, <1>3, SeqEqual
<1> QED
  BY <1>4 DEF s, t

\* The same after three.
LEMMA TripleAndOne ==
  ASSUME NEW S, NEW a \in S, NEW b \in S, NEW c \in S, NEW d \in S
  PROVE  <<a, b, c>> \o <<d>> = <<a, b, c, d>>
<1>1. <<a, b, c>> \in Seq(S) /\ <<d>> \in Seq(S) /\ <<a, b, c, d>> \in Seq(S)
  OBVIOUS
<1> DEFINE s == <<a, b, c>> \o <<d>>
           t == <<a, b, c, d>>
<1>2. s \in Seq(S) /\ Len(s) = 4 /\ \A i \in 1 .. 4 : s[i] = t[i]
  BY <1>1, ConcatProperties
<1>3. t \in Seq(S) /\ Len(t) = 4
  BY <1>1
<1> HIDE DEF s, t
<1>4. s = t
  BY <1>2, <1>3, SeqEqual
<1> QED
  BY <1>4 DEF s, t

Kinds == {"first", "line", "bad", "close", "length", "end", "byte", "zero"}

\* What the pieces of a request are, by their places.
LEMMA PiecesOf ==
  ASSUME NEW r \in Request
  PROVE  /\ Len(Pieces(r)) = EndAt(r) + Len(r.body) /\ DOMAIN Pieces(r) = 1 .. Len(Pieces(r))
         /\ Len(r.body) \in Nat /\ EndAt(r) \in 3 .. 5
         /\ Pieces(r)[1] = "first" /\ Pieces(r)[2] \in {"line", "bad"}
         /\ Pieces(r)[EndAt(r)] = "end"
         /\ \A i \in 3 .. EndAt(r) - 1 : Pieces(r)[i] = IF i = 3 /\ r.close THEN "close" ELSE "length"
         /\ \A i \in 1 .. Len(r.body) : Pieces(r)[EndAt(r) + i] = r.body[i]
<1> DEFINE k == IF r.valid THEN "line" ELSE "bad"
<1>0. /\ r.body \in Seq({"byte", "zero"}) /\ Len(r.body) \in Nat /\ r.close \in BOOLEAN
      /\ k \in {"line", "bad"}
  BY DEF Request
<1>1. ASSUME NEW head \in Seq(Kinds), Pieces(r) = head \o r.body, Len(head) = EndAt(r),
             head[1] = "first", head[2] = k, head[EndAt(r)] = "end",
             \A i \in 3 .. EndAt(r) - 1 : head[i] = IF i = 3 /\ r.close THEN "close" ELSE "length",
             EndAt(r) \in 3 .. 5
      PROVE  /\ Len(Pieces(r)) = EndAt(r) + Len(r.body) /\ DOMAIN Pieces(r) = 1 .. Len(Pieces(r))
             /\ Pieces(r)[1] = "first" /\ Pieces(r)[2] \in {"line", "bad"}
             /\ Pieces(r)[EndAt(r)] = "end"
             /\ \A i \in 3 .. EndAt(r) - 1 : Pieces(r)[i] = IF i = 3 /\ r.close THEN "close" ELSE "length"
             /\ \A i \in 1 .. Len(r.body) : Pieces(r)[EndAt(r) + i] = r.body[i]
  <2>1. r.body \in Seq(Kinds)
    <3>1. {"byte", "zero"} \subseteq Kinds
      BY DEF Kinds
    <3> QED
      BY <1>0, <3>1, SeqMonotonic, Zenon
  <2>2. head \o r.body \in Seq(Kinds) /\ Len(head \o r.body) = EndAt(r) + Len(r.body)
    BY <1>1, <2>1, ConcatProperties
  <2>3. \A i \in 1 .. EndAt(r) : Pieces(r)[i] = head[i]
    BY <1>0, <1>1, <2>1, ConcatProperties
  <2>4. \A i \in 1 .. Len(r.body) : Pieces(r)[EndAt(r) + i] = r.body[i]
    BY <1>0, <1>1, <2>1, ConcatProperties
  <2>5. DOMAIN Pieces(r) = 1 .. Len(Pieces(r))
    BY <1>1, <2>2, LenProperties
  <2> QED
    BY <1>0, <1>1, <2>2, <2>3, <2>4, <2>5, SMTT(30)
<1> HIDE DEF k
<1>2. CASE r.close /\ r.body # <<>>
  <2>1. EndAt(r) = 5
    BY <1>2 DEF EndAt
  <2>2. Pieces(r) = <<"first", k, "close", "length", "end">> \o r.body
    BY <1>2 DEF Pieces, When, k
  <2> QED
    BY <1>0, <1>1, <1>2, <2>1, <2>2 DEF Kinds
<1>3. CASE r.close /\ r.body = <<>>
  <2>1. EndAt(r) = 4
    BY <1>3 DEF EndAt
  <2>2. Pieces(r) = <<"first", k, "close", "end">> \o r.body
    <3>1. Pieces(r) = <<"first", k>> \o <<"close">> \o <<>> \o <<"end">> \o r.body
      BY <1>3, Zenon DEF Pieces, When, k
    <3>2. "first" \in Kinds /\ k \in Kinds /\ "close" \in Kinds /\ "end" \in Kinds
      BY <1>0 DEF Kinds
    <3>3. <<"first", k>> \o <<"close">> = <<"first", k, "close">> /\ <<"first", k, "close">> \in Seq(Kinds)
      BY <3>2, PairAndOne
    <3>4. <<"first", k, "close">> \o <<>> = <<"first", k, "close">>
      BY <3>3, ConcatEmptySeq, Zenon
    <3>5. <<"first", k, "close">> \o <<"end">> = <<"first", k, "close", "end">>
      BY <3>2, TripleAndOne
    <3> QED
      BY <3>1, <3>3, <3>4, <3>5, Zenon
  <2> QED
    BY <1>0, <1>1, <1>3, <2>1, <2>2 DEF Kinds
<1>4. CASE ~r.close /\ r.body # <<>>
  <2>1. EndAt(r) = 4
    BY <1>4 DEF EndAt
  <2>2. Pieces(r) = <<"first", k, "length", "end">> \o r.body
    BY <1>4 DEF Pieces, When, k
  <2> QED
    BY <1>0, <1>1, <1>4, <2>1, <2>2 DEF Kinds
<1>5. CASE ~r.close /\ r.body = <<>>
  <2>1. EndAt(r) = 3
    BY <1>5 DEF EndAt
  <2>2. Pieces(r) = <<"first", k, "end">> \o r.body
    <3>1. Pieces(r) = <<"first", k>> \o <<>> \o <<>> \o <<"end">> \o r.body
      BY <1>5, Zenon DEF Pieces, When, k
    <3>2. "first" \in Kinds /\ k \in Kinds /\ "end" \in Kinds
      BY <1>0 DEF Kinds
    <3>3. <<"first", k>> \o <<>> = <<"first", k>>
      BY <3>2, <<"first", k>> \in Seq(Kinds), ConcatEmptySeq, Zenon
    <3>4. <<"first", k>> \o <<"end">> = <<"first", k, "end">>
      BY <3>2, PairAndOne
    <3> QED
      BY <3>1, <3>3, <3>4, Zenon
  <2> QED
    BY <1>0, <1>1, <1>5, <2>1, <2>2 DEF Kinds
<1> QED
  BY <1>0, <1>2, <1>3, <1>4, <1>5

\* A place past the end of the headers is one of the body.
LEMMA PastTheHead ==
  ASSUME NEW e \in 3 .. 5, NEW n \in Nat, NEW a \in 1 .. e + n
  PROVE  /\ a > e => a - e \in 1 .. n /\ e + (a - e) = a
         /\ a > 2 /\ a < e => a \in 3 .. e - 1
OBVIOUS

\* A piece is told from the others by its place.
LEMMA KindOf ==
  ASSUME script \in Seq(Request), NEW x \in SentPieces
  PROVE  LET r == script[x.req] IN
         /\ x.req \in DOMAIN script /\ r \in Request
         /\ x.at \in 1 .. EndAt(r) + Len(r.body)
         /\ x.at = 1 => Kind(x) = "first"
         /\ x.at = 2 => Kind(x) \in {"line", "bad"}
         /\ x.at = 3 /\ x.at < EndAt(r) /\ r.close => Kind(x) = "close"
         /\ x.at > 2 /\ x.at < EndAt(r) /\ (x.at > 3 \/ ~r.close) => Kind(x) = "length"
         /\ x.at = EndAt(r) => Kind(x) = "end"
         /\ x.at > EndAt(r) => Kind(x) \in {"byte", "zero"} /\ Kind(x) = r.body[x.at - EndAt(r)]
<1> DEFINE r == script[x.req]
<1>1. x.req \in DOMAIN script /\ x.at \in DOMAIN Pieces(r)
  BY DEF SentPieces
<1>2. r \in Request
  BY <1>1, ElementOfSeq
<1>3. /\ Len(Pieces(r)) = EndAt(r) + Len(r.body) /\ DOMAIN Pieces(r) = 1 .. Len(Pieces(r))
      /\ Len(r.body) \in Nat /\ EndAt(r) \in 3 .. 5
      /\ Pieces(r)[1] = "first" /\ Pieces(r)[2] \in {"line", "bad"}
      /\ Pieces(r)[EndAt(r)] = "end"
      /\ \A i \in 3 .. EndAt(r) - 1 : Pieces(r)[i] = IF i = 3 /\ r.close THEN "close" ELSE "length"
      /\ \A i \in 1 .. Len(r.body) : Pieces(r)[EndAt(r) + i] = r.body[i]
  BY <1>2, PiecesOf, Zenon
<1>4. Kind(x) = Pieces(r)[x.at]
  BY DEF Kind
<1> HIDE DEF r
<1>5. x.at \in 1 .. EndAt(r) + Len(r.body) /\ EndAt(r) \in 3 .. 5 /\ Len(r.body) \in Nat
  BY <1>1, <1>3, Zenon
<1>6. /\ x.at = 1 => Kind(x) = "first"
      /\ x.at = 2 => Kind(x) \in {"line", "bad"}
      /\ x.at = 3 /\ x.at < EndAt(r) /\ r.close => Kind(x) = "close"
      /\ x.at > 2 /\ x.at < EndAt(r) /\ (x.at > 3 \/ ~r.close) => Kind(x) = "length"
      /\ x.at = EndAt(r) => Kind(x) = "end"
  <2>1. x.at > 2 /\ x.at < EndAt(r) => x.at \in 3 .. EndAt(r) - 1
    BY <1>5, PastTheHead, Zenon
  <2>2. x.at > 2 /\ x.at < EndAt(r) =>
          Kind(x) = IF x.at = 3 /\ r.close THEN "close" ELSE "length"
    BY <1>3, <1>4, <2>1, Zenon
  <2>3. /\ x.at = 1 => Kind(x) = "first"
        /\ x.at = 2 => Kind(x) \in {"line", "bad"}
        /\ x.at = EndAt(r) => Kind(x) = "end"
    BY <1>3, <1>4, Zenon
  <2> QED
    BY <1>5, <2>2, <2>3
<1>7. ASSUME x.at > EndAt(r)
      PROVE  Kind(x) \in {"byte", "zero"} /\ Kind(x) = r.body[x.at - EndAt(r)]
  <2>1. x.at - EndAt(r) \in 1 .. Len(r.body) /\ EndAt(r) + (x.at - EndAt(r)) = x.at
    BY <1>5, <1>7, PastTheHead, Zenon
  <2>2. Pieces(r)[EndAt(r) + (x.at - EndAt(r))] = r.body[x.at - EndAt(r)]
    BY <1>3, <2>1, Zenon
  <2>3. r.body[x.at - EndAt(r)] \in {"byte", "zero"}
    BY <1>2, <2>1, ElementOfSeq DEF Request
  <2> QED
    BY <1>4, <2>1, <2>2, <2>3
<1> QED
  BY <1>1, <1>2, <1>5, <1>6, <1>7 DEF r

\* A zero byte is sent by the last request only.
LEMMA ZeroIsLate ==
  ASSUME ScriptsAssumption, script \in Scripts, NEW x \in SentPieces, Kind(x) = "zero"
  PROVE  x.req = Len(script) /\ x.at > EndAt(script[x.req])
<1> DEFINE r == script[x.req]
<1>0. script \in Seq(Request)
  BY DEF ScriptsAssumption
<1>1. /\ x.req \in DOMAIN script /\ r \in Request
      /\ x.at \in 1 .. EndAt(r) + Len(r.body)
      /\ x.at = 1 => Kind(x) = "first"
      /\ x.at = 2 => Kind(x) \in {"line", "bad"}
      /\ x.at = 3 /\ x.at < EndAt(r) /\ r.close => Kind(x) = "close"
      /\ x.at > 2 /\ x.at < EndAt(r) /\ (x.at > 3 \/ ~r.close) => Kind(x) = "length"
      /\ x.at = EndAt(r) => Kind(x) = "end"
      /\ x.at > EndAt(r) => Kind(x) = r.body[x.at - EndAt(r)]
  BY <1>0, KindOf, Zenon
<1>2. EndAt(r) \in 3 .. 5 /\ Len(r.body) \in Nat /\ r.body \in Seq({"byte", "zero"})
  BY <1>1 DEF EndAt, Request
<1> HIDE DEF r
<1>3. x.at > EndAt(r)
  BY <1>1, <1>2
<1>4. x.at - EndAt(r) \in DOMAIN r.body
  BY <1>1, <1>2, <1>3
<1>5. "zero" \in Range(r.body)
  BY <1>1, <1>3, <1>4 DEF Range
<1> QED
  BY <1>1, <1>3, <1>5 DEF ScriptsAssumption, r

\* The client's next piece is one of a request, or it has sent them all.
LEMMA NextPieceType ==
  ASSUME script \in Seq(Request), NEW x \in SentPieces
  PROVE  NextPiece(x) \in SentPieces \cup {FirstPiece(Len(script) + 1)}
<1> DEFINE r == script[x.req]
<1>1. /\ x \in [req : DOMAIN script, at : Nat] /\ x.req \in DOMAIN script /\ x.at \in DOMAIN Pieces(r)
  BY DEF SentPieces
<1>2. DOMAIN script = 1 .. Len(script) /\ Len(script) \in Nat
  OBVIOUS
<1>3. \A n \in DOMAIN script : Len(Pieces(script[n])) \in Nat /\ 1 \in DOMAIN Pieces(script[n])
                               /\ DOMAIN Pieces(script[n]) = 1 .. Len(Pieces(script[n]))
  <2> SUFFICES ASSUME NEW n \in DOMAIN script
               PROVE  Len(Pieces(script[n])) \in Nat /\ 1 \in DOMAIN Pieces(script[n])
                      /\ DOMAIN Pieces(script[n]) = 1 .. Len(Pieces(script[n]))
    OBVIOUS
  <2>1. script[n] \in Request
    BY ElementOfSeq
  <2> DEFINE s == script[n]
  <2>2. /\ Len(Pieces(s)) = EndAt(s) + Len(s.body) /\ DOMAIN Pieces(s) = 1 .. Len(Pieces(s))
        /\ Len(s.body) \in Nat /\ EndAt(s) \in 3 .. 5
    BY <2>1, PiecesOf, Zenon
  <2> HIDE DEF s
  <2>3. Len(Pieces(s)) \in Nat /\ 1 \in DOMAIN Pieces(s)
    BY <2>2
  <2> QED
    BY <2>2, <2>3 DEF s
<1>4. CASE x.at < Len(Pieces(r))
  <2>1. NextPiece(x) = [x EXCEPT !.at = @ + 1]
    BY <1>4 DEF NextPiece
  <2>2. NextPiece(x).req = x.req /\ NextPiece(x).at = x.at + 1
        /\ NextPiece(x) \in [req : DOMAIN script, at : Nat]
    BY <1>1, <2>1
  <2>3. x.at + 1 \in DOMAIN Pieces(r)
    BY <1>1, <1>3, <1>4
  <2> QED
    BY <2>2, <2>3 DEF SentPieces
<1>5. CASE ~(x.at < Len(Pieces(r)))
  <2>1. NextPiece(x) = FirstPiece(x.req + 1)
    BY <1>5 DEF NextPiece
  <2>2. CASE x.req = Len(script)
    BY <2>1, <2>2
  <2>3. CASE x.req # Len(script)
    <3>1. x.req + 1 \in DOMAIN script
      BY <1>1, <1>2, <2>3
    <3>2. 1 \in DOMAIN Pieces(script[x.req + 1])
      BY <1>3, <3>1
    <3> QED
      BY <2>1, <3>1, <3>2 DEF SentPieces, FirstPiece
  <2> QED
    BY <2>2, <2>3
<1> QED
  BY <1>4, <1>5

-----------------------------------------------------------------------------
(* Pieces that follow one another *)

\* Order is kept when the client sends its next piece,
LEMMA FollowAppend ==
  ASSUME NEW S, NEW s \in Seq(S), NEW x \in S, Follow(s, x)
  PROVE  Follow(Append(s, x), NextPiece(x))
<1> DEFINE t == Append(s, x)
<1>1. /\ Len(s) \in Nat /\ Len(t) = Len(s) + 1 /\ t[Len(s) + 1] = x
      /\ \A i \in 1 .. Len(s) : t[i] = s[i]
  BY AppendProperties
<1> HIDE DEF t
<1>2. SUFFICES ASSUME NEW i \in 1 .. Len(t)
               PROVE  NextPiece(t[i]) = IF i = Len(t) THEN NextPiece(x) ELSE t[i + 1]
  BY DEF Follow, t
<1>3. CASE i = Len(t)
  BY <1>1, <1>3
<1>4. CASE i = Len(s)
  <2>1. t[i] = s[i] /\ i \in 1 .. Len(s) /\ t[i + 1] = x
    BY <1>1, <1>2, <1>4
  <2>2. NextPiece(s[i]) = x
    BY <1>4, <2>1 DEF Follow
  <2> QED
    BY <1>1, <1>4, <2>1, <2>2
<1>5. CASE i # Len(t) /\ i # Len(s)
  <2>1. t[i] = s[i] /\ i \in 1 .. Len(s) /\ t[i + 1] = s[i + 1]
    BY <1>1, <1>2, <1>5
  <2>2. NextPiece(s[i]) = s[i + 1]
    BY <1>5, <2>1 DEF Follow
  <2> QED
    BY <1>5, <2>1, <2>2
<1> QED
  BY <1>3, <1>4, <1>5

\* when the parser takes one,
LEMMA FollowTail ==
  ASSUME NEW S, NEW s \in Seq(S), NEW x, s # <<>>, Follow(s, x)
  PROVE  Follow(Tail(s), x) /\ HeadOr(Tail(s), x) = NextPiece(s[1])
<1> DEFINE t == Tail(s)
<1>1. /\ t \in Seq(S) /\ Len(t) \in Nat /\ Len(s) = Len(t) + 1
      /\ \A i \in 1 .. Len(t) : t[i] = s[i + 1]
  BY HeadTailProperties
<1>2. t = <<>> <=> Len(t) = 0
  BY <1>1, EmptySeq
<1> HIDE DEF t
<1>3. Follow(t, x)
  <2>1. SUFFICES ASSUME NEW i \in 1 .. Len(t)
                 PROVE  NextPiece(t[i]) = IF i = Len(t) THEN x ELSE t[i + 1]
    BY DEF Follow
  <2>2. i + 1 \in 1 .. Len(s) /\ t[i] = s[i + 1]
    BY <1>1, <2>1
  <2>3. NextPiece(s[i + 1]) = IF i + 1 = Len(s) THEN x ELSE s[i + 1 + 1]
    BY <2>2 DEF Follow
  <2>4. CASE i = Len(t)
    BY <1>1, <2>2, <2>3, <2>4
  <2>5. CASE i # Len(t)
    <3>1. i + 1 \in 1 .. Len(t) /\ i + 1 # Len(s)
      BY <1>1, <2>1, <2>5
    <3>2. t[i + 1] = s[i + 1 + 1]
      BY <1>1, <3>1
    <3> QED
      BY <2>2, <2>3, <2>5, <3>1, <3>2
  <2> QED
    BY <2>4, <2>5
<1>4. NextPiece(s[1]) = IF 1 = Len(s) THEN x ELSE s[2]
  BY <1>1 DEF Follow
<1>5. HeadOr(t, x) = NextPiece(s[1])
  BY <1>1, <1>2, <1>4 DEF HeadOr
<1> QED
  BY <1>3, <1>5 DEF t

\* and when what has arrived is read.
LEMMA FollowConcat ==
  ASSUME NEW S, NEW s \in Seq(S), NEW t \in Seq(S), NEW x, Follow(s, HeadOr(t, x)), Follow(t, x)
  PROVE  Follow(s \o t, x) /\ HeadOr(s \o t, x) = HeadOr(s, HeadOr(t, x))
<1> DEFINE u == s \o t
<1>1. /\ u \in Seq(S) /\ Len(s) \in Nat /\ Len(t) \in Nat /\ Len(u) = Len(s) + Len(t)
      /\ \A i \in 1 .. Len(s) : u[i] = s[i]
      /\ \A i \in 1 .. Len(t) : u[Len(s) + i] = t[i]
  BY ConcatProperties
<1>2. (s = <<>> <=> Len(s) = 0) /\ (t = <<>> <=> Len(t) = 0) /\ (u = <<>> <=> Len(u) = 0)
  BY <1>1, EmptySeq
<1> HIDE DEF u
<1>3. HeadOr(u, x) = HeadOr(s, HeadOr(t, x))
  <2>1. CASE Len(s) = 0
    BY <1>1, <1>2, <2>1 DEF HeadOr
  <2>2. CASE Len(s) > 0
    BY <1>1, <1>2, <2>2 DEF HeadOr
  <2> QED
    BY <1>1, <2>1, <2>2
<1>4. SUFFICES ASSUME NEW i \in 1 .. Len(u)
               PROVE  NextPiece(u[i]) = IF i = Len(u) THEN x ELSE u[i + 1]
  BY <1>3 DEF Follow, u
<1>5. CASE i <= Len(s)
  <2>1. i \in 1 .. Len(s) /\ u[i] = s[i]
    BY <1>1, <1>4, <1>5
  <2>2. NextPiece(s[i]) = IF i = Len(s) THEN HeadOr(t, x) ELSE s[i + 1]
    BY <2>1 DEF Follow
  <2>3. CASE i = Len(s)
    <3>1. CASE Len(t) = 0
      BY <1>1, <1>2, <2>1, <2>2, <2>3, <3>1 DEF HeadOr
    <3>2. CASE Len(t) > 0
      <4>1. u[Len(s) + 1] = t[1] /\ i # Len(u)
        BY <1>1, <2>3, <3>2
      <4> QED
        BY <1>2, <2>1, <2>2, <2>3, <3>2, <4>1 DEF HeadOr
    <3> QED
      BY <1>1, <3>1, <3>2
  <2>4. CASE i # Len(s)
    <3>1. i + 1 \in 1 .. Len(s) /\ i # Len(u)
      BY <1>1, <2>1, <2>4
    <3> QED
      BY <1>1, <2>1, <2>2, <2>4, <3>1
  <2> QED
    BY <2>3, <2>4
<1>6. CASE i > Len(s)
  <2> DEFINE j == i - Len(s)
  <2>1. j \in 1 .. Len(t) /\ i = Len(s) + j
    BY <1>1, <1>4, <1>6
  <2> HIDE DEF j
  <2>2. u[i] = t[j]
    BY <1>1, <2>1
  <2>3. NextPiece(t[j]) = IF j = Len(t) THEN x ELSE t[j + 1]
    BY <2>1 DEF Follow
  <2>4. CASE j = Len(t)
    BY <1>1, <2>1, <2>2, <2>3, <2>4
  <2>5. CASE j # Len(t)
    <3>1. j + 1 \in 1 .. Len(t) /\ i + 1 = Len(s) + (j + 1) /\ i # Len(u)
      BY <1>1, <2>1, <2>5
    <3>2. u[i + 1] = t[j + 1]
      BY <1>1, <3>1
    <3> QED
      BY <2>2, <2>3, <2>5, <3>1, <3>2
  <2> QED
    BY <2>4, <2>5
<1> QED
  BY <1>1, <1>4, <1>5, <1>6

-----------------------------------------------------------------------------
(* The parser and the piece it is given *)

\* What comes after a piece, by its place.
LEMMA NextOf ==
  ASSUME script \in Seq(Request), NEW x \in SentPieces
  PROVE  LET r == script[x.req] IN
         /\ x.at < EndAt(r) + Len(r.body) => NextPiece(x).req = x.req /\ NextPiece(x).at = x.at + 1
         /\ x.at = EndAt(r) + Len(r.body) => NextPiece(x) = FirstPiece(x.req + 1)
<1> DEFINE r == script[x.req]
<1>1. x.req \in DOMAIN script /\ r \in Request /\ x \in [req : DOMAIN script, at : Nat]
  BY KindOf, Zenon DEF SentPieces
<1>2. Len(Pieces(r)) = EndAt(r) + Len(r.body) /\ EndAt(r) \in 3 .. 5 /\ Len(r.body) \in Nat
  BY <1>1, PiecesOf, Zenon
<1>3. NextPiece(x) = IF x.at < Len(Pieces(r)) THEN [x EXCEPT !.at = @ + 1] ELSE FirstPiece(x.req + 1)
  BY Zenon DEF NextPiece
<1> HIDE DEF r
<1> QED
  BY <1>1, <1>2, <1>3 DEF r

\* The first byte of a line.
LEMMA AppendToEmpty == Append(<<>>, "first") = <<"first">>
<1>1. /\ <<>> \in Seq({"first"}) /\ <<"first">> \in Seq({"first"})
      /\ Len(<<>>) = 0 /\ Len(<<"first">>) = 1 /\ <<"first">>[1] = "first"
  OBVIOUS
<1> DEFINE s == Append(<<>>, "first")
<1>2. s \in Seq({"first"}) /\ Len(s) = 1 /\ s[1] = "first"
  BY <1>1, AppendProperties
<1> HIDE DEF s
<1>3. s = <<"first">>
  BY <1>1, <1>2, SeqEqual
<1> QED
  BY <1>3 DEF s

ParserOK(p) ==
  p \in FHttpParser /\ p.req <= Len(script) /\ p.bodyBytesRead <= p.contentLength

\* The request line: the parser takes a piece and stays in step with the next.
LEMMA FeedLine ==
  ASSUME script \in Seq(Request), NEW p, ParserOK(p), NEW x \in SentPieces,
         p.state = "RequestLine", InStep(p, x), Feed(p, x).state # "Error"
  PROVE  ParserOK(Feed(p, x)) /\ InStep(Feed(p, x), NextPiece(x))
<1> DEFINE r == script[x.req]
           q == Feed(p, x)
           y == NextPiece(x)
<1>1. /\ x.req \in DOMAIN script /\ r \in Request
      /\ x.at = 1 => Kind(x) = "first"
      /\ x.at = 2 => Kind(x) \in {"line", "bad"}
  BY KindOf, Zenon
<1>2. /\ x.at < EndAt(r) + Len(r.body) => y.req = x.req /\ y.at = x.at + 1
      /\ x.req \in 1 .. Len(script) /\ Len(script) \in Nat
  <2>1. x.at < EndAt(r) + Len(r.body) => y.req = x.req /\ y.at = x.at + 1
    BY NextOf, Zenon
  <2>2. x.req \in 1 .. Len(script) /\ Len(script) \in Nat
    BY <1>1, LenProperties
  <2> QED
    BY <2>1, <2>2
<1>3. /\ Len(r.body) \in Nat
      /\ EndAt(r) \in 3 .. 5
      /\ r.close /\ r.body # <<>> => EndAt(r) = 5
      /\ r.close /\ r.body = <<>> => EndAt(r) = 4
      /\ ~r.close /\ r.body # <<>> => EndAt(r) = 4
      /\ ~r.close /\ r.body = <<>> => EndAt(r) = 3
  BY <1>1, EndAtOf DEF Request
<1>4. LineInStep(p, x) /\ ~p.close
  BY Zenon DEF InStep, CloseInStep
<1> HIDE DEF r, y
<1>5. CASE x.at = 1
  <2>1. q = [p EXCEPT !.lineBuf = Append(@, "first")]
    BY <1>1, <1>5 DEF Feed
  <2>2. p.lineBuf = <<>> /\ Append(p.lineBuf, "first") = <<"first">>
    <3>1. p.lineBuf = <<>>
      BY <1>5, <1>4 DEF LineInStep
    <3>2. Append(<<>>, "first") = <<"first">>
      BY AppendToEmpty
    <3> QED
      BY <3>1, <3>2, Zenon
  <2>3. q = [p EXCEPT !.lineBuf = <<"first">>]
    BY <2>1, <2>2
  <2> HIDE DEF q
  <2>4. q.state = "RequestLine" /\ LineInStep(q, y)
    BY <1>2, <1>3, <1>5, <1>4, <2>3 DEF LineInStep, ParserOK, FHttpParser
  <2>5. ParserOK(q)
    BY <2>3 DEF ParserOK, FHttpParser
  <2>6. q.close = p.close
    BY <2>3 DEF ParserOK, FHttpParser
  <2>7. CloseInStep(q, y)
    BY <1>4, <2>4, <2>6, Zenon DEF CloseInStep
  <2> QED
    BY <2>4, <2>5, <2>7 DEF InStep, q, y
<1>6. CASE x.at = 2
  <2>1. q = [p EXCEPT !.state = "Headers", !.lineBuf = <<>>, !.req = x.req]
    BY <1>1, <1>6 DEF Feed, ParseRequestLine, ParserOK, FHttpParser
  <2> HIDE DEF q
  <2>2. /\ q.state = "Headers" /\ q.req = x.req /\ q.close = p.close /\ q.contentLength = 0
        /\ q.bodyBytesRead = 0
    BY <1>4, <2>1 DEF ParserOK, FHttpParser, LineInStep
  <2>3. HeadersInStep(q, y)
    BY <1>2, <1>3, <1>6, <2>2 DEF HeadersInStep, r
  <2>4. ParserOK(q)
    <3>1. x.req \in Nat /\ x.req <= Len(script)
      BY <1>2
    <3> QED
      BY <2>1, <3>1 DEF ParserOK, FHttpParser
  <2>5. y.at = 3
    BY <1>2, <1>3, <1>6
  <2>6. CloseInStep(q, y)
    BY <1>4, <2>2, <2>5, ~(3 > 3), Zenon DEF CloseInStep
  <2> QED
    BY <1>1, <2>2, <2>3, <2>4, <2>6 DEF InStep, q, y
<1> QED
  BY <1>5, <1>6, <1>4 DEF LineInStep

\* Where the headers lead, unless Content-Length is no number or too large a one.
LEMMA EndHeadersOf ==
  ASSUME NEW p, p.contentLength \in Nat, script[p.req] \in Request
  PROVE  EndHeaders(p) \in {"Error", "Thrown", IF p.contentLength > 0 THEN "Body" ELSE "Done"}
<1>1. script[p.req].length \in {"digits", "noNumber", "tooLarge"}
  BY DEF Request
<1> QED
  BY <1>1 DEF EndHeaders

\* The headers: the same.
LEMMA FeedHeaders ==
  ASSUME script \in Seq(Request), NEW p, ParserOK(p), NEW x \in SentPieces,
         p.state = "Headers", InStep(p, x), Feed(p, x).state \notin {"Error", "Thrown"}
  PROVE  ParserOK(Feed(p, x)) /\ InStep(Feed(p, x), NextPiece(x))
<1> DEFINE r == script[x.req]
           q == Feed(p, x)
           y == NextPiece(x)
<1>1. /\ x.req \in DOMAIN script /\ r \in Request
      /\ x.at = 3 /\ x.at < EndAt(r) /\ r.close => Kind(x) = "close"
      /\ x.at > 2 /\ x.at < EndAt(r) /\ (x.at > 3 \/ ~r.close) => Kind(x) = "length"
      /\ x.at = EndAt(r) => Kind(x) = "end"
  BY KindOf, Zenon
<1>2. /\ x.at < EndAt(r) + Len(r.body) => y.req = x.req /\ y.at = x.at + 1
      /\ x.at = EndAt(r) + Len(r.body) => y = FirstPiece(x.req + 1)
  BY NextOf, Zenon
<1>3. /\ Len(r.body) \in Nat /\ (r.body = <<>> <=> Len(r.body) = 0)
      /\ EndAt(r) \in 3 .. 5
      /\ r.close /\ r.body # <<>> => EndAt(r) = 5
      /\ r.close /\ r.body = <<>> => EndAt(r) = 4
      /\ ~r.close /\ r.body # <<>> => EndAt(r) = 4
      /\ ~r.close /\ r.body = <<>> => EndAt(r) = 3
  BY <1>1, EmptySeq, EndAtOf DEF Request
<1>4. /\ x.req = p.req /\ x.at \in 3 .. EndAt(r)
      /\ p.contentLength = IF r.body # <<>> /\ x.at = EndAt(r) THEN Len(r.body) ELSE 0
      /\ p.bodyBytesRead = 0
  <2>1. HeadersInStep(p, x)
    BY Zenon DEF InStep
  <2> QED
    BY <2>1 DEF HeadersInStep
<1>5. p.close <=> r.close /\ x.at > 3
  BY <1>4, Zenon DEF InStep, CloseInStep
<1> HIDE DEF r, y
<1>6. CASE x.at = 3 /\ x.at < EndAt(r) /\ r.close
  <2>1. q = [p EXCEPT !.close = TRUE]
    BY <1>1, <1>6 DEF Feed
  <2> HIDE DEF q
  <2>2. q.state = "Headers" /\ q.req = x.req /\ q.close = TRUE /\ q.contentLength = 0 /\ q.bodyBytesRead = 0
    BY <1>4, <1>6, <2>1 DEF ParserOK, FHttpParser
  <2>3. HeadersInStep(q, y)
    BY <1>2, <1>3, <1>4, <1>6, <2>2 DEF HeadersInStep, r
  <2>4. ParserOK(q)
    BY <2>1 DEF ParserOK, FHttpParser
  <2>5. y.at > 3
    BY <1>2, <1>3, <1>6
  <2>6. CloseInStep(q, y)
    BY <1>6, <2>2, <2>5, Zenon DEF CloseInStep, r
  <2> QED
    BY <1>1, <2>2, <2>3, <2>4, <2>6 DEF InStep, q, y
<1>7. CASE x.at < EndAt(r) /\ (x.at > 3 \/ ~r.close)
  <2>0. Kind(x) = "length"
    BY <1>1, <1>4, <1>7
  <2>1. q = [p EXCEPT !.contentLength = Len(r.body)]
    BY <1>4, <2>0 DEF Feed, r
  <2> HIDE DEF q
  <2>2. /\ q.state = "Headers" /\ q.req = x.req /\ q.close = p.close
        /\ q.contentLength = Len(r.body) /\ q.bodyBytesRead = 0
    BY <1>4, <2>1 DEF ParserOK, FHttpParser
  <2>3. HeadersInStep(q, y)
    BY <1>2, <1>3, <1>4, <1>7, <2>2 DEF HeadersInStep, r
  <2>4. ParserOK(q)
    <3>1. Len(r.body) \in Nat /\ p \in FHttpParser /\ p.req <= Len(script) /\ p.bodyBytesRead = 0
      BY <1>3, <1>4 DEF ParserOK
    <3>2. q \in FHttpParser /\ q.req = p.req
      BY <2>1, <3>1 DEF FHttpParser
    <3> QED
      BY <2>2, <3>1, <3>2 DEF ParserOK
  <2>5. y.at > 3
    BY <1>2, <1>3, <1>4, <1>7
  <2>6. CloseInStep(q, y)
    BY <1>7, <1>5, <2>2, <2>5, Zenon DEF CloseInStep, r
  <2> QED
    BY <1>1, <2>2, <2>3, <2>4, <2>6 DEF InStep, q, y
<1>8. CASE x.at = EndAt(r)
  <2>0. q = [p EXCEPT !.state = EndHeaders(p)]
    BY <1>1, <1>8 DEF Feed
  <2> HIDE DEF q
  <2>1. q = [p EXCEPT !.state = IF p.contentLength > 0 THEN "Body" ELSE "Done"]
    <3>1. EndHeaders(p) \in {"Error", "Thrown", IF p.contentLength > 0 THEN "Body" ELSE "Done"}
      <4>1. p.contentLength \in Nat
        BY DEF ParserOK, FHttpParser
      <4>2. script[p.req] \in Request
        BY <1>1, <1>4, Zenon DEF r
      <4> QED
        BY <4>1, <4>2, EndHeadersOf, Zenon
    <3>2. q.state = EndHeaders(p)
      BY <2>0 DEF ParserOK, FHttpParser
    <3>3. q.state \notin {"Error", "Thrown"}
      BY Zenon DEF q
    <3>4. EndHeaders(p) = IF p.contentLength > 0 THEN "Body" ELSE "Done"
      BY <3>1, <3>2, <3>3, Zenon
    <3> QED
      BY <2>0, <3>4, Zenon
  <2>2. /\ q.state = IF p.contentLength > 0 THEN "Body" ELSE "Done"
        /\ q.req = x.req /\ q.close = p.close
        /\ q.contentLength = Len(r.body) /\ q.bodyBytesRead = 0
    BY <1>3, <1>4, <1>8, <2>1 DEF ParserOK, FHttpParser
  <2>3. p.contentLength > 0 => BodyInStep(q, y)
    BY <1>2, <1>3, <1>4, <1>8, <2>2 DEF BodyInStep, r
  <2>4. ~(p.contentLength > 0) => DoneInStep(q, y)
    <3>1. ~(p.contentLength > 0) => y = FirstPiece(q.req + 1)
      BY <1>2, <1>3, <1>4, <1>8, <2>2
    <3> QED
      BY <3>1, Zenon DEF DoneInStep
  <2>5. ParserOK(q)
    BY <2>1 DEF ParserOK, FHttpParser
  <2>6. x.at > 3 \/ ~r.close
    BY <1>3, <1>8
  <2>7. CloseInStep(q, y)
    BY <1>5, <2>2, <2>6, Zenon DEF CloseInStep, r
  <2> QED
    BY <1>1, <2>2, <2>3, <2>4, <2>5, <2>7 DEF InStep, q, y
<1> QED
  BY <1>3, <1>4, <1>6, <1>7, <1>8

\* The body: the same, to its last byte.
LEMMA FeedBody ==
  ASSUME script \in Seq(Request), NEW p, ParserOK(p), NEW x \in SentPieces,
         p.state = "Body", InStep(p, x)
  PROVE  ParserOK(Feed(p, x)) /\ InStep(Feed(p, x), NextPiece(x))
<1> DEFINE r == script[p.req]
           q == Feed(p, x)
           y == NextPiece(x)
           n == p.bodyBytesRead + 1
<1>1. /\ x.req \in DOMAIN script /\ script[x.req] \in Request
      /\ x.at \in 1 .. EndAt(script[x.req]) + Len(script[x.req].body)
  BY KindOf, Zenon
<1>2. /\ x.at < EndAt(script[x.req]) + Len(script[x.req].body) => y.req = x.req /\ y.at = x.at + 1
      /\ x.at = EndAt(script[x.req]) + Len(script[x.req].body) => y = FirstPiece(x.req + 1)
  BY NextOf, Zenon
<1>3. x.req \in 1 .. Len(script) /\ Len(script) \in Nat
  BY <1>1, LenProperties
<1>4. /\ p.contentLength = Len(r.body) /\ p.bodyBytesRead < p.contentLength
      /\ \/ x.req = p.req /\ x.at = EndAt(r) + 1 + p.bodyBytesRead
         \/ p.req = Len(script) /\ (x.req > p.req \/ (x.req = p.req /\ x.at > EndAt(r) + 1 + p.bodyBytesRead))
  <2>1. BodyInStep(p, x)
    BY Zenon DEF InStep
  <2> QED
    BY <2>1 DEF BodyInStep
<1>5. x.req = p.req
  BY <1>3, <1>4
<1>6. /\ Len(r.body) \in Nat /\ EndAt(r) \in 3 .. 5
  BY <1>1, <1>5 DEF Request, EndAt
<1>7. q = [p EXCEPT !.bodyBytesRead = n, !.state = IF n >= p.contentLength THEN "Done" ELSE "Body"]
  BY Zenon DEF Feed, BodyEnds
<1>8. p.bodyBytesRead \in Nat /\ p.contentLength \in Nat
  BY DEF ParserOK, FHttpParser
<1> HIDE DEF q
<1>9. /\ q.state = IF n >= p.contentLength THEN "Done" ELSE "Body"
      /\ q.req = p.req /\ q.close = p.close /\ q.contentLength = p.contentLength /\ q.bodyBytesRead = n
  BY <1>7 DEF ParserOK, FHttpParser
<1>10. n \in Nat /\ n <= p.contentLength
  BY <1>4, <1>8
<1> HIDE DEF n
<1>11. ParserOK(q)
  BY <1>7, <1>10 DEF ParserOK, FHttpParser
<1> USE DEF n
<1>12. /\ x.at \in 1 .. EndAt(r) + Len(r.body)
       /\ x.at < EndAt(r) + Len(r.body) => y.req = x.req /\ y.at = x.at + 1
       /\ x.at = EndAt(r) + Len(r.body) => y = FirstPiece(x.req + 1)
  BY <1>1, <1>2, <1>5
<1> HIDE DEF r, y
<1>13. n < p.contentLength => BodyInStep(q, y)
  <2> SUFFICES ASSUME n < p.contentLength PROVE BodyInStep(q, y)
    OBVIOUS
  <2>1. \/ y.req = p.req /\ y.at = EndAt(r) + 1 + n
        \/ p.req = Len(script) /\ (y.req > p.req \/ (y.req = p.req /\ y.at > EndAt(r) + 1 + n))
    <3>1. CASE x.at = EndAt(r) + 1 + p.bodyBytesRead
      <4>1. p.contentLength = Len(r.body)
        BY <1>4, Zenon
      <4>2. x.at < EndAt(r) + Len(r.body)
        BY <1>6, <1>8, <3>1, <4>1
      <4>3. y.req = p.req /\ y.at = x.at + 1
        BY <1>5, <1>12, <4>2, Zenon
      <4>4. y.at = EndAt(r) + 1 + n
        BY <1>6, <1>8, <3>1, <4>3
      <4> QED
        BY <4>3, <4>4, Zenon
    <3>2. CASE x.at > EndAt(r) + 1 + p.bodyBytesRead /\ p.req = Len(script)
      <4>1. CASE x.at < EndAt(r) + Len(r.body)
        <5>1. y.req = p.req /\ y.at = x.at + 1 /\ x.at \in 1 .. EndAt(r) + Len(r.body)
          BY <1>5, <1>12, <4>1, Zenon
        <5>2. y.at > EndAt(r) + 1 + n
          BY <1>6, <1>8, <3>2, <5>1, SMTT(30)
        <5> QED
          BY <3>2, <5>1, <5>2, Zenon
      <4>2. CASE x.at = EndAt(r) + Len(r.body)
        BY <1>3, <1>5, <1>12, <3>2, <4>2 DEF FirstPiece
      <4> QED
        BY <1>6, <1>12, <4>1, <4>2
    <3> QED
      BY <1>3, <1>4, <3>1, <3>2
  <2> QED
    BY <1>4, <1>9, <2>1 DEF BodyInStep, r
<1>14. ~(n < p.contentLength) => DoneInStep(q, y)
  <2> SUFFICES ASSUME ~(n < p.contentLength) PROVE DoneInStep(q, y)
    OBVIOUS
  <2>1. n = p.contentLength
    BY <1>4, <1>8
  <2>2. x.at = EndAt(r) + Len(r.body)
    <3>1. x.at = EndAt(r) + 1 + p.bodyBytesRead \/ x.at > EndAt(r) + 1 + p.bodyBytesRead
      BY <1>3, <1>4, <1>5
    <3>2. EndAt(r) + 1 + p.bodyBytesRead = EndAt(r) + Len(r.body)
      BY <1>4, <1>6, <1>8, <2>1
    <3> QED
      BY <1>6, <1>12, <3>1, <3>2
  <2>3. y = FirstPiece(p.req + 1)
    BY <1>5, <1>12, <2>2
  <2> QED
    BY <1>9, <2>3, Zenon DEF DoneInStep
<1>15. CloseInStep(q, y)
  <2>1. p.close <=> r.close
    BY Zenon DEF InStep, CloseInStep, r
  <2> QED
    BY <1>9, <2>1, Zenon DEF CloseInStep, r
<1> QED
  BY <1>1, <1>5, <1>8, <1>9, <1>11, <1>13, <1>14, <1>15 DEF InStep, q, y

-----------------------------------------------------------------------------
(* Types *)

FlagsOK ==
  {pipelined, open, writing, armed, due, waited, timedOut, spoiled, aborted} \subseteq BOOLEAN

ClientOK ==
  /\ script \in Scripts
  /\ unsent \in SentPieces \cup {FirstPiece(Len(script) + 1)}
  /\ peer \in {"open", "fin", "rst"}

AnswerPieces == (DOMAIN script) \X (1 .. AnswerSize)

BuffersOK ==
  /\ arrived \in Seq(SentPieces) /\ inBuffer \in Seq(SentPieces)
  /\ handled \in Seq(DOMAIN script)
  /\ received \in Seq(AnswerPieces) /\ outBuffer \in Seq(AnswerPieces)

DataOK == connData = NoData \/ (connData \in HttpConnData /\ ParserOK(connData.parser))

TypeInv == FlagsOK /\ ClientOK /\ BuffersOK /\ DataOK

\* What a client may send.
LEMMA ScriptIsSeq == ASSUME ClientOK PROVE script \in Seq(Request)
BY ScriptsAssumption DEF ClientOK

\* The named parts of the type invariant are the whole of it.
LEMMA TypesOfInv == TypeInv /\ RoundInv => Http1TypeOK
<1> SUFFICES ASSUME TypeInv, RoundInv PROVE Http1TypeOK
  OBVIOUS
<1>1. {pipelined, open, writing, armed, due, waited, timedOut, spoiled, aborted} \subseteq BOOLEAN
  BY Zenon DEF TypeInv, FlagsOK
<1>2. {received, outBuffer} \subseteq Seq((DOMAIN script) \X (1 .. AnswerSize))
  BY Zenon DEF TypeInv, BuffersOK, AnswerPieces
<1>3. phase \in {"poll", "events", "parse", "funcs"} /\ active \subseteq {"close", "read", "write"}
  BY Zenon DEF RoundInv, RoundOrder
<1>4. wc \in 0 .. 1
  BY DEF RoundInv, CompleteIsLast
<1> QED
  BY <1>1, <1>2, <1>3, <1>4, Zenon DEF TypeInv, ClientOK, BuffersOK, DataOK, ParserOK, Http1TypeOK

\* The data of a new connection, and data that was found.
LEMMA NewDataOK ==
  ASSUME script \in Seq(Request)
  PROVE  /\ NewData \in HttpConnData /\ ParserOK(NewData.parser)
         /\ NewData.parser = NewParser /\ NewData.shouldKeepAlive = TRUE
<1>1. NewParser \in FHttpParser
  BY DEF NewParser, FHttpParser
<1>2. ASSUME NEW p \in FHttpParser
      PROVE  LET d == [parser |-> p, shouldKeepAlive |-> TRUE] IN
             d \in HttpConnData /\ d.parser = p /\ d.shouldKeepAlive = TRUE
  BY DEF HttpConnData
<1>3. NewData = [parser |-> NewParser, shouldKeepAlive |-> TRUE]
  BY DEF NewData
<1>4. NewParser.req = 0 /\ NewParser.bodyBytesRead = 0 /\ NewParser.contentLength = 0
  BY DEF NewParser
<1>5. Len(script) \in Nat
  BY LenProperties
<1> QED
  BY <1>1, <1>2, <1>3, <1>4, <1>5 DEF ParserOK

\* getDataFromTcpConn returns data that is well-formed,
LEMMA DataOfOK ==
  ASSUME script \in Seq(Request), DataOK
  PROVE  /\ DataOf \in HttpConnData /\ ParserOK(DataOf.parser)
         /\ connData \in HttpConnData => DataOf = connData
BY NewDataOK, NoDataAssumption DEF DataOK, DataOf

\* finds again what it has attached,
LEMMA DataKept ==
  ASSUME connData' \in HttpConnData
  PROVE  DataOf' = connData'
BY NoDataAssumption DEF DataOf

\* and returns the same for a connection whose data is the same.
LEMMA DataFound ==
  ASSUME connData' = connData \/ connData' = DataOf
  PROVE  DataOf' = DataOf
BY DEF DataOf

\* The fields of HttpConnData.
LEMMA ConnDataFields ==
  ASSUME NEW d \in HttpConnData
  PROVE  /\ d = [parser |-> d.parser, shouldKeepAlive |-> d.shouldKeepAlive]
         /\ d.parser \in FHttpParser /\ d.shouldKeepAlive \in BOOLEAN
BY DEF HttpConnData

\* Data of another step is right if the script is the same.
LEMMA DataStays ==
  ASSUME script' = script,
         connData' = NoData \/ (connData' \in HttpConnData /\ ParserOK(connData'.parser))
  PROVE  DataOK'
BY Zenon DEF DataOK, ParserOK

-----------------------------------------------------------------------------
(* Sequences that are sent *)

\* An answer is a sequence of its pieces.
LEMMA AnswerIsSeq ==
  ASSUME NEW n \in DOMAIN script
  PROVE  Answer(n) \in Seq(AnswerPieces) /\ Len(Answer(n)) = AnswerSize /\ AnswerSize = 2
<1>1. Answer(n) = [i \in 1 .. 2 |-> <<n, i>>]
  BY DEF Answer, AnswerSize
<1>2. Answer(n) \in [1 .. 2 -> AnswerPieces]
  BY <1>1 DEF AnswerPieces, AnswerSize
<1>3. Answer(n) \in Seq(AnswerPieces)
  BY <1>2, SeqDef
<1>4. DOMAIN Answer(n) = 1 .. 2
  BY <1>1
<1> QED
  BY <1>3, <1>4, LenProperties DEF AnswerSize

\* What is left when k pieces are sent.
LEMMA SubSeqParts ==
  ASSUME NEW S, NEW s \in Seq(S), NEW k \in 0 .. Len(s)
  PROVE  /\ SubSeq(s, 1, k) \in Seq(S) /\ Len(SubSeq(s, 1, k)) = k
         /\ SubSeq(s, k + 1, Len(s)) \in Seq(S) /\ Len(SubSeq(s, k + 1, Len(s))) = Len(s) - k
         /\ SubSeq(s, 1, k) \o SubSeq(s, k + 1, Len(s)) = s
<1>1. Len(s) \in Nat /\ \A i \in 1 .. Len(s) : s[i] \in S
  BY LenProperties, ElementOfSeq
<1>2. SubSeq(s, 1, k) \in Seq(S) /\ Len(SubSeq(s, 1, k)) = k
  BY <1>1, SubSeqProperties
<1>3. SubSeq(s, k + 1, Len(s)) \in Seq(S) /\ Len(SubSeq(s, k + 1, Len(s))) = Len(s) - k
  BY <1>1, SubSeqProperties
<1>4. SubSeq(s, 1, k) \o SubSeq(s, k + 1, Len(s)) = s
  <2>1. 1 \in 1 .. Len(s) + 1 /\ k \in 1 - 1 .. Len(s) /\ Len(s) \in k .. Len(s)
    BY <1>1
  <2>2. SubSeq(s, 1, k) \o SubSeq(s, k + 1, Len(s)) = SubSeq(s, 1, Len(s))
    BY <2>1, ConcatAdjacentSubSeq
  <2> QED
    BY <2>2, SubSeqFull
<1> QED
  BY <1>2, <1>3, <1>4

\* The part that is sent goes before the part that is kept.
LEMMA SentInOrder ==
  ASSUME NEW S, received \in Seq(S), NEW front \in Seq(S), NEW rest \in Seq(S),
         received' = received \o front, outBuffer' = rest
  PROVE  received' \o outBuffer' = received \o (front \o rest)
<1>1. (received \o front) \o rest = received \o (front \o rest)
  BY ConcatAssociative, SMTT(30)
<1> QED
  BY <1>1, Zenon

\* What sending does to what the client has and what waits for it.
LEMMA SendParts ==
  ASSUME NEW S, received \in Seq(S), outBuffer \in Seq(S), NEW data \in Seq(S), Len(data) > 0,
         wc = 0, SendInLoop(data)
  PROVE  /\ received' \in Seq(S) /\ outBuffer' \in Seq(S)
         /\ Len(received') + Len(outBuffer') <= Len(received) + Len(outBuffer) + Len(data)
         /\ wc' = 0 => Len(received') < Len(received) + Len(outBuffer) + Len(data)
         /\ peer # "rst" => received' \o outBuffer' = (received \o outBuffer) \o data
<1> DEFINE Goal == /\ received' \in Seq(S) /\ outBuffer' \in Seq(S)
                   /\ Len(received') + Len(outBuffer') <= Len(received) + Len(outBuffer) + Len(data)
                   /\ wc' = 0 => Len(received') < Len(received) + Len(outBuffer) + Len(data)
                   /\ peer # "rst" => received' \o outBuffer' = (received \o outBuffer) \o data
<1> HIDE DEF Goal
<1>0. Len(received) \in Nat /\ Len(outBuffer) \in Nat /\ Len(data) \in Nat
  BY LenProperties
<1>1. ASSUME NothingWaits, NEW front \in Seq(S), NEW rest \in Seq(S), front \o rest = data,
             received' = received \o front, outBuffer' = rest, wc' = wc + Completed(rest)
      PROVE  Goal
  <2>1. Len(front) \in Nat /\ Len(rest) \in Nat /\ Len(data) = Len(front) + Len(rest)
    BY <1>1, LenProperties, ConcatProperties
  <2>2. outBuffer = <<>> /\ Len(outBuffer) = 0
    BY <1>1 DEF NothingWaits
  <2>3. received' \in Seq(S) /\ Len(received') = Len(received) + Len(front)
    BY <1>1, ConcatProperties
  <2>4. wc' = 0 => Len(rest) # 0
    BY <1>1, EmptySeq DEF Completed
  <2>5. received' \o outBuffer' = (received \o outBuffer) \o data
    <3>1. received' \o outBuffer' = received \o (front \o rest)
      BY <1>1, SentInOrder, Zenon
    <3>2. received \o outBuffer = received
      BY <2>2, ConcatEmptySeq
    <3> QED
      BY <1>1, <3>1, <3>2, Zenon
  <2>6. Len(received') + Len(outBuffer') <= Len(received) + Len(outBuffer) + Len(data)
    BY <1>0, <1>1, <2>1, <2>2, <2>3
  <2>7. wc' = 0 => Len(received') < Len(received) + Len(outBuffer) + Len(data)
    BY <1>0, <2>1, <2>2, <2>3, <2>4
  <2> QED
    BY <1>1, <2>3, <2>5, <2>6, <2>7, Zenon DEF Goal
<1>2. ASSUME peer = "rst", UNCHANGED <<received, outBuffer, writing, wc>> PROVE Goal
  BY <1>0, <1>2 DEF Goal
<1>3. ASSUME outBuffer' = outBuffer \o data, UNCHANGED <<received, wc>> PROVE Goal
  <2>1. outBuffer \o data \in Seq(S) /\ Len(outBuffer \o data) = Len(outBuffer) + Len(data)
    BY ConcatProperties
  <2>2. received' \o outBuffer' = (received \o outBuffer) \o data
    <3>1. (received \o outBuffer) \o data = received \o (outBuffer \o data)
      BY ConcatAssociative, SMTT(30)
    <3> QED
      BY <1>3, <3>1, Zenon
  <2> QED
    BY <1>0, <1>3, <2>1, <2>2 DEF Goal
<1>4. Goal
  <2>1. CASE NothingWaits /\ peer # "rst"
    <3>1. PICK k \in 0 .. Len(data) :
            LET rest == SubSeq(data, k + 1, Len(data)) IN
            /\ received' = received \o SubSeq(data, 1, k)
            /\ wc' = wc + Completed(rest)
            /\ outBuffer' = rest
      BY <2>1, Zenon DEF SendInLoop
    <3>2. /\ SubSeq(data, 1, k) \in Seq(S) /\ SubSeq(data, k + 1, Len(data)) \in Seq(S)
          /\ SubSeq(data, 1, k) \o SubSeq(data, k + 1, Len(data)) = data
      BY SubSeqParts
    <3> QED
      BY <1>1, <2>1, <3>1, <3>2, Zenon
  <2>2. CASE NothingWaits /\ peer = "rst"
    BY <1>2, <2>2, Zenon DEF SendInLoop
  <2>3. CASE ~NothingWaits
    BY <1>3, <2>3, Zenon DEF SendInLoop
  <2> QED
    BY <2>1, <2>2, <2>3
<1> QED
  BY <1>4 DEF Goal

-----------------------------------------------------------------------------
(* Types are kept *)

\* What no step changes.
LEMMA SameScript ==
  ASSUME [Http1Next]_http1Vars
  PROVE  script' = script /\ pipelined' = pipelined
<1>1. CASE ClientSend \/ ClientLeave \/ TimePasses \/ RunIdle
  BY <1>1 DEF ClientSend, ClientLeave, TimePasses, RunIdle, clientVars
<1>2. CASE HandleRead \/ ParseNext \/ ParseEnd \/ HandleHup \/ HandleWrite
  BY <1>2 DEF HandleRead, ParseNext, ParseEnd, HandleHup, HandleWrite, clientVars
<1>3. CASE Listen \/ Tick \/ IdleTick \/ ReadOtherHeader \/ RunWriteComplete \/ EndRound \/ UNCHANGED http1Vars
  BY <1>3 DEF Listen, Tick, IdleTick, ReadOtherHeader, RunWriteComplete, EndRound, clientVars, http1Vars
<1> QED
  BY <1>1, <1>2, <1>3 DEF Http1Next, SubLoop

\* Sending leaves a flag a flag.
LEMMA SendInLoopWriting ==
  ASSUME writing \in BOOLEAN, NEW data, SendInLoop(data)
  PROVE  writing' \in BOOLEAN
BY Zenon DEF SendInLoop

\* The flags stay flags.
LEMMA FlagsStep ==
  ASSUME FlagsOK, [Http1Next]_http1Vars
  PROVE  FlagsOK'
<1>0. /\ pipelined \in BOOLEAN /\ open \in BOOLEAN /\ writing \in BOOLEAN /\ armed \in BOOLEAN
      /\ due \in BOOLEAN /\ waited \in BOOLEAN /\ timedOut \in BOOLEAN /\ spoiled \in BOOLEAN /\ aborted \in BOOLEAN
  BY Zenon DEF FlagsOK
<1>1. SUFFICES /\ pipelined' \in BOOLEAN /\ open' \in BOOLEAN /\ writing' \in BOOLEAN
               /\ armed' \in BOOLEAN /\ due' \in BOOLEAN /\ waited' \in BOOLEAN /\ timedOut' \in BOOLEAN
               /\ spoiled' \in BOOLEAN /\ aborted' \in BOOLEAN
  BY Zenon DEF FlagsOK
<1>2. pipelined' \in BOOLEAN
  BY <1>0, SameScript
<1>3. CASE ClientSend
  BY <1>0, <1>2, <1>3, Zenon DEF ClientSend, timeVars, loopVars
<1>4. CASE ClientLeave
  BY <1>0, <1>2, <1>4, Zenon DEF ClientLeave, tcpVars, timeVars, loopVars
<1>5. CASE TimePasses
  BY <1>0, <1>2, <1>5, Zenon DEF TimePasses, tcpVars, loopVars
<1>6. CASE RunIdle
  BY <1>0, <1>2, <1>6, Zenon DEF RunIdle, HandleClose, timeVars
<1>7. CASE Listen
  BY <1>0, <1>2, <1>7, Zenon DEF Listen, tcpVars, timeVars
<1>8. CASE HandleRead
  BY <1>0, <1>2, <1>8, Zenon DEF HandleRead, HandleClose, timeVars
<1>9. CASE ParseNext
  BY <1>0, <1>2, <1>9, Zenon DEF ParseNext, HandleClose, timeVars
<1>10. CASE ParseEnd
  <2>1. writing' \in BOOLEAN
    <3>1. CASE SendInLoop(Answer(connData.parser.req))
      BY <1>0, <3>1, SendInLoopWriting
    <3>2. CASE writing' = writing
      BY <1>0, <3>2
    <3> QED
      BY <1>10, <3>1, <3>2, Zenon DEF ParseEnd
  <2> QED
    BY <1>0, <1>2, <1>10, <2>1, Zenon DEF ParseEnd, timeVars
<1>11. CASE HandleHup
  BY <1>0, <1>2, <1>11, Zenon DEF HandleHup, HandleClose, timeVars
<1>12. CASE HandleWrite
  <2>1. /\ open' = open /\ armed' = armed /\ due' = due /\ waited' = waited /\ timedOut' = timedOut
    BY <1>12 DEF HandleWrite, timeVars
  <2>2. writing' \in BOOLEAN /\ spoiled' \in BOOLEAN /\ aborted' \in BOOLEAN
    <3>1. CASE UNCHANGED <<received, outBuffer, writing, wc, spoiled, aborted>>
      BY <1>0, <3>1, Zenon
    <3>2. ASSUME NEW n \in 1 .. Len(outBuffer), spoiled' = TRUE, PopTwice(n)
          PROVE  writing' \in BOOLEAN /\ spoiled' \in BOOLEAN /\ aborted' \in BOOLEAN
      BY <1>0, <3>2, Zenon DEF PopTwice
    <3> QED
      BY <1>12, <3>1, <3>2, Zenon DEF HandleWrite
  <2> QED
    BY <1>0, <1>2, <2>1, <2>2
<1>13. CASE Tick
  <2>1. due' \in BOOLEAN /\ armed' = (open /\ ~due')
    BY <1>13, Zenon DEF Tick
  <2> QED
    BY <1>0, <1>2, <1>13, <2>1, Zenon DEF Tick, tcpVars, timeVars
<1>14. CASE RunWriteComplete
  BY <1>0, <1>2, <1>14, Zenon DEF RunWriteComplete, HandleClose, timeVars
<1>15. CASE EndRound
  BY <1>0, <1>2, <1>15, Zenon DEF EndRound, tcpVars, timeVars
<1>16. CASE UNCHANGED http1Vars
  BY <1>0, <1>2, <1>16, Zenon DEF http1Vars, tcpVars, timeVars, loopVars
<1>17. CASE IdleTick
  BY <1>0, <1>2, <1>17, Zenon DEF IdleTick, tcpVars, timeVars
<1>18. CASE ReadOtherHeader
  BY <1>0, <1>2, <1>18, Zenon DEF ReadOtherHeader, tcpVars, timeVars
<1> QED
  BY <1>3, <1>4, <1>5, <1>6, <1>7, <1>8, <1>9, <1>10, <1>11, <1>12, <1>13, <1>14, <1>15, <1>16, <1>17, <1>18,
     Zenon
  DEF Http1Next, SubLoop

\* The client goes through its script.
LEMMA ClientStep ==
  ASSUME ClientOK, [Http1Next]_http1Vars
  PROVE  ClientOK'
<1>0. script' = script /\ SentPieces' = SentPieces /\ FirstPiece(Len(script) + 1)' = FirstPiece(Len(script) + 1)
  BY SameScript DEF SentPieces, FirstPiece
<1>1. unsent' \in SentPieces \cup {FirstPiece(Len(script) + 1)}
  <2>1. CASE ClientSend
    <3>1. unsent \in SentPieces /\ unsent' = NextPiece(unsent)
      <4>1. FirstPiece(Len(script) + 1).req \notin DOMAIN script
        BY ScriptIsSeq, LenProperties DEF FirstPiece
      <4> QED
        BY <2>1, <4>1 DEF ClientSend, ClientOK
    <3> QED
      BY <3>1, ScriptIsSeq, NextPieceType
  <2>2. CASE ClientLeave \/ TimePasses \/ RunIdle \/ Listen \/ HandleRead \/ ParseNext
    BY <2>2 DEF ClientLeave, TimePasses, RunIdle, Listen, HandleRead, ParseNext, clientVars, ClientOK
  <2>3. CASE ParseEnd \/ HandleHup \/ HandleWrite \/ Tick \/ IdleTick \/ ReadOtherHeader \/ RunWriteComplete \/ EndRound
             \/ UNCHANGED http1Vars
    BY <2>3 DEF ParseEnd, HandleHup, HandleWrite, Tick, IdleTick, ReadOtherHeader, RunWriteComplete, EndRound, clientVars,
                http1Vars, ClientOK
  <2> QED
    BY <2>1, <2>2, <2>3 DEF Http1Next, SubLoop
<1>2. peer' \in {"open", "fin", "rst"}
  <2>1. CASE ClientLeave
    BY <2>1 DEF ClientLeave
  <2>2. CASE ClientSend \/ TimePasses \/ RunIdle \/ Listen \/ HandleRead \/ ParseNext
    BY <2>2 DEF ClientSend, TimePasses, RunIdle, Listen, HandleRead, ParseNext, clientVars, ClientOK
  <2>3. CASE ParseEnd \/ HandleHup \/ HandleWrite \/ Tick \/ IdleTick \/ ReadOtherHeader \/ RunWriteComplete \/ EndRound
             \/ UNCHANGED http1Vars
    BY <2>3 DEF ParseEnd, HandleHup, HandleWrite, Tick, IdleTick, ReadOtherHeader, RunWriteComplete, EndRound, clientVars,
                http1Vars, ClientOK
  <2> QED
    BY <2>1, <2>2, <2>3 DEF Http1Next, SubLoop
<1> QED
  BY <1>0, <1>1, <1>2 DEF ClientOK


\* The answers given so far have a bounded number of pieces waiting.
LEMMA HandleWriteParts ==
  ASSUME BuffersOK, HandleWrite,
         ~(UNCHANGED <<received, outBuffer, writing, wc, spoiled, aborted>>)
  PROVE  \E n \in 1 .. Len(outBuffer) :
           /\ received' = received \o SubSeq(outBuffer, 1, n) /\ spoiled' = TRUE
           /\ received' \in Seq(AnswerPieces) /\ Len(received') = Len(received) + n
           /\ \/ aborted' = TRUE /\ UNCHANGED <<outBuffer, writing, wc>>
              \/ /\ outBuffer' \in Seq(AnswerPieces) /\ Len(outBuffer') = Len(outBuffer) - 2 * n
                 /\ wc' = wc + Completed(outBuffer')
                 /\ UNCHANGED aborted
<1>1. PICK n \in 1 .. Len(outBuffer) :
             received' = received \o SubSeq(outBuffer, 1, n) /\ spoiled' = TRUE /\ PopTwice(n)
  BY Zenon DEF HandleWrite
<1>2. received \in Seq(AnswerPieces) /\ outBuffer \in Seq(AnswerPieces) /\ Len(outBuffer) \in Nat
      /\ \A i \in 1 .. Len(outBuffer) : outBuffer[i] \in AnswerPieces
  BY LenProperties, ElementOfSeq DEF BuffersOK
<1>3. SubSeq(outBuffer, 1, n) \in Seq(AnswerPieces) /\ Len(SubSeq(outBuffer, 1, n)) = n
  BY <1>2, SubSeqProperties
<1>4. received' \in Seq(AnswerPieces) /\ Len(received') = Len(received) + n
  BY <1>1, <1>2, <1>3, ConcatProperties
<1>5. CASE 2 * n > Len(outBuffer)
  BY <1>1, <1>4, <1>5, Zenon DEF PopTwice
<1>6. CASE ~(2 * n > Len(outBuffer))
  <2> DEFINE rest == SubSeq(outBuffer, 2 * n + 1, Len(outBuffer))
  <2>1. outBuffer' = rest /\ wc' = wc + Completed(rest) /\ UNCHANGED aborted
    BY <1>1, <1>6, Zenon DEF PopTwice
  <2>2. 2 * n + 1 \in Int /\ \A i \in 2 * n + 1 .. Len(outBuffer) : outBuffer[i] \in AnswerPieces
    BY <1>2
  <2>3. rest \in Seq(AnswerPieces)
        /\ Len(rest) = IF 2 * n + 1 <= Len(outBuffer) THEN Len(outBuffer) - (2 * n + 1) + 1 ELSE 0
    BY <1>2, <2>2, SubSeqProperties
  <2> HIDE DEF rest
  <2>4. Len(rest) = Len(outBuffer) - 2 * n
    <3>1. n \in Nat /\ Len(outBuffer) \in Nat
      BY <1>2
    <3>2. CASE 2 * n + 1 <= Len(outBuffer)
      BY <2>3, <3>1, <3>2
    <3>3. CASE Len(outBuffer) = 2 * n
      BY <2>3, <3>1, <3>3
    <3> QED
      BY <1>6, <3>1, <3>2, <3>3
  <2> QED
    BY <1>1, <1>4, <2>1, <2>3, <2>4, Zenon
<1> QED
  BY <1>5, <1>6

\* The buffers hold pieces that were sent and pieces of answers.
LEMMA BuffersStep ==
  ASSUME ClientOK, BuffersOK, RoundInv, ParserInv, [Http1Next]_http1Vars
  PROVE  BuffersOK'
<1>0. script' = script /\ SentPieces' = SentPieces /\ AnswerPieces' = AnswerPieces
  BY SameScript DEF SentPieces, AnswerPieces
<1>1. /\ arrived \in Seq(SentPieces) /\ inBuffer \in Seq(SentPieces) /\ handled \in Seq(DOMAIN script)
      /\ received \in Seq(AnswerPieces) /\ outBuffer \in Seq(AnswerPieces)
  BY DEF BuffersOK
<1>2. SUFFICES /\ arrived' \in Seq(SentPieces) /\ inBuffer' \in Seq(SentPieces)
               /\ handled' \in Seq(DOMAIN script)
               /\ received' \in Seq(AnswerPieces) /\ outBuffer' \in Seq(AnswerPieces)
  BY <1>0, Zenon DEF BuffersOK
<1>3. CASE ClientSend
  <2>1. unsent \in SentPieces
    <3>1. FirstPiece(Len(script) + 1).req \notin DOMAIN script
      BY ScriptIsSeq, LenProperties DEF FirstPiece
    <3> QED
      BY <1>3, <3>1 DEF ClientSend, ClientOK
  <2>2. arrived' = Append(arrived, unsent) /\ UNCHANGED <<inBuffer, handled, received, outBuffer>>
    BY <1>3 DEF ClientSend
  <2> QED
    BY <1>1, <2>1, <2>2, AppendProperties
<1>4. CASE HandleRead
  <2>1. arrived' = <<>> /\ inBuffer' = inBuffer \o arrived /\ UNCHANGED <<handled, received, outBuffer>>
    BY <1>4 DEF HandleRead, clientVars
  <2> QED
    BY <1>1, <2>1, ConcatProperties, EmptySeq
<1>5. CASE ParseNext
  <2>1. inBuffer # <<>> /\ inBuffer' \in {inBuffer, Tail(inBuffer)}
        /\ UNCHANGED <<arrived, handled, received, outBuffer>>
    BY <1>5 DEF ParseNext, NothingToRead, clientVars
  <2> QED
    BY <1>1, <2>1, HeadTailProperties
<1>6. CASE ParseEnd
  <2>1. inBuffer' \in Seq(SentPieces)
    <3>1. inBuffer' = IF inBuffer = <<>> THEN <<>> ELSE Tail(inBuffer)
      BY <1>6 DEF ParseEnd
    <3> QED
      BY <1>1, <3>1, HeadTailProperties, EmptySeq
  <2>2. arrived' = arrived /\ phase = "parse"
    BY <1>6 DEF ParseEnd
  <2>3. CASE connData.parser.state = "Done"
    <3>1. /\ handled' = Append(handled, connData.parser.req) /\ SendInLoop(Answer(connData.parser.req))
      BY <1>6, <2>3 DEF ParseEnd
    <3>2. connData.parser.req \in DOMAIN script
      <4>1. connData \in HttpConnData /\ InStep(DataOf.parser, ToRead)
        BY <2>2, Zenon DEF ParserInv
      <4>2. DataOf = connData
        BY <4>1, NoDataAssumption DEF DataOf
      <4> QED
        BY <2>3, <4>1, <4>2 DEF InStep
    <3>3. handled' \in Seq(DOMAIN script)
      BY <1>1, <3>1, <3>2, AppendProperties
    <3>4. Answer(connData.parser.req) \in Seq(AnswerPieces) /\ Len(Answer(connData.parser.req)) > 0
      <4>1. Answer(connData.parser.req) \in Seq(AnswerPieces) /\ Len(Answer(connData.parser.req)) = 2
        BY <3>2, AnswerIsSeq, Zenon
      <4> QED
        BY <4>1
    <3>5. wc = 0
      BY <2>2 DEF RoundInv, CompleteIsLast
    <3>6. received' \in Seq(AnswerPieces) /\ outBuffer' \in Seq(AnswerPieces)
      BY <1>1, <3>1, <3>4, <3>5, SendParts, Zenon
    <3> QED
      BY <1>1, <2>1, <2>2, <3>3, <3>6
  <2>4. CASE connData.parser.state # "Done"
    <3>1. UNCHANGED <<received, outBuffer, handled>>
      BY <1>6, <2>4 DEF ParseEnd
    <3> QED
      BY <1>1, <2>1, <2>2, <3>1
  <2> QED
    BY <2>3, <2>4
<1>7. CASE HandleWrite
  <2>1. UNCHANGED <<arrived, inBuffer, handled>>
    BY <1>7 DEF HandleWrite
  <2>2. received' \in Seq(AnswerPieces) /\ outBuffer' \in Seq(AnswerPieces)
    <3>1. CASE UNCHANGED <<received, outBuffer, writing, wc, spoiled, aborted>>
      BY <1>1, <3>1
    <3>2. CASE ~(UNCHANGED <<received, outBuffer, writing, wc, spoiled, aborted>>)
      BY <1>1, <1>7, <3>2, HandleWriteParts, Zenon
    <3> QED
      BY <3>1, <3>2
  <2> QED
    BY <1>1, <2>1, <2>2
<1>8. CASE ClientLeave \/ TimePasses \/ RunIdle \/ Listen \/ HandleHup
  BY <1>1, <1>8 DEF ClientLeave, TimePasses, RunIdle, Listen, HandleHup, clientVars, tcpVars
<1>9. CASE Tick \/ IdleTick \/ ReadOtherHeader \/ RunWriteComplete \/ EndRound \/ UNCHANGED http1Vars
  BY <1>1, <1>9 DEF Tick, IdleTick, ReadOtherHeader, RunWriteComplete, EndRound, clientVars, tcpVars, http1Vars
<1> QED
  BY <1>3, <1>4, <1>5, <1>6, <1>7, <1>8, <1>9, Zenon DEF Http1Next, SubLoop

-----------------------------------------------------------------------------
(* The parser stays in step *)

\* The parser and what it is to read are all that InStep is about.
LEMMA InStepNext ==
  ASSUME UNCHANGED <<script, pipelined>>, NEW p, NEW x, InStep(p, x), p = DataOf'.parser, x = ToRead'
  PROVE  InStep(DataOf.parser, ToRead)'
BY Zenon DEF InStep, CloseInStep, LineInStep, HeadersInStep, BodyInStep, DoneInStep

\* The order depends on the two buffers and the client alone.
LEMMA OrderStays ==
  ASSUME InOrder, UNCHANGED <<script, unsent, arrived, inBuffer>>
  PROVE  InOrder' /\ ToRead' = ToRead /\ Coming' = Coming
<1>1. Coming' = Coming
  BY DEF Coming, HeadOr
<1>2. ToRead' = ToRead
  BY <1>1 DEF ToRead, HeadOr
<1>3. \A z : NextPiece(z)' = NextPiece(z)
  BY Zenon DEF NextPiece
<1>4. InOrder'
  BY <1>1, <1>3, Zenon DEF InOrder, Follow
<1> QED
  BY <1>1, <1>2, <1>4

\* A step after which the connection is closed, or has the data it had.
LEMMA ParserStays ==
  ASSUME ParserInv, UNCHANGED <<script, pipelined, unsent, arrived, inBuffer>>,
         ~open' \/ (open' = open /\ DataOf' = DataOf),
         phase' = "parse" => phase = "parse" /\ open' = open /\ connData' = connData
  PROVE  ParserInv'
<1>1. InOrder' /\ ToRead' = ToRead
  BY OrderStays DEF ParserInv
<1>2. ASSUME open' PROVE InStep(DataOf.parser, ToRead)'
  <2>1. InStep(DataOf.parser, ToRead) /\ DataOf' = DataOf
    BY <1>2, Zenon DEF ParserInv
  <2> QED
    BY <1>1, <2>1, InStepNext, Zenon
<1> QED
  BY <1>1, <1>2, Zenon DEF ParserInv

\* Where everything begins after a step.
LEMMA InOrderNext ==
  ASSUME script' = script, NEW a, NEW b, NEW u, a = arrived', b = inBuffer', u = unsent',
         Follow(a, u), Follow(b, HeadOr(a, u))
  PROVE  InOrder' /\ ToRead' = HeadOr(b, HeadOr(a, u))
<1>1. Coming' = HeadOr(a, u) /\ ToRead' = HeadOr(b, HeadOr(a, u))
  BY Zenon DEF Coming, ToRead, HeadOr
<1>2. Follow(arrived, unsent)' /\ Follow(inBuffer, Coming)'
  BY <1>1, Zenon DEF Follow, NextPiece
<1> QED
  BY <1>1, <1>2, Zenon DEF InOrder

\* The client sends a piece: ToRead is the same.
LEMMA ParserClientSend ==
  ASSUME ClientOK, BuffersOK, ParserInv, ClientSend, UNCHANGED <<script, pipelined>>
  PROVE  ParserInv' /\ ToRead' = ToRead
<1>1. /\ arrived' = Append(arrived, unsent) /\ unsent' = NextPiece(unsent)
      /\ UNCHANGED <<inBuffer, open, connData, phase>>
  BY DEF ClientSend, loopVars
<1>2. unsent \in SentPieces /\ arrived \in Seq(SentPieces)
  <2>1. FirstPiece(Len(script) + 1).req \notin DOMAIN script
    BY ScriptIsSeq, LenProperties DEF FirstPiece
  <2> QED
    BY <2>1 DEF ClientSend, ClientOK, BuffersOK
<1>3. Follow(arrived, unsent) /\ Follow(inBuffer, Coming)
  BY DEF ParserInv, InOrder
<1>4. Follow(arrived', unsent')
  <2>1. Follow(Append(arrived, unsent), NextPiece(unsent))
    BY <1>2, <1>3, FollowAppend, Zenon
  <2> QED
    BY <1>1, <2>1, Zenon
<1>5. HeadOr(arrived', unsent') = Coming
  <2>1. Append(arrived, unsent) # <<>>
        /\ Append(arrived, unsent)[1] = IF arrived = <<>> THEN unsent ELSE arrived[1]
    BY <1>2, AppendProperties, EmptySeq
  <2> QED
    BY <1>1, <2>1 DEF Coming, HeadOr
<1>6. InOrder' /\ ToRead' = ToRead
  <2>1. Follow(inBuffer', HeadOr(arrived', unsent'))
    BY <1>1, <1>3, <1>5, Zenon
  <2>2. InOrder' /\ ToRead' = HeadOr(inBuffer', HeadOr(arrived', unsent'))
    BY <1>4, <2>1, InOrderNext, Zenon
  <2> QED
    BY <1>1, <1>5, <2>2, Zenon DEF ToRead
<1>7. DataOf' = DataOf
  BY <1>1, DataFound
<1>8. ASSUME open' PROVE InStep(DataOf.parser, ToRead)'
  BY <1>1, <1>6, <1>7, <1>8, InStepNext, Zenon DEF ParserInv
<1> QED
  BY <1>1, <1>6, <1>8, Zenon DEF ParserInv

\* Reading moves pieces from the socket to the buffer.
LEMMA ParserHandleRead ==
  ASSUME ClientOK, BuffersOK, DataOK, RoundInv, ParserInv, HandleRead, UNCHANGED <<script, pipelined>>
  PROVE  /\ ParserInv'
         /\ open' => ToRead' = ToRead /\ DataOf' = DataOf /\ connData' = DataOf /\ phase' = "parse"
                     /\ arrived # <<>>
<1>1. /\ arrived' = <<>> /\ inBuffer' = inBuffer \o arrived /\ unsent' = unsent /\ phase = "events"
  BY DEF HandleRead, clientVars
<1>2. inBuffer \in Seq(SentPieces) /\ arrived \in Seq(SentPieces) /\ <<>> \in Seq(SentPieces)
  BY EmptySeq DEF BuffersOK
<1>3. Follow(arrived, unsent) /\ Follow(inBuffer, HeadOr(arrived, unsent))
  BY DEF ParserInv, InOrder, Coming
<1>4. Follow(inBuffer \o arrived, unsent)
      /\ HeadOr(inBuffer \o arrived, unsent) = HeadOr(inBuffer, HeadOr(arrived, unsent))
  BY <1>2, <1>3, FollowConcat
<1>5. Follow(<<>>, unsent) /\ HeadOr(<<>>, unsent) = unsent
  BY DEF Follow, HeadOr
<1>6. InOrder' /\ ToRead' = ToRead
  <2>1. InOrder' /\ ToRead' = HeadOr(inBuffer', HeadOr(arrived', unsent'))
    BY <1>1, <1>4, <1>5, InOrderNext, Zenon
  <2> QED
    BY <1>1, <1>4, <1>5, <2>1, Zenon DEF ToRead, Coming
<1>7. CASE arrived = <<>>
  <2>1. ~open' /\ phase' = phase
    BY <1>7, Zenon DEF HandleRead, HandleClose
  <2>2. phase' # "parse"
    BY <1>1, <2>1
  <2> QED
    BY <1>6, <2>1, <2>2, Zenon DEF ParserInv
<1>8. CASE arrived # <<>>
  <2>1. phase' = "parse" /\ connData' = DataOf /\ open' = open
    BY <1>8, Zenon DEF HandleRead
  <2>2. DataOf \in HttpConnData /\ DataOf' = DataOf
    BY <2>1, ScriptIsSeq, DataOfOK, DataFound
  <2>3. open
    BY DEF HandleRead, RoundInv, ClosedIsQuiet
  <2>4. InStep(DataOf.parser, ToRead)'
    BY <1>6, <2>2, <2>3, InStepNext, Zenon DEF ParserInv
  <2> QED
    BY <1>6, <1>8, <2>1, <2>2, <2>3, <2>4, Zenon DEF ParserInv
<1> QED
  BY <1>7, <1>8


\* Whatever the state of the parser, it takes a piece and stays in step.
LEMMA FeedStep ==
  ASSUME script \in Seq(Request), NEW p, ParserOK(p), NEW x \in SentPieces, InStep(p, x),
         p.state # "Done", Feed(p, x).state \notin {"Error", "Thrown"}
  PROVE  ParserOK(Feed(p, x)) /\ InStep(Feed(p, x), NextPiece(x))
<1>1. p.state \in {"RequestLine", "Headers", "Body"}
  BY DEF ParserOK, FHttpParser
<1> QED
  BY <1>1, FeedLine, FeedHeaders, FeedBody

\* A zero byte is lost in a body, which then never ends.
LEMMA SkipZero ==
  ASSUME script \in Scripts, NEW p, ParserOK(p), NEW x \in SentPieces, InStep(p, x),
         p.state # "Done", Kind(x) = "zero"
  PROVE  InStep(p, NextPiece(x))
<1> DEFINE r == script[p.req]
           y == NextPiece(x)
<1>1. script \in Seq(Request)
  BY ScriptsAssumption
<1>2. x.req = Len(script) /\ x.at > EndAt(script[x.req])
  BY ScriptsAssumption, ZeroIsLate
<1>3. EndAt(script[x.req]) \in 3 .. 5 /\ x.at \in Nat
  BY EndAtOf DEF SentPieces
<1>4. p.state # "RequestLine"
  <2> SUFFICES ASSUME p.state = "RequestLine" PROVE FALSE
    OBVIOUS
  <2>1. LineInStep(p, x)
    BY Zenon DEF InStep
  <2> QED
    BY <1>2, <1>3, <2>1 DEF LineInStep
<1>5. p.state # "Headers"
  <2> SUFFICES ASSUME p.state = "Headers" PROVE FALSE
    OBVIOUS
  <2>1. HeadersInStep(p, x)
    BY Zenon DEF InStep
  <2> QED
    BY <1>2, <1>3, <2>1 DEF HeadersInStep
<1>6. p.state = "Body"
  BY <1>4, <1>5 DEF ParserOK, FHttpParser
<1>7. BodyInStep(p, x) /\ p.req \in DOMAIN script /\ CloseInStep(p, x)
  BY <1>6, Zenon DEF InStep
<1>8. /\ p.contentLength = Len(r.body) /\ p.bodyBytesRead < p.contentLength
      /\ x.req = p.req /\ p.req = Len(script) /\ x.at >= EndAt(r) + 1 + p.bodyBytesRead
  <2>1. p.req \in 1 .. Len(script) /\ Len(script) \in Nat
    BY <1>1, <1>7, LenProperties
  <2>2. x.req = p.req
    BY <1>2, <1>7, <2>1 DEF BodyInStep
  <2>3. p.bodyBytesRead \in Nat /\ EndAt(r) \in 3 .. 5
    BY EndAtOf DEF ParserOK, FHttpParser
  <2>4. x.at = EndAt(r) + 1 + p.bodyBytesRead \/ x.at > EndAt(r) + 1 + p.bodyBytesRead
    BY <1>7, <2>1, <2>2 DEF BodyInStep
  <2>5. x.at >= EndAt(r) + 1 + p.bodyBytesRead
    BY <1>3, <2>3, <2>4
  <2>6. p.contentLength = Len(r.body) /\ p.bodyBytesRead < p.contentLength
    BY <1>7 DEF BodyInStep
  <2> QED
    BY <1>2, <2>2, <2>5, <2>6
<1>9. y.req > p.req \/ (y.req = p.req /\ y.at > EndAt(r) + 1 + p.bodyBytesRead)
  <2>1. /\ x.at \in 1 .. EndAt(r) + Len(r.body)
        /\ x.at < EndAt(r) + Len(r.body) => y.req = x.req /\ y.at = x.at + 1
        /\ x.at = EndAt(r) + Len(r.body) => y = FirstPiece(x.req + 1)
    BY <1>1, <1>8, KindOf, NextOf, Zenon
  <2>2. Len(r.body) \in Nat /\ p.bodyBytesRead \in Nat /\ EndAt(r) \in 3 .. 5 /\ p.req \in Nat
    <3>1. r \in Request
      BY <1>1, <1>7, ElementOfSeq
    <3> QED
      BY <3>1, EndAtOf DEF ParserOK, FHttpParser, Request
  <2> HIDE DEF r, y
  <2>3. CASE x.at < EndAt(r) + Len(r.body)
    BY <1>3, <1>8, <2>1, <2>2, <2>3
  <2>4. CASE x.at = EndAt(r) + Len(r.body)
    BY <1>8, <2>1, <2>2, <2>4 DEF FirstPiece
  <2> QED
    BY <2>1, <2>2, <2>3, <2>4
<1>10. BodyInStep(p, y)
  BY <1>8, <1>9 DEF BodyInStep
<1> QED
  BY <1>6, <1>7, <1>10, Zenon DEF InStep, CloseInStep

\* An exception ends the process where it is.
LEMMA ParseThrown ==
  ASSUME ParseNext, Feed(connData.parser, Head(inBuffer)).state = "Thrown"
  PROVE  /\ aborted' = TRUE
         /\ UNCHANGED <<unsent, arrived, inBuffer, received, outBuffer, handled, open, connData, phase, wc>>
BY DEF ParseNext, clientVars

\* A turn of parse() keeps the parser in step.
LEMMA ParserParseNext ==
  ASSUME ClientOK, BuffersOK, DataOK, ParserInv, ParseNext, UNCHANGED <<script, pipelined>>,
         Feed(connData.parser, Head(inBuffer)).state # "Thrown"
  PROVE  /\ ParserInv' /\ DataOf = connData /\ connData.parser.state # "Done" /\ open
         /\ inBuffer # <<>> /\ ToRead = inBuffer[1] /\ inBuffer[1] \in SentPieces
         /\ open' => /\ connData' = [connData EXCEPT !.parser = Feed(connData.parser, ToRead)]
                     /\ ParserOK(connData'.parser) /\ connData' \in HttpConnData
                     /\ DataOf' = connData' /\ ToRead' = NextPiece(ToRead) /\ phase' = "parse"
                     /\ connData'.parser = Feed(connData.parser, ToRead)
                     /\ connData'.shouldKeepAlive = connData.shouldKeepAlive
                     /\ Feed(connData.parser, ToRead).state \notin {"Error", "Thrown"}
                     /\ aborted' = aborted
<1> DEFINE x == inBuffer[1]
           p == connData.parser
           q == Feed(p, x)
<1>1. /\ phase = "parse" /\ inBuffer # <<>> /\ p.state # "Done" /\ inBuffer' = Tail(inBuffer)
      /\ arrived' = arrived /\ unsent' = unsent /\ aborted' = aborted
  BY DEF ParseNext, NothingToRead, clientVars
<1>2. inBuffer \in Seq(SentPieces) /\ x \in SentPieces /\ Head(inBuffer) = x /\ q.state # "Thrown"
  BY <1>1, ElementOfSeq, EmptySeq DEF BuffersOK
<1>3. open /\ connData \in HttpConnData /\ InStep(DataOf.parser, ToRead)
  BY <1>1, Zenon DEF ParserInv
<1>4. DataOf = connData /\ ParserOK(p) /\ script \in Seq(Request)
  BY <1>3, DataOfOK, ScriptIsSeq
<1>5. ToRead = x
  BY <1>1 DEF ToRead, HeadOr
<1>6. InOrder' /\ ToRead' = NextPiece(x)
  <2>1. Follow(arrived, unsent) /\ Follow(inBuffer, HeadOr(arrived, unsent))
    BY DEF ParserInv, InOrder, Coming
  <2>2. /\ Follow(Tail(inBuffer), HeadOr(arrived, unsent))
        /\ HeadOr(Tail(inBuffer), HeadOr(arrived, unsent)) = NextPiece(x)
    BY <1>1, <1>2, <2>1, FollowTail
  <2>3. Follow(arrived', unsent') /\ Follow(inBuffer', HeadOr(arrived', unsent'))
    BY <1>1, <2>1, <2>2, Zenon
  <2>4. InOrder' /\ ToRead' = HeadOr(inBuffer', HeadOr(arrived', unsent'))
    BY <2>3, InOrderNext, Zenon
  <2> QED
    BY <1>1, <2>2, <2>4, Zenon
<1>7. CASE q.state = "Error"
  <2>1. ~open' /\ phase' = "events"
    BY <1>2, <1>7, Zenon DEF ParseNext, HandleClose
  <2>2. phase' # "parse"
    BY <2>1
  <2> QED
    BY <1>1, <1>2, <1>3, <1>4, <1>5, <1>6, <2>1, <2>2, Zenon DEF ParserInv
<1>8. CASE q.state # "Error"
  <2>1. connData' = [connData EXCEPT !.parser = q] /\ phase' = phase /\ open' = open
    BY <1>2, <1>8, Zenon DEF ParseNext
  <2>2. ParserOK(q) /\ InStep(q, NextPiece(x))
    BY <1>1, <1>2, <1>3, <1>4, <1>5, <1>8, FeedStep, Zenon
  <2> HIDE DEF q
  <2>3. connData' \in HttpConnData /\ connData'.parser = q
        /\ connData'.shouldKeepAlive = connData.shouldKeepAlive
    BY <1>3, <2>1, <2>2 DEF HttpConnData, ParserOK
  <2>4. DataOf' = connData'
    BY <2>3, DataKept
  <2>5. InStep(DataOf.parser, ToRead)'
    BY <1>6, <2>2, <2>3, <2>4, InStepNext, Zenon
  <2>6. ParserInv'
    BY <1>3, <1>6, <2>1, <2>3, <2>5, Zenon DEF ParserInv
  <2> QED
    BY <1>1, <1>2, <1>3, <1>4, <1>5, <1>6, <1>8, <2>1, <2>2, <2>3, <2>4, <2>6, Zenon DEF q
<1> QED
  BY <1>7, <1>8


\* The data after an answer.
LEMMA AfterAnswerOK ==
  ASSUME script \in Seq(Request), NEW p, ParserOK(p)
  PROVE  /\ AfterAnswer(p) \in HttpConnData /\ ParserOK(AfterAnswer(p).parser)
         /\ AfterAnswer(p).parser = IF p.close THEN p ELSE NewParser
         /\ AfterAnswer(p).shouldKeepAlive = ~p.close
<1> DEFINE q == IF p.close THEN p ELSE NewParser
<1>1. q \in FHttpParser /\ ParserOK(q)
  BY NewDataOK, Zenon DEF ParserOK
<1>2. AfterAnswer(p) = [parser |-> q, shouldKeepAlive |-> ~p.close]
  BY DEF AfterAnswer
<1>3. (~p.close) \in BOOLEAN
  OBVIOUS
<1> HIDE DEF q
<1>4. \A b \in BOOLEAN : LET d == [parser |-> q, shouldKeepAlive |-> b] IN
        d \in HttpConnData /\ d.parser = q /\ d.shouldKeepAlive = b
  BY <1>1 DEF HttpConnData
<1>5. AfterAnswer(p) \in HttpConnData /\ AfterAnswer(p).parser = q /\ AfterAnswer(p).shouldKeepAlive = ~p.close
  BY <1>2, <1>3, <1>4, Zenon
<1> QED
  BY <1>1, <1>5, Zenon DEF q

\* The loop of parse() has ended: a piece that was not for it is lost.
LEMMA ParserParseEnd ==
  ASSUME ClientOK, BuffersOK, DataOK, ParserInv, ParseEnd, UNCHANGED <<script, pipelined>>,
         ~pipelined /\ connData.parser.state = "Done" => inBuffer = <<>>
  PROVE  /\ ParserInv' /\ DataOf = connData /\ open /\ open'
         /\ ToRead' = IF inBuffer = <<>> THEN ToRead ELSE NextPiece(ToRead)
         /\ inBuffer # <<>> => ToRead \in SentPieces /\ ToRead = inBuffer[1]
         /\ connData' \in HttpConnData /\ ParserOK(connData'.parser) /\ DataOf' = connData'
         /\ phase = "parse" /\ phase' = "events"
<1> DEFINE p == connData.parser
           d == IF p.state = "Done" THEN AfterAnswer(p) ELSE connData
           y == IF inBuffer = <<>> THEN ToRead ELSE NextPiece(ToRead)
<1>1. /\ phase = "parse" /\ phase' = "events" /\ arrived' = arrived /\ unsent' = unsent
      /\ inBuffer' = IF inBuffer = <<>> THEN <<>> ELSE Tail(inBuffer)
      /\ open' = open
      /\ connData' = d
  BY Zenon DEF ParseEnd
<1>2. inBuffer \in Seq(SentPieces)
  BY DEF BuffersOK
<1>3. open /\ connData \in HttpConnData /\ InStep(DataOf.parser, ToRead)
  BY <1>1, Zenon DEF ParserInv
<1>4. DataOf = connData /\ ParserOK(p) /\ script \in Seq(Request)
  BY <1>3, DataOfOK, ScriptIsSeq
<1>5. inBuffer # <<>> => ToRead = inBuffer[1] /\ inBuffer[1] \in SentPieces /\ Head(inBuffer) = inBuffer[1]
  BY <1>2, ElementOfSeq, EmptySeq DEF ToRead, HeadOr
<1>6. InOrder' /\ ToRead' = y
  <2>1. Follow(arrived, unsent) /\ Follow(inBuffer, HeadOr(arrived, unsent))
    BY DEF ParserInv, InOrder, Coming
  <2>2. Follow(inBuffer', HeadOr(arrived, unsent)) /\ HeadOr(inBuffer', HeadOr(arrived, unsent)) = y
    <3>1. CASE inBuffer = <<>>
      <4>1. inBuffer' = inBuffer
        BY <1>1, <3>1
      <4> QED
        BY <2>1, <3>1, <4>1, Zenon DEF ToRead, Coming
    <3>2. CASE inBuffer # <<>>
      <4>1. /\ Follow(Tail(inBuffer), HeadOr(arrived, unsent))
            /\ HeadOr(Tail(inBuffer), HeadOr(arrived, unsent)) = NextPiece(inBuffer[1])
        BY <1>2, <2>1, <3>2, FollowTail
      <4> QED
        BY <1>1, <1>5, <3>2, <4>1, Zenon
    <3> QED
      BY <3>1, <3>2
  <2>3. Follow(arrived', unsent') /\ Follow(inBuffer', HeadOr(arrived', unsent'))
    BY <1>1, <2>1, <2>2, Zenon
  <2>4. InOrder' /\ ToRead' = HeadOr(inBuffer', HeadOr(arrived', unsent'))
    BY <2>3, InOrderNext, Zenon
  <2> QED
    BY <1>1, <2>2, <2>4, Zenon
<1> HIDE DEF d
<1>7. d \in HttpConnData /\ ParserOK(d.parser)
  BY <1>3, <1>4, AfterAnswerOK, Zenon DEF d
<1>8. InStep(d.parser, y)
  <2>1. CASE p.state = "Done"
    <3>1. d.parser = IF p.close THEN p ELSE NewParser
      BY <1>4, <2>1, AfterAnswerOK, Zenon DEF d
    <3>2. p.req \in DOMAIN script /\ DoneInStep(p, ToRead) /\ CloseInStep(p, ToRead)
      BY <1>3, <1>4, <2>1, Zenon DEF InStep
    <3>3. CASE p.close
      <4>1. DoneInStep(p, y)
        <5>1. CASE pipelined
          BY <3>3, <5>1, Zenon DEF DoneInStep
        <5>2. CASE ~pipelined
          BY <2>1, <3>2, <5>2, Zenon
        <5> QED
          BY <5>1, <5>2
      <4>2. CloseInStep(p, y)
        BY <2>1, <3>2 DEF CloseInStep
      <4> QED
        BY <2>1, <3>1, <3>2, <3>3, <4>1, <4>2 DEF InStep
    <3>4. CASE ~p.close
      <4>1. ToRead = FirstPiece(p.req + 1)
        BY <3>2, <3>4, Zenon DEF DoneInStep
      <4>2. ToRead.at = 1
        BY <4>1 DEF FirstPiece
      <4>3. inBuffer # <<>> => y.at = 2
        <5> SUFFICES ASSUME inBuffer # <<>> PROVE NextPiece(ToRead).at = 2
          OBVIOUS
        <5> DEFINE x == ToRead
        <5>1. x \in SentPieces
          BY <1>5
        <5>2. /\ x.req \in DOMAIN script /\ script[x.req] \in Request
              /\ x.at < EndAt(script[x.req]) + Len(script[x.req].body)
                   => NextPiece(x).req = x.req /\ NextPiece(x).at = x.at + 1
          BY <1>4, <5>1, KindOf, NextOf, Zenon
        <5>3. EndAt(script[x.req]) \in 3 .. 5 /\ Len(script[x.req].body) \in Nat
          BY <5>2, EndAtOf DEF Request
        <5> QED
          BY <4>2, <5>2, <5>3
      <4>4. /\ NewParser.state = "RequestLine" /\ NewParser.lineBuf = <<>> /\ NewParser.close = FALSE
            /\ NewParser.contentLength = 0 /\ NewParser.bodyBytesRead = 0
        BY DEF NewParser
      <4>5. LineInStep(NewParser, y)
        BY <4>2, <4>3, <4>4 DEF LineInStep
      <4>6. CloseInStep(NewParser, y)
        BY <4>4 DEF CloseInStep
      <4> QED
        BY <3>1, <3>4, <4>4, <4>5, <4>6 DEF InStep
    <3> QED
      BY <3>3, <3>4
  <2>2. CASE p.state # "Done"
    <3>1. d = connData
      BY <2>2 DEF d
    <3>2. CASE inBuffer = <<>>
      BY <1>3, <1>4, <3>1, <3>2, Zenon
    <3>3. CASE inBuffer # <<>>
      <4>1. Kind(ToRead) = "zero"
        BY <1>5, <2>2, <3>3, Zenon DEF ParseEnd, NothingToRead
      <4>2. InStep(p, NextPiece(ToRead))
        BY <1>3, <1>4, <1>5, <2>2, <3>3, <4>1, SkipZero DEF ClientOK
      <4> QED
        BY <3>1, <3>3, <4>2, Zenon
    <3> QED
      BY <3>2, <3>3
  <2> QED
    BY <2>1, <2>2
<1> HIDE DEF y
<1>9. DataOf' = d
  BY <1>1, <1>7, DataKept
<1>10. InStep(DataOf.parser, ToRead)'
  BY <1>6, <1>8, <1>9, InStepNext, Zenon
<1>11. ParserInv'
  <2>1. phase' # "parse"
    BY <1>1
  <2> QED
    BY <1>6, <1>10, <2>1, Zenon DEF ParserInv
<1> QED
  BY <1>1, <1>3, <1>4, <1>5, <1>6, <1>7, <1>9, <1>11, Zenon DEF y

-----------------------------------------------------------------------------
(* A client that waits for its answers *)

\* What is not read yet belongs to a request that was not handled.
LEMMA NothingAfterDone ==
  ASSUME BuffersOK, DataOK, RoundInv, ParserInv, WaitingInv, ~pipelined, ~aborted,
         phase = "parse", connData.parser.state = "Done"
  PROVE  /\ inBuffer = <<>> /\ arrived = <<>> /\ ToRead = FirstPiece(Len(handled) + 2)
         /\ connData.parser.req = Len(handled) + 1
<1>1. /\ open /\ connData \in HttpConnData /\ InStep(DataOf.parser, ToRead)
      /\ InTime(arrived) /\ InTime(inBuffer) /\ AtNext(DataOf.parser, ToRead)
  BY Zenon DEF ParserInv, WaitingInv
<1>2. DataOf = connData
  BY <1>1, NoDataAssumption DEF DataOf
<1>3. connData.parser.req = Len(handled) + 1
  <2>1. AtNext(connData.parser, ToRead)
    BY <1>1, <1>2
  <2> QED
    BY <2>1 DEF AtNext
<1>4. Len(handled) \in Nat /\ inBuffer \in Seq(SentPieces) /\ arrived \in Seq(SentPieces)
  BY LenProperties DEF BuffersOK
<1>5. ToRead = FirstPiece(Len(handled) + 2) /\ ToRead.req = Len(handled) + 2
  <2>1. DoneInStep(connData.parser, ToRead)
    BY <1>1, <1>2, Zenon DEF InStep
  <2>2. ToRead = FirstPiece(connData.parser.req + 1)
    BY <2>1, Zenon DEF DoneInStep
  <2>3. connData.parser.req + 1 = Len(handled) + 2
    BY <1>3, <1>4
  <2> QED
    BY <2>2, <2>3 DEF FirstPiece
<1>6. inBuffer = <<>>
  <2> SUFFICES ASSUME inBuffer # <<>> PROVE FALSE
    OBVIOUS
  <2>1. ToRead = inBuffer[1]
    BY DEF ToRead, HeadOr
  <2>2. 1 \in DOMAIN inBuffer
    BY <1>4, EmptySeq, LenProperties
  <2>3. inBuffer[1].req <= Len(handled) + 1
    BY <1>1, <2>2, Zenon DEF InTime
  <2> QED
    BY <1>4, <1>5, <2>1, <2>3
<1>7. arrived = <<>>
  <2> SUFFICES ASSUME arrived # <<>> PROVE FALSE
    OBVIOUS
  <2>1. ToRead = arrived[1]
    BY <1>6 DEF ToRead, Coming, HeadOr
  <2>2. 1 \in DOMAIN arrived
    BY <1>4, EmptySeq, LenProperties
  <2>3. arrived[1].req <= Len(handled) + 1
    BY <1>1, <2>2, Zenon DEF InTime
  <2> QED
    BY <1>4, <1>5, <2>1, <2>3
<1> QED
  BY <1>3, <1>5, <1>6, <1>7

\* A step after which the connection is closed, or is as it was.
LEMMA WaitingStays ==
  ASSUME WaitingInv, UNCHANGED <<script, received, outBuffer, handled, arrived, inBuffer, aborted>>,
         ToRead' = ToRead,
         \/ ~open'
         \/ /\ open' = open /\ DataOf' = DataOf
            /\ phase' = "parse" <=> phase = "parse"
            /\ wc' = wc \/ DataOf.shouldKeepAlive
  PROVE  WaitingInv'
<1>1. Cuts'
  BY Zenon DEF WaitingInv, Cuts
<1>2. ASSUME ~aborted' PROVE NotTooMuch' /\ InTime(arrived)' /\ InTime(inBuffer)'
  BY <1>2, Zenon DEF WaitingInv, NotTooMuch, InTime
<1>3. ASSUME ~aborted', open' PROVE AtNext(DataOf.parser, ToRead)' /\ LastAnswer'
  <2>1. /\ AtNext(DataOf.parser, ToRead) /\ LastAnswer /\ DataOf' = DataOf
        /\ phase' = "parse" <=> phase = "parse"
        /\ wc' = wc \/ DataOf.shouldKeepAlive
    BY <1>3, Zenon DEF WaitingInv
  <2>2. AtNext(DataOf.parser, ToRead)'
    BY <2>1, Zenon DEF AtNext
  <2>3. NoneCloses' <=> NoneCloses
    BY Zenon DEF NoneCloses
  <2>4. Closing /\ wc' = wc => Closing'
    BY <2>1, Zenon DEF Closing
  <2>5. LastAnswer'
    BY <2>1, <2>3, <2>4, Zenon DEF LastAnswer
  <2> QED
    BY <2>2, <2>5
<1> QED
  BY <1>1, <1>2, <1>3, Zenon DEF WaitingInv

\* A client that waits sends nothing of a request too early.
LEMMA WaitingClientSend ==
  ASSUME ClientOK, BuffersOK, ParserInv, WaitingInv, ~pipelined, ~aborted, ClientSend,
         script' = script, ToRead' = ToRead
  PROVE  WaitingInv'
<1>1. /\ arrived' = Append(arrived, unsent) /\ unsent.req \in DOMAIN script /\ Free(unsent.req)
      /\ UNCHANGED <<inBuffer, open, connData, phase, received, outBuffer, handled, wc, aborted>>
  BY DEF ClientSend, loopVars
<1>2. NotTooMuch /\ InTime(arrived) /\ InTime(inBuffer) /\ Cuts
  BY Zenon DEF WaitingInv
<1>3. /\ Len(received) \in Nat /\ Len(outBuffer) \in Nat /\ Len(handled) \in Nat /\ unsent.req \in Nat
      /\ arrived \in Seq(SentPieces)
  BY <1>1, ScriptIsSeq, LenProperties DEF BuffersOK
<1>4. Len(received) >= 2 * (unsent.req - 1)
  BY <1>1 DEF Free, AnswerSize
<1>5. unsent.req <= Len(handled) + 1
  BY <1>2, <1>3, <1>4 DEF NotTooMuch, AnswerSize
<1>6. InTime(arrived')
  <2>1. unsent \in SentPieces
    <3>1. FirstPiece(Len(script) + 1).req \notin DOMAIN script
      BY ScriptIsSeq, LenProperties DEF FirstPiece
    <3> QED
      BY <1>1, <3>1 DEF ClientOK
  <2> DEFINE t == Append(arrived, unsent)
  <2>2. /\ DOMAIN t = 1 .. Len(arrived) + 1 /\ t[Len(arrived) + 1] = unsent
        /\ \A i \in 1 .. Len(arrived) : t[i] = arrived[i]
        /\ Len(arrived) \in Nat /\ DOMAIN arrived = 1 .. Len(arrived)
    BY <1>3, <2>1, AppendProperties, LenProperties
  <2> HIDE DEF t
  <2>3. \A i \in DOMAIN t : i = Len(arrived) + 1 \/ i \in DOMAIN arrived
    BY <2>2
  <2>4. InTime(t)
    BY <1>2, <1>5, <2>2, <2>3, Zenon DEF InTime
  <2> QED
    BY <1>1, <2>4 DEF t
<1>7. NotTooMuch' /\ InTime(arrived)' /\ InTime(inBuffer)' /\ Cuts'
  <2>1. NotTooMuch' /\ InTime(inBuffer)' /\ Cuts'
    BY <1>1, <1>2, Zenon DEF NotTooMuch, InTime, Cuts
  <2>2. InTime(arrived)'
    BY <1>1, <1>6, Zenon DEF InTime
  <2> QED
    BY <2>1, <2>2
<1>8. ASSUME open' PROVE AtNext(DataOf.parser, ToRead)' /\ LastAnswer'
  <2>1. DataOf' = DataOf /\ AtNext(DataOf.parser, ToRead) /\ LastAnswer /\ InStep(DataOf.parser, ToRead)
    BY <1>1, <1>8, DataFound, Zenon DEF WaitingInv, ParserInv
  <2>2. AtNext(DataOf.parser, ToRead)'
    BY <1>1, <2>1, Zenon DEF AtNext
  <2>3. ASSUME Closing, phase # "parse" PROVE wc # 0
    <3> SUFFICES ASSUME wc = 0 PROVE FALSE
      OBVIOUS
    <3>1. /\ DataOf.parser.state = "Done" /\ inBuffer = <<>> /\ arrived = <<>>
          /\ Len(received) < 2 * Len(handled)
      BY <2>3 DEF Closing, AnswerSize
    <3>2. ToRead = unsent
      BY <3>1 DEF ToRead, Coming, HeadOr
    <3>3. DoneInStep(DataOf.parser, ToRead)
      BY <2>1, <3>1, Zenon DEF InStep
    <3>4. unsent = FirstPiece(DataOf.parser.req + 1)
      BY <3>2, <3>3, Zenon DEF DoneInStep
    <3>5. DataOf.parser.req = Len(handled)
      BY <2>1, <2>3, <3>1 DEF AtNext
    <3>6. unsent.req = Len(handled) + 1
      BY <3>4, <3>5 DEF FirstPiece
    <3> QED
      BY <1>3, <1>4, <3>1, <3>6
  <2>4. ~DataOf.shouldKeepAlive => Closing /\ phase # "parse"
    BY <2>1, Zenon DEF LastAnswer
  <2>5. ~DataOf.shouldKeepAlive => Closing'
    BY <1>1, <2>1, <2>3, <2>4, Zenon DEF Closing
  <2>6. NoneCloses' <=> NoneCloses
    BY <1>1, Zenon DEF NoneCloses
  <2>7. LastAnswer'
    BY <1>1, <2>1, <2>5, <2>6, Zenon DEF LastAnswer
  <2> QED
    BY <2>2, <2>7
<1> QED
  BY <1>7, <1>8, Zenon DEF WaitingInv


\* Nothing is read for a connection that is not to be used again.
LEMMA WaitingHandleRead ==
  ASSUME BuffersOK, RoundInv, ParserInv, WaitingInv, ~aborted, HandleRead, script' = script,
         open' => ToRead' = ToRead /\ DataOf' = DataOf /\ phase' = "parse" /\ arrived # <<>>
  PROVE  WaitingInv'
<1>1. /\ arrived' = <<>> /\ inBuffer' = inBuffer \o arrived /\ phase = "events" /\ "read" \in active
      /\ UNCHANGED <<received, outBuffer, handled, wc, aborted>>
  BY DEF HandleRead, clientVars
<1>2. NotTooMuch /\ InTime(arrived) /\ InTime(inBuffer) /\ Cuts
  BY Zenon DEF WaitingInv
<1>3. NotTooMuch' /\ Cuts'
  BY <1>1, <1>2, Zenon DEF NotTooMuch, Cuts
<1>4. InTime(arrived)'
  <2>1. DOMAIN arrived' = {}
    BY <1>1
  <2> QED
    BY <2>1, Zenon DEF InTime
<1>5. InTime(inBuffer)'
  <2> DEFINE t == inBuffer \o arrived
  <2>1. /\ Len(inBuffer) \in Nat /\ Len(arrived) \in Nat
        /\ DOMAIN inBuffer = 1 .. Len(inBuffer) /\ DOMAIN arrived = 1 .. Len(arrived)
    BY LenProperties DEF BuffersOK
  <2>2. /\ DOMAIN t = 1 .. Len(inBuffer) + Len(arrived)
        /\ \A i \in 1 .. Len(inBuffer) + Len(arrived) :
             t[i] = IF i <= Len(inBuffer) THEN inBuffer[i] ELSE arrived[i - Len(inBuffer)]
    BY ConcatProperties, LenProperties DEF BuffersOK
  <2> HIDE DEF t
  <2>3. \A i \in DOMAIN t : \/ i \in DOMAIN inBuffer /\ t[i] = inBuffer[i]
                            \/ i - Len(inBuffer) \in DOMAIN arrived /\ t[i] = arrived[i - Len(inBuffer)]
    BY <2>1, <2>2
  <2>4. InTime(t)
    BY <1>2, <2>3, Zenon DEF InTime
  <2> QED
    BY <1>1, <2>4, Zenon DEF InTime, t
<1>6. ASSUME open' PROVE AtNext(DataOf.parser, ToRead)' /\ LastAnswer'
  <2>1. open
    BY <1>1 DEF RoundInv, ClosedIsQuiet
  <2>2. AtNext(DataOf.parser, ToRead) /\ LastAnswer
    BY <2>1, Zenon DEF WaitingInv
  <2>3. wc = 0
    BY <1>1 DEF RoundInv, CompleteIsLast
  <2>4. DataOf.shouldKeepAlive
    BY <1>6, <2>2, <2>3, Zenon DEF LastAnswer, Closing
  <2>5. DataOf.parser.state # "Done"
    <3>1. phase # "parse"
      BY <1>1
    <3> QED
      BY <2>2, <2>4, <3>1, Zenon DEF LastAnswer
  <2>6. AtNext(DataOf.parser, ToRead)'
    BY <1>1, <1>6, <2>2, <2>5, Zenon DEF AtNext
  <2>7. NoneCloses'
    BY <1>1, <2>2, <2>4, Zenon DEF LastAnswer, NoneCloses
  <2>8. LastAnswer'
    BY <1>6, <2>4, <2>7, Zenon DEF LastAnswer
  <2> QED
    BY <2>6, <2>8
<1> QED
  BY <1>3, <1>4, <1>5, <1>6, Zenon DEF WaitingInv

\* What is left of a buffer is in time if the whole was.
LEMMA InTimeTail ==
  ASSUME BuffersOK, InTime(inBuffer), inBuffer # <<>>
  PROVE  InTime(Tail(inBuffer))
<1>1. /\ Tail(inBuffer) \in Seq(SentPieces) /\ Len(Tail(inBuffer)) = Len(inBuffer) - 1
      /\ Len(inBuffer) \in Nat /\ DOMAIN inBuffer = 1 .. Len(inBuffer)
      /\ \A i \in 1 .. Len(Tail(inBuffer)) : Tail(inBuffer)[i] = inBuffer[i + 1]
  BY HeadTailProperties, LenProperties DEF BuffersOK
<1>2. DOMAIN Tail(inBuffer) = 1 .. Len(Tail(inBuffer))
  BY <1>1, LenProperties
<1>3. \A i \in DOMAIN Tail(inBuffer) : i + 1 \in DOMAIN inBuffer /\ Tail(inBuffer)[i] = inBuffer[i + 1]
  BY <1>1, <1>2
<1> QED
  BY <1>3, Zenon DEF InTime

\* The parser goes on in the request it is at.
LEMMA FeedAtNext ==
  ASSUME script \in Seq(Request), NEW p, ParserOK(p), NEW x \in SentPieces, InStep(p, x), AtNext(p, x),
         p.state # "Done", Feed(p, x).state \notin {"Error", "Thrown"}, phase = "parse",
         Len(handled) \in Nat
  PROVE  AtNext(Feed(p, x), NextPiece(x))
<1> DEFINE q == Feed(p, x)
<1>1. CASE p.state = "RequestLine"
  <2>1. LineInStep(p, x) /\ x.req = Len(handled) + 1
    BY <1>1, Zenon DEF InStep, AtNext
  <2>2. /\ script[x.req] \in Request
        /\ x.at < EndAt(script[x.req]) + Len(script[x.req].body)
             => NextPiece(x).req = x.req /\ NextPiece(x).at = x.at + 1
        /\ x.at = 1 => Kind(x) = "first"
        /\ x.at = 2 => Kind(x) \in {"line", "bad"}
    BY KindOf, NextOf, Zenon
  <2>3. EndAt(script[x.req]) \in 3 .. 5 /\ Len(script[x.req].body) \in Nat
    BY <2>2, EndAtOf DEF Request
  <2>4. NextPiece(x).req = Len(handled) + 1
    <3>1. x.at \in 1 .. 2
      BY <2>1 DEF LineInStep
    <3>2. x.at < EndAt(script[x.req]) + Len(script[x.req].body)
      <4>1. \A a \in 1 .. 2, e \in 3 .. 5, n \in Nat : a < e + n
        OBVIOUS
      <4> QED
        BY <2>3, <3>1, <4>1, Zenon
    <3> QED
      BY <2>1, <2>2, <3>2, Zenon
  <2>5. CASE x.at = 1
    <3>1. q = [p EXCEPT !.lineBuf = Append(@, "first")] /\ p.lineBuf = <<>>
      BY <1>1, <2>1, <2>2, <2>5 DEF Feed, LineInStep
    <3>2. q = [p EXCEPT !.lineBuf = <<"first">>]
      BY <3>1, AppendToEmpty
    <3>3. q.state = "RequestLine" /\ q.lineBuf = <<"first">>
      BY <1>1, <3>2 DEF ParserOK, FHttpParser
    <3>4. <<"first">> # <<>>
      OBVIOUS
    <3> HIDE DEF q
    <3> QED
      BY <2>4, <3>3, <3>4 DEF AtNext, q
  <2>6. CASE x.at = 2
    <3>1. q = [p EXCEPT !.state = "Headers", !.lineBuf = <<>>, !.req = x.req]
      BY <1>1, <2>2, <2>6 DEF Feed, ParseRequestLine, ParserOK, FHttpParser
    <3>2. q.state = "Headers" /\ q.req = x.req
      BY <3>1 DEF ParserOK, FHttpParser
    <3> HIDE DEF q
    <3> QED
      BY <2>1, <3>2 DEF AtNext, q
  <2> QED
    BY <2>1, <2>5, <2>6 DEF LineInStep
<1>2. CASE p.state \in {"Headers", "Body"}
  <2>1. p.req = Len(handled) + 1
    BY <1>2 DEF AtNext
  <2>2. ParserOK(q) /\ q.req = p.req /\ q.state # "RequestLine"
    <3>1. ParserOK(q)
      BY FeedStep
    <3>2. CASE p.state = "Headers"
      <4>1. x.at \in 3 .. EndAt(script[x.req]) /\ x.req = p.req
        <5>1. HeadersInStep(p, x)
          BY <3>2, Zenon DEF InStep
        <5> QED
          BY <5>1 DEF HeadersInStep
      <4>2. Kind(x) \in {"close", "length", "end"}
        <5>1. /\ x.at = 3 /\ x.at < EndAt(script[x.req]) /\ script[x.req].close => Kind(x) = "close"
              /\ x.at > 2 /\ x.at < EndAt(script[x.req]) /\ (x.at > 3 \/ ~script[x.req].close)
                   => Kind(x) = "length"
              /\ x.at = EndAt(script[x.req]) => Kind(x) = "end"
          BY KindOf, Zenon
        <5>2. EndAt(script[x.req]) \in 3 .. 5
          BY EndAtOf
        <5> QED
          BY <4>1, <5>1, <5>2
      <4>3. \/ q = [p EXCEPT !.close = TRUE]
            \/ q = [p EXCEPT !.contentLength = Len(script[p.req].body)]
            \/ q = [p EXCEPT !.state = EndHeaders(p)]
        BY <3>2, <4>2 DEF Feed
      <4>4. EndHeaders(p) # "RequestLine"
        <5>1. script[x.req] \in Request
          BY KindOf, Zenon
        <5>2. p.contentLength \in Nat /\ script[p.req] \in Request
          BY <4>1, <5>1 DEF ParserOK, FHttpParser
        <5> QED
          BY <5>2, EndHeadersOf
      <4> HIDE DEF q
      <4> QED
        BY <3>1, <3>2, <4>3, <4>4 DEF ParserOK, FHttpParser
    <3>3. CASE p.state = "Body"
      <4>1. q = [p EXCEPT !.bodyBytesRead = p.bodyBytesRead + 1,
                          !.state = IF BodyEnds(p, p.bodyBytesRead + 1) THEN "Done" ELSE "Body"]
        BY <3>3, Zenon DEF Feed
      <4> HIDE DEF q
      <4> QED
        BY <3>1, <4>1 DEF ParserOK, FHttpParser
    <3> QED
      BY <1>2, <3>2, <3>3
  <2> HIDE DEF q
  <2> QED
    BY <2>1, <2>2 DEF AtNext, q
<1> QED
  BY <1>1, <1>2 DEF ParserOK, FHttpParser

\* A turn of parse() stays at the request to be handled next.
LEMMA WaitingParseNext ==
  ASSUME ClientOK, BuffersOK, DataOK, ParserInv, WaitingInv, ~aborted, ParseNext,
         UNCHANGED <<script, pipelined>>, Feed(connData.parser, Head(inBuffer)).state # "Thrown"
  PROVE  WaitingInv'
<1> DEFINE p == connData.parser
           q == Feed(p, ToRead)
<1>1. /\ arrived' = arrived /\ inBuffer' = Tail(inBuffer) /\ inBuffer # <<>> /\ phase = "parse"
      /\ UNCHANGED <<received, outBuffer, handled, aborted>>
  BY DEF ParseNext, NothingToRead, clientVars
<1>2. NotTooMuch /\ InTime(arrived) /\ InTime(inBuffer) /\ Cuts
  BY Zenon DEF WaitingInv
<1>3. NotTooMuch' /\ InTime(arrived)' /\ Cuts'
  BY <1>1, <1>2, Zenon DEF NotTooMuch, InTime, Cuts
<1>4. InTime(inBuffer)'
  <2>1. InTime(Tail(inBuffer))
    BY <1>1, <1>2, InTimeTail
  <2> QED
    BY <1>1, <2>1, Zenon DEF InTime
<1>5. ASSUME open' PROVE AtNext(DataOf.parser, ToRead)' /\ LastAnswer'
  <2>1. /\ DataOf = connData /\ p.state # "Done" /\ open /\ ToRead \in SentPieces
        /\ ParserOK(connData'.parser) /\ connData' \in HttpConnData
        /\ DataOf' = connData' /\ ToRead' = NextPiece(ToRead) /\ phase' = "parse"
        /\ connData'.parser = q /\ connData'.shouldKeepAlive = connData.shouldKeepAlive
        /\ q.state \notin {"Error", "Thrown"}
    BY <1>5, ParserParseNext, Zenon
  <2>2. AtNext(p, ToRead) /\ LastAnswer /\ InStep(p, ToRead) /\ ParserOK(p)
    <3>1. AtNext(DataOf.parser, ToRead) /\ LastAnswer /\ InStep(DataOf.parser, ToRead)
      BY <2>1, Zenon DEF WaitingInv, ParserInv
    <3>2. connData \in HttpConnData
      BY <1>1, Zenon DEF ParserInv
    <3>3. ParserOK(p)
      BY <3>2, NoDataAssumption DEF DataOK
    <3> QED
      BY <2>1, <3>1, <3>3, Zenon
  <2>3. script \in Seq(Request) /\ Len(handled) \in Nat
    BY ScriptIsSeq, LenProperties DEF BuffersOK
  <2>4. AtNext(q, NextPiece(ToRead))
    BY <1>1, <2>1, <2>2, <2>3, FeedAtNext, Zenon
  <2> HIDE DEF q
  <2>5. AtNext(DataOf.parser, ToRead)'
    BY <1>1, <2>1, <2>4, Zenon DEF AtNext
  <2>6. DataOf'.shouldKeepAlive /\ NoneCloses
    BY <1>1, <2>1, <2>2, Zenon DEF LastAnswer
  <2>7. NoneCloses'
    BY <1>1, <2>6, Zenon DEF NoneCloses
  <2>8. LastAnswer'
    BY <2>1, <2>6, <2>7, Zenon DEF LastAnswer
  <2> QED
    BY <2>5, <2>8
<1> QED
  BY <1>1, <1>3, <1>4, <1>5, Zenon DEF WaitingInv


\* A zero byte is no part of a request line or of headers.
LEMMA ZeroNotInLine ==
  ASSUME script \in Scripts, NEW p, NEW x \in SentPieces, InStep(p, x), Kind(x) = "zero"
  PROVE  p.state # "RequestLine"
<1>1. x.at > EndAt(script[x.req]) /\ EndAt(script[x.req]) \in 3 .. 5 /\ x.at \in Nat
  BY ScriptsAssumption, ZeroIsLate, EndAtOf DEF SentPieces
<1> SUFFICES ASSUME p.state = "RequestLine" PROVE FALSE
  OBVIOUS
<1>2. LineInStep(p, x)
  BY Zenon DEF InStep
<1> QED
  BY <1>1, <1>2 DEF LineInStep

\* One request more is handled, in order.
LEMMA HandledNext ==
  ASSUME BuffersOK, Cuts, NoneCloses, script' = script, handled' = Append(handled, Len(handled) + 1),
         Len(handled) + 1 \in DOMAIN script
  PROVE  /\ Cuts' /\ Len(handled') = Len(handled) + 1 /\ Len(handled) \in Nat
         /\ ~script[Len(handled) + 1].close => NoneCloses'
<1> DEFINE h == Len(handled)
           t == Append(handled, h + 1)
<1>1. /\ h \in Nat /\ DOMAIN handled = 1 .. h /\ handled \in Seq(DOMAIN script)
  BY LenProperties DEF BuffersOK
<1>2. /\ t \in Seq(DOMAIN script) /\ Len(t) = h + 1 /\ t[h + 1] = h + 1
      /\ \A i \in 1 .. h : t[i] = handled[i]
  BY <1>1, AppendProperties
<1>3. DOMAIN t = 1 .. h + 1 /\ t \in [1 .. h + 1 -> DOMAIN script]
  BY <1>2, LenProperties
<1> HIDE DEF t
<1>4. \A i \in 1 .. h + 1 : i \in 1 .. h \/ i = h + 1
  BY <1>1
<1>5. \A i \in 1 .. h + 1 : t[i] = i
  <2>1. \A i \in 1 .. h : handled[i] = i
    BY <1>1 DEF Cuts
  <2> QED
    BY <1>2, <1>4, <2>1, Zenon
<1>6. t = [n \in DOMAIN t |-> n]
  BY <1>3, <1>5
<1>7. \A n \in DOMAIN t : script[n].close => n = Len(t)
  BY <1>1, <1>2, <1>3, <1>4, Zenon DEF NoneCloses
<1>8. handled' = t
  BY DEF t
<1>9. Cuts'
  BY <1>6, <1>7, <1>8, Zenon DEF Cuts
<1>10. ~script[h + 1].close => NoneCloses'
  BY <1>1, <1>3, <1>4, <1>8, Zenon DEF NoneCloses
<1> QED
  BY <1>1, <1>2, <1>8, <1>9, <1>10, Zenon

\* The request that is handled is the one after the last.
LEMMA WaitingParseEnd ==
  ASSUME ClientOK, BuffersOK, DataOK, RoundInv, ParserInv, WaitingInv, ~pipelined, ~aborted, ParseEnd,
         UNCHANGED <<script, pipelined>>
  PROVE  WaitingInv'
<1> DEFINE p == connData.parser
           h == Len(handled)
<1>1. phase = "parse" /\ UNCHANGED <<arrived, aborted>>
      /\ inBuffer' = IF inBuffer = <<>> THEN <<>> ELSE Tail(inBuffer)
  BY DEF ParseEnd
<1>2. p.state = "Done" => inBuffer = <<>> /\ arrived = <<>> /\ ToRead = FirstPiece(h + 2) /\ p.req = h + 1
  BY <1>1, NothingAfterDone, Zenon
<1>3. /\ DataOf = connData /\ open /\ open'
      /\ ToRead' = IF inBuffer = <<>> THEN ToRead ELSE NextPiece(ToRead)
      /\ inBuffer # <<>> => ToRead \in SentPieces /\ ToRead = inBuffer[1]
      /\ connData' \in HttpConnData /\ DataOf' = connData' /\ phase' = "events"
  BY <1>2, ParserParseEnd, Zenon
<1>4. /\ NotTooMuch /\ InTime(arrived) /\ InTime(inBuffer) /\ Cuts
      /\ AtNext(p, ToRead) /\ LastAnswer /\ InStep(p, ToRead)
  BY <1>3, Zenon DEF WaitingInv, ParserInv
<1>5. connData.shouldKeepAlive /\ NoneCloses
  BY <1>1, <1>3, <1>4, Zenon DEF LastAnswer
<1>6. /\ Len(received) \in Nat /\ Len(outBuffer) \in Nat /\ h \in Nat /\ script \in Seq(Request)
  BY ScriptIsSeq, LenProperties DEF BuffersOK
<1>7. phase' # "parse"
  BY <1>3
<1>8. CASE p.state = "Done"
  <2>1. /\ handled' = Append(handled, h + 1) /\ SendInLoop(Answer(h + 1))
        /\ connData' = AfterAnswer(p) /\ inBuffer' = <<>> /\ arrived' = <<>> /\ ToRead' = ToRead
    BY <1>1, <1>2, <1>3, <1>8, Zenon DEF ParseEnd
  <2>2. h + 1 \in DOMAIN script /\ (p.close <=> script[h + 1].close)
    BY <1>2, <1>4, <1>8, Zenon DEF InStep, CloseInStep
  <2>3. /\ Cuts' /\ Len(handled') = h + 1 /\ (~script[h + 1].close => NoneCloses')
    BY <1>4, <1>5, <2>1, <2>2, HandledNext, Zenon
  <2>4. /\ Len(received') + Len(outBuffer') <= Len(received) + Len(outBuffer) + 2
        /\ wc' = 0 => Len(received') < Len(received) + Len(outBuffer) + 2
        /\ Len(received') \in Nat /\ Len(outBuffer') \in Nat
    <3>1. /\ Answer(h + 1) \in Seq(AnswerPieces) /\ Len(Answer(h + 1)) = 2
      BY <2>2, AnswerIsSeq DEF AnswerSize
    <3>2. wc = 0 /\ Len(Answer(h + 1)) > 0
      BY <1>1, <3>1 DEF RoundInv, CompleteIsLast
    <3>3. received \in Seq(AnswerPieces) /\ outBuffer \in Seq(AnswerPieces)
      BY DEF BuffersOK
    <3>4. /\ received' \in Seq(AnswerPieces) /\ outBuffer' \in Seq(AnswerPieces)
          /\ Len(received') + Len(outBuffer') <= Len(received) + Len(outBuffer) + Len(Answer(h + 1))
          /\ wc' = 0 => Len(received') < Len(received) + Len(outBuffer) + Len(Answer(h + 1))
      BY <2>1, <3>1, <3>2, <3>3, SendParts, Zenon
    <3> QED
      BY <3>1, <3>4, LenProperties
  <2>5. NotTooMuch'
    BY <1>4, <1>6, <2>3, <2>4 DEF NotTooMuch, AnswerSize
  <2>6. InTime(arrived)' /\ InTime(inBuffer)'
    <3>1. DOMAIN arrived' = {} /\ DOMAIN inBuffer' = {}
      BY <2>1
    <3> QED
      BY <3>1, Zenon DEF InTime
  <2>7. /\ DataOf'.parser = IF p.close THEN p ELSE NewParser
        /\ DataOf'.shouldKeepAlive = ~p.close
    <3>1. connData \in HttpConnData
      BY <1>1, Zenon DEF ParserInv
    <3>2. ParserOK(p)
      BY <3>1, NoDataAssumption DEF DataOK
    <3> QED
      BY <1>3, <1>6, <2>1, <3>2, AfterAnswerOK, Zenon
  <2>8. NewParser.state = "RequestLine" /\ ToRead'.req = Len(handled') + 1 /\ ToRead'.at = 1
    <3>1. NewParser.state = "RequestLine"
      BY DEF NewParser
    <3>2. ToRead' = FirstPiece(h + 2)
      BY <1>2, <1>8, <2>1, Zenon
    <3>3. ToRead'.req = h + 2 /\ ToRead'.at = 1
      BY <3>2 DEF FirstPiece
    <3> QED
      BY <1>6, <2>3, <3>1, <3>3
  <2>9. AtNext(DataOf.parser, ToRead)'
    <3>1. CASE p.close
      <4>1. DataOf'.parser.state = "Done" /\ DataOf'.parser.req = Len(handled')
        BY <1>2, <1>8, <2>3, <2>7, <3>1, Zenon
      <4> QED
        BY <1>7, <4>1 DEF AtNext
    <3>2. CASE ~p.close
      <4>1. DataOf'.parser.state = "RequestLine"
        BY <2>7, <2>8, <3>2, Zenon
      <4> QED
        BY <2>8, <4>1 DEF AtNext
    <3> QED
      BY <3>1, <3>2
  <2>10. LastAnswer'
    <3>1. ~p.close => DataOf'.parser.state # "Done" /\ NoneCloses'
      <4>1. ~p.close => DataOf'.parser.state = "RequestLine"
        BY <2>7, <2>8, Zenon
      <4> QED
        BY <2>2, <2>3, <4>1
    <3>2. p.close => Closing'
      <4>1. wc' = 0 => Len(received') < 2 * (h + 1)
        BY <1>4, <1>6, <2>4 DEF NotTooMuch, AnswerSize
      <4>2. wc' = 0 => Len(received') < AnswerSize' * Len(handled')
        BY <2>3, <4>1 DEF AnswerSize
      <4>3. p.close => DataOf'.parser.state = "Done"
        BY <1>8, <2>7, Zenon
      <4> QED
        BY <2>1, <4>2, <4>3, Zenon DEF Closing
    <3> QED
      BY <1>7, <2>7, <3>1, <3>2, Zenon DEF LastAnswer
  <2> QED
    BY <2>3, <2>5, <2>6, <2>9, <2>10, Zenon DEF WaitingInv
<1>9. CASE p.state # "Done"
  <2>1. UNCHANGED <<received, outBuffer, handled, connData>>
    BY <1>9 DEF ParseEnd
  <2>2. NotTooMuch' /\ InTime(arrived)' /\ Cuts' /\ NoneCloses'
    BY <1>1, <1>4, <1>5, <2>1, Zenon DEF NotTooMuch, InTime, Cuts, NoneCloses
  <2>3. InTime(inBuffer)'
    <3>1. CASE inBuffer = <<>>
      BY <1>1, <1>4, <2>1, <3>1, Zenon DEF InTime
    <3>2. CASE inBuffer # <<>>
      <4>1. InTime(Tail(inBuffer))
        BY <1>4, <3>2, InTimeTail
      <4> QED
        BY <1>1, <2>1, <3>2, <4>1, Zenon DEF InTime
    <3> QED
      BY <3>1, <3>2
  <2>4. p.state = "RequestLine" => ToRead' = ToRead
    <3>1. inBuffer # <<>> => Kind(ToRead) = "zero"
      <4>1. inBuffer # <<>> => Head(inBuffer) = inBuffer[1]
        BY EmptySeq DEF BuffersOK
      <4> QED
        BY <1>3, <1>9, <4>1, Zenon DEF ParseEnd, NothingToRead
    <3>2. inBuffer # <<>> => p.state # "RequestLine"
      BY <1>3, <1>4, <3>1, ZeroNotInLine DEF ClientOK
    <3> QED
      BY <1>3, <3>2, Zenon
  <2>5. AtNext(DataOf.parser, ToRead)'
    BY <1>3, <1>4, <1>9, <2>1, <2>4, Zenon DEF AtNext
  <2>6. LastAnswer'
    BY <1>3, <1>5, <1>7, <1>9, <2>1, <2>2, Zenon DEF LastAnswer
  <2> QED
    BY <2>2, <2>3, <2>5, <2>6, Zenon DEF WaitingInv
<1> QED
  BY <1>8, <1>9


\* Popping twice takes away more than was sent.
LEMMA WaitingHandleWrite ==
  ASSUME BuffersOK, RoundInv, WaitingInv, ~aborted, HandleWrite, script' = script,
         ToRead' = ToRead, DataOf' = DataOf
  PROVE  WaitingInv'
<1>1. /\ UNCHANGED <<handled, arrived, inBuffer, open, phase>> /\ active = {"write"} /\ phase = "events"
  BY DEF HandleWrite
<1>2. CASE UNCHANGED <<received, outBuffer, writing, wc, spoiled, aborted>>
  BY <1>1, <1>2, WaitingStays
<1>3. CASE ~(UNCHANGED <<received, outBuffer, writing, wc, spoiled, aborted>>)
  <2>1. PICK n \in 1 .. Len(outBuffer) :
           /\ Len(received') = Len(received) + n
           /\ \/ aborted' = TRUE /\ UNCHANGED <<outBuffer, writing, wc>>
              \/ /\ outBuffer' \in Seq(AnswerPieces) /\ Len(outBuffer') = Len(outBuffer) - 2 * n
                 /\ wc' = wc + Completed(outBuffer')
                 /\ UNCHANGED aborted
    BY <1>3, HandleWriteParts, Zenon
  <2>2. Cuts /\ NotTooMuch /\ InTime(arrived) /\ InTime(inBuffer)
    BY Zenon DEF WaitingInv
  <2>3. Cuts' /\ InTime(arrived)' /\ InTime(inBuffer)'
    BY <1>1, <2>2, Zenon DEF Cuts, InTime
  <2>4. CASE aborted' = TRUE
    BY <2>3, <2>4, Zenon DEF WaitingInv
  <2>5. CASE aborted' # TRUE
    <3>1. /\ outBuffer' \in Seq(AnswerPieces) /\ Len(outBuffer') = Len(outBuffer) - 2 * n
          /\ wc' = wc + Completed(outBuffer')
      BY <2>1, <2>5
    <3>2. /\ Len(received) \in Nat /\ Len(outBuffer) \in Nat /\ Len(handled) \in Nat
          /\ Len(outBuffer') \in Nat /\ n \in 1 .. Len(outBuffer)
      BY <2>1, <3>1, LenProperties DEF BuffersOK
    <3>3. Len(received') + Len(outBuffer') < Len(received) + Len(outBuffer) /\ Len(received') \in Nat
      BY <2>1, <3>1, <3>2
    <3>4. NotTooMuch'
      BY <1>1, <2>2, <3>2, <3>3 DEF NotTooMuch, AnswerSize
    <3>5. ASSUME open' PROVE AtNext(DataOf.parser, ToRead)' /\ LastAnswer'
      <4>1. AtNext(DataOf.parser, ToRead) /\ LastAnswer
        BY <1>1, <3>5, Zenon DEF WaitingInv
      <4>2. AtNext(DataOf.parser, ToRead)'
        BY <1>1, <4>1, Zenon DEF AtNext
      <4>3. NoneCloses' <=> NoneCloses
        BY <1>1, Zenon DEF NoneCloses
      <4>4. Closing => Closing'
        <5>1. outBuffer # <<>>
          BY <3>2, EmptySeq
        <5>2. wc = 0
          BY <5>1 DEF RoundInv, CompleteIsLast
        <5>3. Len(received') < AnswerSize * Len(handled)
          BY <2>2, <3>2, <3>3 DEF NotTooMuch, AnswerSize
        <5>4. AnswerSize' * Len(handled') = AnswerSize * Len(handled)
          BY <1>1 DEF AnswerSize
        <5> QED
          BY <1>1, <5>2, <5>3, <5>4, Zenon DEF Closing
      <4>5. LastAnswer'
        BY <1>1, <4>1, <4>3, <4>4, Zenon DEF LastAnswer
      <4> QED
        BY <4>2, <4>5
    <3> QED
      BY <2>3, <3>4, <3>5, Zenon DEF WaitingInv
  <2> QED
    BY <2>4, <2>5
<1> QED
  BY <1>2, <1>3

-----------------------------------------------------------------------------
(* All steps *)

ConnInv == TypeInv /\ RoundInv /\ ParserInv /\ (~pipelined => WaitingInv)

\* What is attached to a connection stays well-formed.
LEMMA DataStep ==
  ASSUME ClientOK, BuffersOK, DataOK, RoundInv, ParserInv, ~aborted => (~pipelined => WaitingInv),
         [Http1Next]_http1Vars
  PROVE  DataOK'
<1>0. script' = script /\ pipelined' = pipelined
  BY SameScript
<1>1. DataOf \in HttpConnData /\ ParserOK(DataOf.parser)
  BY ScriptIsSeq, DataOfOK
<1>2. SUFFICES connData' = NoData \/ (connData' \in HttpConnData /\ ParserOK(connData'.parser))
  BY <1>0, DataStays
<1>3. CASE connData' \in {connData, NoData, DataOf}
  BY <1>1, <1>3, Zenon DEF DataOK
<1>4. CASE ParseNext /\ connData' # connData
  <2>0. Feed(connData.parser, Head(inBuffer)).state # "Thrown"
    BY <1>4, ParseThrown
  <2>1. CASE open'
    BY <1>0, <1>4, <2>0, <2>1, ParserParseNext, Zenon
  <2>2. CASE ~open'
    <3>1. ~UNCHANGED <<open, active, phase>>
      <4>1. open
        BY <1>4, Zenon DEF ParseNext, ParserInv
      <4> QED
        BY <2>2, <4>1, Zenon
    <3>2. connData' = NoData
      BY <1>4, <3>1, Zenon DEF ParseNext, HandleClose
    <3> QED
      BY <3>2
  <2> QED
    BY <2>1, <2>2
<1>5. CASE ParseEnd /\ ~aborted
  <2>1. ~pipelined /\ connData.parser.state = "Done" => inBuffer = <<>>
    <3>1. phase = "parse"
      BY <1>5 DEF ParseEnd
    <3> QED
      BY <1>5, <3>1, NothingAfterDone, Zenon
  <2> QED
    BY <1>0, <1>5, <2>1, ParserParseEnd, Zenon
<1>6. CASE ClientSend \/ ClientLeave \/ TimePasses \/ RunIdle \/ Listen \/ HandleRead \/ HandleHup
  <2>1. CASE ClientSend \/ ClientLeave \/ TimePasses \/ Listen
    BY <1>3, <2>1 DEF ClientSend, ClientLeave, TimePasses, Listen
  <2>2. CASE RunIdle \/ HandleRead \/ HandleHup
    BY <1>3, <2>2, Zenon DEF RunIdle, HandleRead, HandleHup, HandleClose
  <2> QED
    BY <1>6, <2>1, <2>2
<1>7. CASE HandleWrite \/ Tick \/ IdleTick \/ ReadOtherHeader \/ RunWriteComplete \/ EndRound \/ UNCHANGED http1Vars
  <2>1. CASE \/ HandleWrite \/ Tick \/ IdleTick \/ ReadOtherHeader \/ EndRound
             \/ UNCHANGED http1Vars
    BY <1>3, <2>1 DEF HandleWrite, Tick, IdleTick, ReadOtherHeader, EndRound, http1Vars
  <2>2. CASE RunWriteComplete
    BY <1>3, <2>2, Zenon DEF RunWriteComplete, HandleClose
  <2> QED
    BY <1>7, <2>1, <2>2
<1>8. CASE connData' = connData
  BY <1>3, <1>8
<1> QED
  BY <1>4, <1>5, <1>6, <1>7, <1>8, Zenon DEF Http1Next, SubLoop

\* What the steps other than those of the client's request bytes do to a connection.
LEMMA QuietStep ==
  ASSUME RoundInv,
         \/ ClientLeave \/ TimePasses \/ RunIdle \/ Listen \/ HandleHup \/ Tick \/ IdleTick \/ ReadOtherHeader \/ RunWriteComplete
         \/ EndRound \/ UNCHANGED http1Vars
  PROVE  /\ UNCHANGED <<unsent, arrived, inBuffer, received, outBuffer, handled, aborted>>
         /\ ~open' \/ (open' = open /\ DataOf' = DataOf)
         /\ phase' = "parse" => phase = "parse" /\ open' = open /\ connData' = connData
         /\ open' => /\ phase' = "parse" <=> phase = "parse"
                     /\ wc' = wc \/ DataOf.shouldKeepAlive
<1>1. CASE ClientLeave \/ TimePasses \/ UNCHANGED http1Vars
  <2>1. UNCHANGED <<unsent, arrived, inBuffer, received, outBuffer, handled, aborted, open, connData, phase, wc>>
    BY <1>1 DEF ClientLeave, TimePasses, http1Vars, clientVars, tcpVars, loopVars
  <2> QED
    BY <2>1, DataFound, Zenon
<1>2. CASE Listen \/ Tick \/ IdleTick \/ ReadOtherHeader \/ EndRound
  <2>1. /\ UNCHANGED <<unsent, arrived, inBuffer, received, outBuffer, handled, aborted, open, connData, wc>>
        /\ phase # "parse" /\ phase' # "parse"
    BY <1>2 DEF Listen, Tick, IdleTick, ReadOtherHeader, EndRound, clientVars, tcpVars
  <2> QED
    BY <2>1, DataFound, Zenon
<1>3. CASE HandleHup
  <2>1. /\ UNCHANGED <<unsent, arrived, inBuffer, received, outBuffer, handled, aborted>>
        /\ phase # "parse" /\ phase' # "parse"
    BY <1>3 DEF HandleHup, clientVars
  <2>2. ~open'
    BY <1>3, Zenon DEF HandleHup, HandleClose
  <2> QED
    BY <2>1, <2>2, Zenon
<1>4. CASE RunIdle
  <2>1. /\ UNCHANGED <<unsent, arrived, inBuffer, received, outBuffer, handled, aborted, wc>>
        /\ phase # "parse" /\ phase' # "parse"
    BY <1>4 DEF RunIdle, clientVars
  <2>2. ~open' \/ (open' = open /\ connData' = DataOf)
    BY <1>4, Zenon DEF RunIdle, HandleClose
  <2> QED
    BY <2>1, <2>2, DataFound, Zenon
<1>5. CASE RunWriteComplete
  <2>1. /\ UNCHANGED <<unsent, arrived, inBuffer, received, outBuffer, handled, aborted>>
        /\ phase # "parse" /\ phase' # "parse"
    BY <1>5 DEF RunWriteComplete, clientVars
  <2>2. ~open' \/ (open' = open /\ connData' = DataOf /\ DataOf.shouldKeepAlive)
    BY <1>5, Zenon DEF RunWriteComplete, HandleClose
  <2> QED
    BY <2>1, <2>2, DataFound, Zenon
<1> QED
  BY <1>1, <1>2, <1>3, <1>4, <1>5, Zenon


\* Every step keeps the parser in step, and a waiting client waiting.
LEMMA ParserStep ==
  ASSUME ConnInv, ~aborted \/ UNCHANGED http1Vars, [Http1Next]_http1Vars
  PROVE  ParserInv' /\ (~pipelined => WaitingInv')
<1>1. /\ FlagsOK /\ ClientOK /\ BuffersOK /\ DataOK /\ RoundInv /\ ParserInv /\ (~pipelined => WaitingInv)
  BY Zenon DEF ConnInv, TypeInv
<1>2. script' = script /\ pipelined' = pipelined
  BY SameScript
<1>3. CASE ClientSend /\ ~aborted
  <2>1. ParserInv' /\ ToRead' = ToRead
    BY <1>1, <1>2, <1>3, ParserClientSend, Zenon
  <2> QED
    BY <1>1, <1>2, <1>3, <2>1, WaitingClientSend, Zenon
<1>4. CASE HandleRead /\ ~aborted
  <2>1. /\ ParserInv'
        /\ open' => ToRead' = ToRead /\ DataOf' = DataOf /\ connData' = DataOf /\ phase' = "parse"
                    /\ arrived # <<>>
    BY <1>1, <1>2, <1>4, ParserHandleRead, Zenon
  <2> QED
    BY <1>1, <1>2, <1>4, <2>1, WaitingHandleRead, Zenon
<1>5. CASE ParseNext /\ ~aborted
  <2>1. CASE Feed(connData.parser, Head(inBuffer)).state # "Thrown"
    BY <1>1, <1>2, <1>5, <2>1, ParserParseNext, WaitingParseNext, Zenon
  <2>2. CASE Feed(connData.parser, Head(inBuffer)).state = "Thrown"
    <3>1. /\ aborted' = TRUE
          /\ UNCHANGED <<unsent, arrived, inBuffer, open, connData, phase, handled>>
      BY <1>5, <2>2, ParseThrown, Zenon
    <3>2. ParserInv'
      BY <1>1, <1>2, <3>1, DataFound, ParserStays, Zenon
    <3>3. WaitingInv => WaitingInv'
      BY <1>2, <3>1, Zenon DEF WaitingInv, Cuts
    <3> QED
      BY <1>1, <3>2, <3>3, Zenon
  <2> QED
    BY <2>1, <2>2
<1>6. CASE ParseEnd /\ ~aborted
  <2>1. ~pipelined /\ connData.parser.state = "Done" => inBuffer = <<>>
    <3>1. phase = "parse"
      BY <1>6 DEF ParseEnd
    <3> QED
      BY <1>1, <1>6, <3>1, NothingAfterDone, Zenon
  <2>2. ParserInv'
    BY <1>1, <1>2, <1>6, <2>1, ParserParseEnd, Zenon
  <2> QED
    BY <1>1, <1>2, <1>6, <2>2, WaitingParseEnd, Zenon
<1>7. CASE HandleWrite /\ ~aborted
  <2>1. UNCHANGED <<unsent, arrived, inBuffer, open, connData, phase>> /\ phase = "events"
    BY <1>7 DEF HandleWrite
  <2>2. InOrder' /\ ToRead' = ToRead /\ DataOf' = DataOf
    BY <1>1, <1>2, <2>1, OrderStays, DataFound, Zenon DEF ParserInv
  <2>3. ParserInv'
    BY <1>1, <1>2, <2>1, <2>2, ParserStays, Zenon
  <2> QED
    BY <1>1, <1>2, <1>7, <2>2, <2>3, WaitingHandleWrite, Zenon
<1>8. CASE \/ ClientLeave \/ TimePasses \/ RunIdle \/ Listen \/ HandleHup \/ Tick \/ IdleTick \/ ReadOtherHeader \/ RunWriteComplete
           \/ EndRound \/ UNCHANGED http1Vars
  <2>1. /\ UNCHANGED <<unsent, arrived, inBuffer, received, outBuffer, handled, aborted>>
        /\ ~open' \/ (open' = open /\ DataOf' = DataOf)
        /\ phase' = "parse" => phase = "parse" /\ open' = open /\ connData' = connData
        /\ open' => /\ phase' = "parse" <=> phase = "parse"
                    /\ wc' = wc \/ DataOf.shouldKeepAlive
    BY <1>1, <1>8, QuietStep, Zenon
  <2>2. ParserInv'
    BY <1>1, <1>2, <2>1, ParserStays, Zenon
  <2>3. ToRead' = ToRead
    BY <1>1, <1>2, <2>1, OrderStays, Zenon DEF ParserInv
  <2>4. WaitingInv => WaitingInv'
    BY <1>2, <2>1, <2>3, WaitingStays, Zenon
  <2> QED
    BY <1>1, <2>2, <2>4, Zenon
<1> QED
  BY <1>3, <1>4, <1>5, <1>6, <1>7, <1>8, Zenon DEF Http1Next, SubLoop

\* A new connection.
LEMMA ConnInvInit == Http1Init => ConnInv
<1> SUFFICES ASSUME Http1Init PROVE ConnInv
  OBVIOUS
<1>0. script \in Scripts /\ script \in Seq(Request) /\ Len(script) \in Nat
  BY ScriptsAssumption, LenProperties DEF Http1Init
<1>1. FlagsOK
  BY Zenon DEF Http1Init, FlagsOK
<1>2. ClientOK
  <2>1. FirstPiece(1) \in SentPieces \cup {FirstPiece(Len(script) + 1)}
    <3>1. CASE Len(script) = 0
      BY <3>1
    <3>2. CASE Len(script) # 0
      <4>1. 1 \in DOMAIN script
        BY <1>0, <3>2, LenProperties
      <4>2. script[1] \in Request
        BY <1>0, <4>1, ElementOfSeq, LenProperties
      <4>3. 1 \in DOMAIN Pieces(script[1])
        BY <4>2, PiecesOf
      <4> QED
        BY <4>1, <4>3 DEF SentPieces, FirstPiece
    <3> QED
      BY <3>1, <3>2
  <2> QED
    BY <1>0, <2>1 DEF Http1Init, ClientOK
<1>3. BuffersOK
  BY EmptySeq DEF Http1Init, BuffersOK
<1>4. DataOK /\ DataOf = NewData
  BY DEF Http1Init, DataOK, DataOf
<1>5. RoundInv
  BY Http1InitInv
<1>6. /\ NewData.parser.state = "RequestLine" /\ NewData.parser.lineBuf = <<>>
      /\ NewData.parser.close = FALSE /\ NewData.parser.contentLength = 0
      /\ NewData.parser.bodyBytesRead = 0 /\ NewData.shouldKeepAlive = TRUE
  BY DEF NewData, NewParser
<1>7. ToRead = FirstPiece(1) /\ ToRead.req = 1 /\ ToRead.at = 1
  BY DEF Http1Init, ToRead, Coming, HeadOr, FirstPiece
<1>8. ParserInv
  <2>1. InOrder
    BY DEF Http1Init, InOrder, Follow
  <2>2. LineInStep(NewData.parser, ToRead)
    BY <1>6, <1>7 DEF LineInStep
  <2>3. CloseInStep(NewData.parser, ToRead)
    BY <1>6 DEF CloseInStep
  <2>4. InStep(DataOf.parser, ToRead)
    BY <1>4, <1>6, <2>2, <2>3 DEF InStep
  <2>5. phase # "parse"
    BY DEF Http1Init
  <2> QED
    BY <2>1, <2>4, <2>5, Zenon DEF ParserInv
<1>9. WaitingInv
  <2>1. received = <<>> /\ outBuffer = <<>> /\ handled = <<>> /\ arrived = <<>> /\ inBuffer = <<>>
        /\ phase = "poll"
    BY DEF Http1Init
  <2>2. NotTooMuch
    BY <2>1 DEF NotTooMuch, AnswerSize
  <2>3. InTime(arrived) /\ InTime(inBuffer) /\ NoneCloses
    BY <2>1 DEF InTime, NoneCloses
  <2>4. Cuts
    BY <2>1 DEF Cuts
  <2>5. AtNext(DataOf.parser, ToRead)
    BY <1>4, <1>6, <1>7, <2>1 DEF AtNext
  <2>6. LastAnswer
    BY <1>4, <1>6, <2>1, <2>3 DEF LastAnswer
  <2> QED
    BY <2>2, <2>3, <2>4, <2>5, <2>6, Zenon DEF WaitingInv
<1> QED
  BY <1>1, <1>2, <1>3, <1>4, <1>5, <1>8, <1>9, Zenon DEF ConnInv, TypeInv

\* The inductive invariant of a connection.
LEMMA ConnAlways == Http1Spec => []ConnInv
<1>1. ConnInv /\ [Http1Next]_http1Vars => ConnInv'
  <2> SUFFICES ASSUME ConnInv, [Http1Next]_http1Vars PROVE ConnInv'
    OBVIOUS
  <2>1. FlagsOK /\ ClientOK /\ BuffersOK /\ DataOK /\ RoundInv /\ ParserInv /\ (~pipelined => WaitingInv)
    BY Zenon DEF ConnInv, TypeInv
  <2>2. ~aborted \/ UNCHANGED http1Vars
    BY Zenon DEF Http1Next, SubLoop
  <2>3. FlagsOK' /\ ClientOK' /\ BuffersOK' /\ DataOK' /\ RoundInv'
    BY <2>1, FlagsStep, ClientStep, BuffersStep, DataStep, RoundStep, Zenon
  <2>4. ParserInv' /\ (~pipelined => WaitingInv') /\ pipelined' = pipelined
    BY <2>2, ParserStep, SameScript, Zenon
  <2> QED
    BY <2>3, <2>4, Zenon DEF ConnInv, TypeInv
<1> QED
  BY <1>1, ConnInvInit, PTL DEF Http1Spec

\* Http1TypeOK: what a connection holds has its types.
THEOREM Http1Types == Http1Spec => []Http1TypeOK
<1>1. ConnInv => Http1TypeOK
  BY TypesOfInv, Zenon DEF ConnInv
<1> QED
  BY <1>1, ConnAlways, PTL

\* CutsDoNotMatter: however the client's bytes are cut into reads, http1Process
\* handles each request of a client that waits for its answers once and in order,
\* and none after the one that asked to close.
THEOREM Http1Cuts == Http1Spec => []CutsDoNotMatter
<1>1. ConnInv => CutsDoNotMatter
  BY Zenon DEF ConnInv, WaitingInv, Cuts, CutsDoNotMatter
<1> QED
  BY <1>1, ConnAlways, PTL

-----------------------------------------------------------------------------
(* Answers arrive *)

\* Where the pieces of an answer are.
LEMMA PlacesOfAnswers ==
  ASSUME NEW h \in Nat
  PROVE  /\ \A i \in 1 .. 2 * h : 1 + (i - 1) \div 2 \in 1 .. h /\ 1 + ((i - 1) % 2) \in 1 .. 2
         /\ \A i \in 1 .. 2 : /\ 1 + (2 * h + i - 1) \div 2 = h + 1
                              /\ 1 + ((2 * h + i - 1) % 2) = i
<1>1. \A i \in 1 .. 2 * h : 1 + (i - 1) \div 2 \in 1 .. h /\ 1 + ((i - 1) % 2) \in 1 .. 2
  OBVIOUS
<1>2. \A i \in 1 .. 2 : 1 + (2 * h + i - 1) \div 2 = h + 1 /\ 1 + ((2 * h + i - 1) % 2) = i
  OBVIOUS
<1> QED
  BY <1>1, <1>2

\* Answers as a sequence of pairs.
LEMMA AnswersAreSeq ==
  ASSUME NEW numbers \in Seq(DOMAIN script)
  PROVE  /\ Answers(numbers) \in Seq(AnswerPieces)
         /\ Len(Answers(numbers)) = 2 * Len(numbers)
         /\ \A i \in 1 .. 2 * Len(numbers) :
              Answers(numbers)[i] = <<numbers[1 + (i - 1) \div 2], 1 + ((i - 1) % 2)>>
<1> DEFINE h == Len(numbers)
           a == [i \in 1 .. 2 * h |-> <<numbers[1 + (i - 1) \div 2], 1 + ((i - 1) % 2)>>]
<1>1. h \in Nat /\ \A j \in 1 .. h : numbers[j] \in DOMAIN script
  BY LenProperties, ElementOfSeq
<1>2. Answers(numbers) = a
  BY DEF Answers, AnswerSize
<1>3. \A i \in 1 .. 2 * h : a[i] = <<numbers[1 + (i - 1) \div 2], 1 + ((i - 1) % 2)>>
  OBVIOUS
<1>4. \A i \in 1 .. 2 * h : 1 + (i - 1) \div 2 \in 1 .. h /\ 1 + ((i - 1) % 2) \in 1 .. 2
  BY <1>1, PlacesOfAnswers, Zenon
<1>5. \A i \in 1 .. 2 * h : a[i] \in AnswerPieces
  <2> SUFFICES ASSUME NEW i \in 1 .. 2 * h PROVE a[i] \in AnswerPieces
    OBVIOUS
  <2>1. numbers[1 + (i - 1) \div 2] \in DOMAIN script
    BY <1>1, <1>4, Zenon
  <2>2. 1 + ((i - 1) % 2) \in 1 .. 2
    BY <1>4, Zenon
  <2> QED
    BY <2>1, <2>2, Zenon DEF AnswerPieces, AnswerSize
<1>6. a \in [1 .. 2 * h -> AnswerPieces]
  BY <1>5, Zenon
<1>7. a \in Seq(AnswerPieces) /\ Len(a) = 2 * h
  <2>1. 2 * h \in Nat
    BY <1>1
  <2>2. DOMAIN a = 1 .. 2 * h
    OBVIOUS
  <2> HIDE DEF a
  <2>3. a \in Seq(AnswerPieces)
    BY <1>6, <2>1, SeqDef
  <2>4. Len(a) \in Nat /\ DOMAIN a = 1 .. Len(a)
    BY <2>3, LenProperties
  <2> HIDE DEF h
  <2>5. 1 .. Len(a) = 1 .. 2 * h
    BY <2>2, <2>4
  <2>6. Len(a) = 2 * h
    BY <2>1, <2>4, <2>5
  <2> QED
    BY <2>3, <2>6
<1> QED
  BY <1>2, <1>3, <1>7, Zenon

\* The answers to one request more.
LEMMA AnswersNext ==
  ASSUME NEW s \in Seq(DOMAIN script), NEW n \in DOMAIN script
  PROVE  Answers(Append(s, n)) = Answers(s) \o Answer(n)
<1> DEFINE h == Len(s)
           t == Append(s, n)
           c == Answers(t)
           d == Answers(s) \o Answer(n)
<1>1. /\ t \in Seq(DOMAIN script) /\ h \in Nat /\ Len(t) = h + 1 /\ t[h + 1] = n
      /\ \A j \in 1 .. h : t[j] = s[j]
  BY LenProperties, AppendProperties
<1>2. /\ c \in Seq(AnswerPieces) /\ Len(c) = 2 * (h + 1)
      /\ \A i \in 1 .. 2 * (h + 1) : c[i] = <<t[1 + (i - 1) \div 2], 1 + ((i - 1) % 2)>>
  <2> HIDE DEF t
  <2> QED
    BY <1>1, AnswersAreSeq
<1>3. /\ Answers(s) \in Seq(AnswerPieces) /\ Len(Answers(s)) = 2 * h
      /\ \A i \in 1 .. 2 * h : Answers(s)[i] = <<s[1 + (i - 1) \div 2], 1 + ((i - 1) % 2)>>
  BY AnswersAreSeq
<1>4. /\ Answer(n) \in Seq(AnswerPieces) /\ Len(Answer(n)) = 2
      /\ \A i \in 1 .. 2 : Answer(n)[i] = <<n, i>>
  BY AnswerIsSeq DEF Answer, AnswerSize
<1>5. /\ d \in Seq(AnswerPieces) /\ Len(d) = 2 * h + 2
      /\ \A i \in 1 .. 2 * h + 2 :
           d[i] = IF i <= 2 * h THEN Answers(s)[i] ELSE Answer(n)[i - 2 * h]
  <2> DEFINE x == Answers(s)
             y == Answer(n)
  <2>1. x \in Seq(AnswerPieces) /\ y \in Seq(AnswerPieces) /\ Len(x) = 2 * h /\ Len(y) = 2
        /\ h \in Nat
    BY <1>1, <1>3, <1>4, Zenon
  <2> HIDE DEF x, y, h
  <2>2. /\ x \o y \in Seq(AnswerPieces) /\ Len(x \o y) = 2 * h + 2
        /\ \A i \in 1 .. 2 * h + 2 : (x \o y)[i] = IF i <= 2 * h THEN x[i] ELSE y[i - 2 * h]
    <3>1. /\ x \o y \in Seq(AnswerPieces) /\ Len(x \o y) = Len(x) + Len(y)
          /\ \A i \in 1 .. Len(x) + Len(y) :
               (x \o y)[i] = IF i <= Len(x) THEN x[i] ELSE y[i - Len(x)]
      BY <2>1, ConcatProperties, Zenon
    <3> QED
      BY <2>1, <3>1, Zenon
  <2> QED
    BY <2>2 DEF x, y
<1> HIDE DEF c, d, t, h
<1>6. \A i \in 1 .. 2 * (h + 1) : c[i] = d[i]
  <2> SUFFICES ASSUME NEW i \in 1 .. 2 * (h + 1) PROVE c[i] = d[i]
    OBVIOUS
  <2>1. CASE i <= 2 * h
    <3>1. i \in 1 .. 2 * h /\ i \in 1 .. 2 * h + 2
      BY <1>1, <2>1
    <3>2. 1 + (i - 1) \div 2 \in 1 .. h
      BY <1>1, <3>1, PlacesOfAnswers, Zenon
    <3>3. c[i] = <<s[1 + (i - 1) \div 2], 1 + ((i - 1) % 2)>>
      BY <1>1, <1>2, <3>2, Zenon
    <3>4. d[i] = Answers(s)[i]
      BY <1>5, <2>1, <3>1, Zenon
    <3> QED
      BY <1>3, <3>1, <3>3, <3>4, Zenon
  <2>2. CASE ~(i <= 2 * h)
    <3>1. PICK k \in 1 .. 2 : i = 2 * h + k
      <4>1. i - 2 * h \in 1 .. 2 /\ i = 2 * h + (i - 2 * h)
        BY <1>1, <2>2
      <4> QED
        BY <4>1, Zenon
    <3>2. 1 + (i - 1) \div 2 = h + 1 /\ 1 + ((i - 1) % 2) = k
      <4>1. 1 + (2 * h + k - 1) \div 2 = h + 1 /\ 1 + ((2 * h + k - 1) % 2) = k
        BY <1>1, PlacesOfAnswers, Zenon
      <4>2. i - 1 = 2 * h + k - 1
        BY <1>1, <3>1
      <4> QED
        BY <4>1, <4>2, Zenon
    <3>3. c[i] = <<n, k>>
      BY <1>1, <1>2, <3>2, Zenon
    <3>4. i \in 1 .. 2 * h + 2 /\ i - 2 * h = k
      BY <1>1, <3>1
    <3>5. d[i] = Answer(n)[k]
      BY <1>5, <2>2, <3>4, Zenon
    <3> QED
      BY <1>4, <3>3, <3>5, Zenon
  <2> QED
    BY <2>1, <2>2
<1>7. c = d
  BY <1>1, <1>2, <1>5, <1>6, SeqEqual
<1> QED
  BY <1>7 DEF c, d, t

\* Only a reset ends the socket, and only a second pop spoils the buffer.
LEMMA SpoilsForGood ==
  ASSUME FlagsOK, [Http1Next]_http1Vars, ~spoiled', peer' # "rst"
  PROVE  ~spoiled /\ peer # "rst"
<1>0. spoiled \in BOOLEAN
  BY Zenon DEF FlagsOK
<1>1. peer # "rst"
  <2>1. CASE ClientLeave
    BY <2>1 DEF ClientLeave
  <2>2. CASE ~ClientLeave
    <3>1. peer' = peer
      BY <2>2 DEF Http1Next, SubLoop, ClientSend, TimePasses, RunIdle, Listen, HandleRead, ParseNext,
         ParseEnd, HandleHup, HandleWrite, Tick, IdleTick, ReadOtherHeader, RunWriteComplete, EndRound, clientVars, http1Vars
    <3> QED
      BY <3>1
  <2> QED
    BY <2>1, <2>2
<1>2. spoiled' = spoiled \/ spoiled' = TRUE
  BY Zenon DEF Http1Next, SubLoop, ClientSend, ClientLeave, TimePasses, RunIdle, Listen, HandleRead,
     ParseNext, ParseEnd, HandleHup, HandleWrite, Tick, IdleTick, ReadOtherHeader, RunWriteComplete, EndRound, http1Vars
<1> QED
  BY <1>0, <1>1, <1>2, Zenon

\* Only ParseEnd and HandleWrite touch what the client has and what waits for it.
LEMMA AnswersStay ==
  ASSUME \/ ClientSend \/ ClientLeave \/ TimePasses \/ RunIdle \/ Listen \/ HandleRead \/ ParseNext
         \/ HandleHup \/ Tick \/ IdleTick \/ ReadOtherHeader \/ RunWriteComplete \/ EndRound \/ UNCHANGED http1Vars
  PROVE  UNCHANGED <<received, outBuffer, handled>>
<1>1. CASE ClientSend \/ ClientLeave \/ TimePasses \/ RunIdle \/ Listen \/ HandleRead
  BY <1>1 DEF ClientSend, ClientLeave, TimePasses, RunIdle, Listen, HandleRead, clientVars, tcpVars
<1>2. CASE ParseNext \/ HandleHup \/ Tick \/ IdleTick \/ ReadOtherHeader \/ RunWriteComplete \/ EndRound \/ UNCHANGED http1Vars
  BY <1>2 DEF ParseNext, HandleHup, Tick, IdleTick, ReadOtherHeader, RunWriteComplete, EndRound, clientVars, tcpVars, http1Vars
<1> QED
  BY <1>1, <1>2

\* A step sends or keeps every piece of an answer, in order.
LEMMA ArriveStep ==
  ASSUME ConnInv, AnswersArrive, [Http1Next]_http1Vars
  PROVE  AnswersArrive'
<1>0. FlagsOK /\ ClientOK /\ BuffersOK /\ DataOK /\ RoundInv /\ ParserInv
  BY Zenon DEF ConnInv, TypeInv
<1>1. SUFFICES ASSUME ~spoiled', peer' # "rst"
               PROVE  received' \o outBuffer' = Answers(handled)'
  BY Zenon DEF AnswersArrive
<1>2. ~spoiled /\ peer # "rst" /\ received \o outBuffer = Answers(handled)
  BY <1>0, <1>1, SpoilsForGood, Zenon DEF AnswersArrive
<1>3. CASE UNCHANGED <<received, outBuffer, handled>>
  BY <1>2, <1>3, Zenon DEF Answers
<1>4. CASE ParseEnd
  <2>1. CASE connData.parser.state = "Done"
    <3>1. /\ phase = "parse" /\ handled' = Append(handled, connData.parser.req)
          /\ SendInLoop(Answer(connData.parser.req))
      BY <1>4, <2>1 DEF ParseEnd
    <3>2. connData.parser.req \in DOMAIN script
      <4>1. connData \in HttpConnData /\ InStep(DataOf.parser, ToRead)
        BY <1>0, <3>1, Zenon DEF ParserInv
      <4>2. DataOf = connData
        BY <4>1, NoDataAssumption DEF DataOf
      <4> QED
        BY <2>1, <4>1, <4>2 DEF InStep
    <3>3. wc = 0
      BY <1>0, <3>1 DEF RoundInv, CompleteIsLast
    <3>4. /\ Answer(connData.parser.req) \in Seq(AnswerPieces)
          /\ Len(Answer(connData.parser.req)) > 0
      <4>1. /\ Answer(connData.parser.req) \in Seq(AnswerPieces)
            /\ Len(Answer(connData.parser.req)) = 2
        BY <3>2, AnswerIsSeq, Zenon
      <4> QED
        BY <4>1
    <3>5. /\ received \in Seq(AnswerPieces) /\ outBuffer \in Seq(AnswerPieces)
          /\ handled \in Seq(DOMAIN script)
      BY <1>0, Zenon DEF BuffersOK
    <3>6. received' \o outBuffer' = (received \o outBuffer) \o Answer(connData.parser.req)
      BY <1>2, <3>1, <3>3, <3>4, <3>5, SendParts, Zenon
    <3>7. Answers(Append(handled, connData.parser.req))
            = Answers(handled) \o Answer(connData.parser.req)
      BY <3>2, <3>5, AnswersNext, Zenon
    <3>8. Answers(handled)' = Answers(Append(handled, connData.parser.req))
      BY <3>1, Zenon DEF Answers
    <3> QED
      BY <1>2, <3>6, <3>7, <3>8, Zenon
  <2>2. CASE connData.parser.state # "Done"
    <3>1. UNCHANGED <<received, outBuffer, handled>>
      BY <1>4, <2>2 DEF ParseEnd
    <3> QED
      BY <1>3, <3>1
  <2> QED
    BY <2>1, <2>2
<1>5. CASE HandleWrite
  <2>1. UNCHANGED handled /\ (spoiled' = TRUE \/ UNCHANGED <<received, outBuffer>>)
    BY <1>5, Zenon DEF HandleWrite
  <2>2. UNCHANGED <<received, outBuffer, handled>>
    BY <1>1, <2>1, Zenon
  <2> QED
    BY <1>3, <2>2
<1> QED
  BY <1>3, <1>4, <1>5, AnswersStay, Zenon DEF Http1Next, SubLoop

\* AnswersArrive: what the client has and what waits for it are the answers, each
\* once, in order and nothing else, until bytes are popped twice or the socket is
\* reset.
THEOREM Http1AnswersArrive == Http1Spec => []AnswersArrive
<1>1. Http1Init => AnswersArrive
  <2> SUFFICES ASSUME Http1Init PROVE AnswersArrive
    OBVIOUS
  <2>1. received = <<>> /\ outBuffer = <<>> /\ handled = <<>>
    BY DEF Http1Init
  <2>2. <<>> \in Seq(AnswerPieces) /\ <<>> \in Seq(DOMAIN script) /\ Len(<<>>) = 0
    BY EmptySeq
  <2>3. Answers(<<>>) \in Seq(AnswerPieces) /\ Len(Answers(<<>>)) = 0
    <3>1. Answers(<<>>) \in Seq(AnswerPieces) /\ Len(Answers(<<>>)) = 2 * Len(<<>>)
      BY <2>2, AnswersAreSeq, Zenon
    <3> QED
      BY <2>2, <3>1
  <2>4. Answers(<<>>) = <<>>
    BY <2>3, EmptySeq
  <2>5. <<>> \o <<>> = <<>>
    BY <2>2, ConcatEmptySeq
  <2> QED
    BY <2>1, <2>4, <2>5, Zenon DEF AnswersArrive
<1>2. ConnInv /\ AnswersArrive /\ [Http1Next]_http1Vars => AnswersArrive'
  BY ArriveStep
<1> QED
  BY <1>1, <1>2, ConnAlways, PTL DEF Http1Spec

-----------------------------------------------------------------------------
(* The last answer is out when its task closes *)

\* A connection is not to be used again because of the request handled last.
CloseAsked ==
  (open /\ ~DataOf.shouldKeepAlive) => handled # <<>> /\ script[handled[Len(handled)]].close

\* preProcessTcpConn looks at the request whose answer it is about to send.
LEMMA CloseAskedParseEnd ==
  ASSUME ConnInv, ~aborted, ParseEnd, connData.parser.state = "Done",
         UNCHANGED <<script, pipelined>>
  PROVE  CloseAsked'
<1> DEFINE p == connData.parser
<1>1. /\ ClientOK /\ BuffersOK /\ DataOK /\ ParserInv /\ (~pipelined => WaitingInv)
      /\ phase = "parse"
  BY Zenon DEF ConnInv, TypeInv, ParseEnd
<1>2. /\ connData \in HttpConnData /\ DataOf = connData /\ open /\ InStep(p, ToRead)
  <2>1. connData \in HttpConnData /\ open /\ InStep(DataOf.parser, ToRead)
    BY <1>1, Zenon DEF ParserInv
  <2>2. DataOf = connData
    BY <2>1, NoDataAssumption DEF DataOf
  <2> QED
    BY <2>1, <2>2, Zenon
<1>3. ParserOK(p) /\ p.req \in DOMAIN script /\ (p.close <=> script[p.req].close)
  <2>1. ParserOK(p)
    BY <1>1, <1>2, NoDataAssumption DEF DataOK
  <2>2. p.req \in DOMAIN script /\ CloseInStep(p, ToRead)
    BY <1>2 DEF InStep
  <2> QED
    BY <2>1, <2>2, Zenon DEF CloseInStep
<1>4. handled' = Append(handled, p.req) /\ connData' = AfterAnswer(p)
  BY Zenon DEF ParseEnd
<1>5. DataOf'.shouldKeepAlive = ~p.close
  <2>1. AfterAnswer(p) \in HttpConnData /\ AfterAnswer(p).shouldKeepAlive = ~p.close
    BY <1>1, <1>3, ScriptIsSeq, AfterAnswerOK
  <2>2. DataOf' = connData'
    BY <1>4, <2>1, DataKept
  <2> QED
    BY <1>4, <2>1, <2>2, Zenon
<1>6. handled' # <<>> /\ handled'[Len(handled')] = p.req
  <2>1. handled \in Seq(DOMAIN script)
    BY <1>1 DEF BuffersOK
  <2>2. /\ Append(handled, p.req) \in Seq(DOMAIN script) /\ Append(handled, p.req) # <<>>
        /\ Len(Append(handled, p.req)) = Len(handled) + 1
        /\ Append(handled, p.req)[Len(handled) + 1] = p.req
    BY <1>3, <2>1, AppendProperties
  <2> QED
    BY <1>4, <2>2, Zenon
<1> QED
  BY <1>3, <1>5, <1>6, Zenon DEF CloseAsked

\* Every other step leaves both alone.
LEMMA CloseAskedStep ==
  ASSUME ConnInv, CloseAsked, [Http1Next]_http1Vars
  PROVE  CloseAsked'
<1>1. /\ ClientOK /\ BuffersOK /\ DataOK /\ RoundInv /\ ParserInv /\ (~pipelined => WaitingInv)
  BY Zenon DEF ConnInv, TypeInv
<1>2. script' = script /\ pipelined' = pipelined
  BY SameScript
<1>3. CASE /\ UNCHANGED handled
           /\ open' => open /\ DataOf'.shouldKeepAlive = DataOf.shouldKeepAlive
  BY <1>2, <1>3, Zenon DEF CloseAsked
<1>4. CASE ParseEnd /\ ~aborted
  <2>1. CASE connData.parser.state = "Done"
    BY <1>2, <1>4, <2>1, CloseAskedParseEnd
  <2>2. CASE connData.parser.state # "Done"
    <3>1. UNCHANGED <<handled, connData, open>>
      BY <1>4, <2>2 DEF ParseEnd
    <3> QED
      BY <1>3, <3>1, DataFound
  <2> QED
    BY <2>1, <2>2
<1>5. CASE HandleRead /\ ~aborted
  <2>1. UNCHANGED handled /\ open
    BY <1>1, <1>5 DEF HandleRead, RoundInv, ClosedIsQuiet
  <2>2. open' => DataOf' = DataOf
    BY <1>1, <1>2, <1>5, ParserHandleRead, Zenon
  <2> QED
    BY <1>3, <2>1, <2>2, Zenon
<1>6. CASE ParseNext /\ ~aborted
  <2>1. CASE Feed(connData.parser, Head(inBuffer)).state # "Thrown"
    <3>1. UNCHANGED handled
      BY <1>6 DEF ParseNext
    <3>2. open' => open /\ DataOf'.shouldKeepAlive = DataOf.shouldKeepAlive
      BY <1>1, <1>2, <1>6, <2>1, ParserParseNext, Zenon
    <3> QED
      BY <1>3, <3>1, <3>2, Zenon
  <2>2. CASE Feed(connData.parser, Head(inBuffer)).state = "Thrown"
    <3>1. UNCHANGED <<handled, open, connData>>
      BY <1>6, <2>2, ParseThrown
    <3> QED
      BY <1>3, <3>1, DataFound
  <2> QED
    BY <2>1, <2>2
<1>7. CASE ClientSend \/ HandleWrite
  <2>1. UNCHANGED <<handled, open, connData>>
    BY <1>7 DEF ClientSend, HandleWrite
  <2> QED
    BY <1>3, <2>1, DataFound
<1>8. CASE \/ ClientLeave \/ TimePasses \/ RunIdle \/ Listen \/ HandleHup \/ Tick \/ IdleTick
           \/ ReadOtherHeader \/ RunWriteComplete \/ EndRound \/ UNCHANGED http1Vars
  <2>1. UNCHANGED handled /\ (~open' \/ (open' = open /\ DataOf' = DataOf))
    BY <1>1, <1>8, QuietStep, Zenon
  <2> QED
    BY <1>3, <2>1, Zenon
<1> QED
  BY <1>4, <1>5, <1>6, <1>7, <1>8, Zenon DEF Http1Next, SubLoop

\* A new connection is to be used again.
LEMMA CloseAskedInit == Http1Init => CloseAsked
<1> SUFFICES ASSUME Http1Init PROVE CloseAsked
  OBVIOUS
<1>1. DataOf = NewData
  BY DEF Http1Init, DataOf
<1>2. NewData.shouldKeepAlive = TRUE
  BY DEF NewData
<1> QED
  BY <1>1, <1>2, Zenon DEF CloseAsked

\* Only a task takes one off the tasks, and it closes a connection that is not to be
\* used again.
LEMMA TaskCloses ==
  ASSUME RoundInv, [Http1Next]_http1Vars, wc' < wc, open, ~open'
  PROVE  wc = 1 /\ outBuffer = <<>> /\ ~DataOf.shouldKeepAlive
<1>1. wc \in {0, 1} /\ (wc = 1 => outBuffer = <<>>)
  BY DEF RoundInv, CompleteIsLast
<1>2. CASE RunWriteComplete
  <2>1. wc > 0 /\ ~DataOf.shouldKeepAlive
    BY <1>2 DEF RunWriteComplete
  <2> QED
    BY <1>1, <2>1
<1>3. CASE ~RunWriteComplete
  <2>1. CASE \/ ClientSend \/ ClientLeave \/ TimePasses \/ Listen \/ ParseEnd \/ HandleWrite \/ Tick
             \/ IdleTick \/ ReadOtherHeader \/ EndRound \/ UNCHANGED http1Vars
    <3>1. open' = open
      BY <2>1 DEF ClientSend, ClientLeave, TimePasses, Listen, ParseEnd, HandleWrite, Tick, IdleTick,
         ReadOtherHeader, EndRound, http1Vars, tcpVars
    <3> QED
      BY <3>1, Zenon
  <2>2. CASE RunIdle \/ HandleRead \/ ParseNext \/ HandleHup
    <3>1. wc' = wc
      BY <2>2 DEF RunIdle, HandleRead, ParseNext, HandleHup
    <3> QED
      BY <1>1, <3>1
  <2> QED
    BY <1>3, <2>1, <2>2 DEF Http1Next, SubLoop
<1> QED
  BY <1>2, <1>3

\* ClosedAfterAnswer: handleTcpWriteComplete closes a connection when the client has
\* every piece of every answer and the last request asked to close, unless bytes were
\* popped twice or the socket is reset.
THEOREM Http1ClosedAfterAnswer == Http1Spec => ClosedAfterAnswer
<1>1. ConnInv /\ AnswersArrive /\ CloseAsked /\ [Http1Next]_http1Vars
        => [(wc' < wc /\ open /\ ~open' /\ ~spoiled /\ peer # "rst")
              => /\ received = Answers(handled)
                 /\ handled # <<>> /\ script[handled[Len(handled)]].close]_http1Vars
  <2> SUFFICES ASSUME ConnInv, AnswersArrive, CloseAsked, [Http1Next]_http1Vars,
                      wc' < wc, open, ~open', ~spoiled, peer # "rst"
               PROVE  /\ received = Answers(handled)
                      /\ handled # <<>> /\ script[handled[Len(handled)]].close
    OBVIOUS
  <2>1. RoundInv /\ BuffersOK
    BY Zenon DEF ConnInv, TypeInv
  <2>2. outBuffer = <<>> /\ ~DataOf.shouldKeepAlive
    BY <2>1, TaskCloses, Zenon
  <2>3. received = Answers(handled)
    <3>1. received \o outBuffer = Answers(handled)
      BY Zenon DEF AnswersArrive
    <3>2. received \in Seq(AnswerPieces)
      BY <2>1, Zenon DEF BuffersOK
    <3>3. received \o <<>> = received
      BY <3>2, ConcatEmptySeq
    <3> QED
      BY <2>2, <3>1, <3>3, Zenon
  <2> QED
    BY <2>2, <2>3, Zenon DEF CloseAsked
<1> QED
  BY <1>1, ConnAlways, Http1AnswersArrive, CloseAskedInit, CloseAskedStep, PTL
  DEF Http1Spec, ClosedAfterAnswer

=============================================================================

------------------------------- MODULE FHttp1 -------------------------------
(***************************************************************************)
(* One HTTP/1 connection of FHttpServer: what the client's bytes, cut      *)
(* anywhere, do to the parser, the keep-alive flag, the output buffer and  *)
(* the connection, round by round of the sub-loop that owns it.            *)
(*                                                                         *)
(* A byte, or a run of bytes that only makes sense together, is a piece:   *)
(* the number of its request and its place there.  An answer is            *)
(* AnswerSize pieces.  Accepted sockets are non-blocking where accept()    *)
(* hands that on (Windows); where it does not, Send takes everything,      *)
(* which is one of the choices here.                                       *)
(***************************************************************************)
EXTENDS Integers, Sequences, Functions

CONSTANTS Scripts,    \* what a client may send: sequences of requests
          NoData      \* no HttpConnData is attached to the connection

AnswerSize == 2

\* length is what Content-Length says in a request with a body: its length, something
\* that is not a number, or a number nobody can reserve memory for.
Request == [valid : BOOLEAN, close : BOOLEAN, body : Seq({"byte", "zero"}),
            length : {"digits", "noNumber", "tooLarge"}]

\* A zero byte stays in the parser's way for good: the rest of such a script
\* would be parsed out of step, so it ends there.
ASSUME ScriptsAssumption ==
  \A s \in Scripts :
    s \in Seq(Request) /\ \A n \in DOMAIN s : "zero" \in Range(s[n].body) => n = Len(s)

FHttpParser ==
  [state : {"RequestLine", "Headers", "Body", "Done"}, lineBuf : {<<>>, <<"first">>},
   req : Nat, close : BOOLEAN, contentLength : Nat, bodyBytesRead : Nat]

HttpConnData == [parser : FHttpParser, shouldKeepAlive : BOOLEAN]

ASSUME NoDataAssumption == NoData \notin HttpConnData

VARIABLES
  script, pipelined,           \* the client: what it sends, and whether it waits for answers
  unsent, received, peer,      \* its next piece, what came back, its end of the socket
  arrived,                     \* pieces in the socket
  open, inBuffer, outBuffer, writing,  \* FTcpConnection
  connData,                    \* HttpConnData: the parser and shouldKeepAlive
  phase, active, wc,           \* the loop: phase of a round, events, tasks
  armed, due,                  \* the idle timer runs; this round's Tick has taken it
  waited, timedOut,            \* HttpRequestWaitTime, HttpConnectTimeout have passed
  handled,                     \* history: the requests given to httpHandle
  spoiled,                     \* history: the output buffer was popped twice
  aborted                      \* the process has ended: an assertion or an exception

clientVars == <<script, pipelined, unsent, received, peer>>
tcpVars    == <<arrived, open, inBuffer, outBuffer, writing>>
loopVars   == <<phase, active, wc, armed, due>>
timeVars   == <<waited, timedOut>>
http1Vars  == <<clientVars, tcpVars, connData, loopVars, timeVars, handled,
                spoiled, aborted>>

-----------------------------------------------------------------------------
(* Requests as pieces *)

When(condition, seq) == IF condition THEN seq ELSE <<>>

\* The kinds of a request's pieces.
Pieces(r) ==
  <<"first", IF r.valid THEN "line" ELSE "bad">>
  \o When(r.close, <<"close">>) \o When(r.body # <<>>, <<"length">>) \o <<"end">> \o r.body

Kind(x) == Pieces(script[x.req])[x.at]

FirstPiece(n) == [req |-> n, at |-> 1]

\* What the client sends after a piece.
NextPiece(x) ==
  IF x.at < Len(Pieces(script[x.req])) THEN [x EXCEPT !.at = @ + 1] ELSE FirstPiece(x.req + 1)

Answer(n) == [i \in 1 .. AnswerSize |-> <<n, i>>]

Answers(numbers) ==
  [i \in 1 .. AnswerSize * Len(numbers) |->
     <<numbers[1 + (i - 1) \div AnswerSize], 1 + ((i - 1) % AnswerSize)>>]

-----------------------------------------------------------------------------
(* FHttpParser *)

NewParser == [state |-> "RequestLine", lineBuf |-> <<>>, req |-> 0,
              close |-> FALSE, contentLength |-> 0, bodyBytesRead |-> 0]

NewData == [parser |-> NewParser, shouldKeepAlive |-> TRUE]

\* A request line without its first byte names no method.
ParseRequestLine(p, piece) ==
  IF Kind(piece) = "line" /\ p.lineBuf = <<"first">>
  THEN [p EXCEPT !.state = "Headers", !.lineBuf = <<>>, !.req = piece.req]
  ELSE [p EXCEPT !.state = "Error", !.lineBuf = <<>>]

\* Wrong on purpose: the body ends one byte late.
BodyEndsLate(p, n) == n > p.contentLength

BodyEnds(p, n) == n >= p.contentLength

\* A Content-Length that is no number is an error.  For one that is too large, stoul()
\* or reserve() throws, and nobody catches it.
EndHeaders(p) ==
  CASE p.contentLength = 0 -> "Done"
    [] p.contentLength > 0 /\ script[p.req].length = "digits"   -> "Body"
    [] p.contentLength > 0 /\ script[p.req].length = "noNumber" -> "Error"
    [] p.contentLength > 0 /\ script[p.req].length = "tooLarge" -> "Thrown"

Feed(p, piece) ==
  CASE p.state = "RequestLine" /\ Kind(piece) = "first" ->
         [p EXCEPT !.lineBuf = Append(@, "first")]
    [] p.state = "RequestLine" /\ Kind(piece) # "first" -> ParseRequestLine(p, piece)
    [] p.state = "Headers" /\ Kind(piece) = "close" -> [p EXCEPT !.close = TRUE]
    [] p.state = "Headers" /\ Kind(piece) = "length" ->
         [p EXCEPT !.contentLength = Len(script[p.req].body)]
    [] p.state = "Headers" /\ Kind(piece) = "end" ->
         [p EXCEPT !.state = EndHeaders(p)]
    [] p.state = "Body" ->
         LET n == p.bodyBytesRead + 1
         IN [p EXCEPT !.bodyBytesRead = n,
                      !.state = IF BodyEnds(p, n) THEN "Done" ELSE "Body"]

-----------------------------------------------------------------------------
Http1Init ==
  /\ script \in Scripts
  /\ pipelined \in BOOLEAN
  /\ unsent = FirstPiece(1)
  /\ received = <<>>
  /\ peer = "open"
  /\ arrived = <<>>
  /\ open = TRUE
  /\ inBuffer = <<>>
  /\ outBuffer = <<>>
  /\ writing = FALSE
  /\ connData = NoData
  /\ phase = "poll"
  /\ active = {}
  /\ wc = 0
  /\ armed = FALSE
  /\ due = FALSE
  /\ waited = FALSE
  /\ timedOut = FALSE
  /\ handled = <<>>
  /\ spoiled = FALSE
  /\ aborted = FALSE

-----------------------------------------------------------------------------
(* The client, its network, and the clock *)

\* A client that does not pipeline has read the answers to all it has sent.
Free(n) == pipelined \/ Len(received) >= AnswerSize * (n - 1)

ClientSend ==
  /\ peer = "open"
  /\ unsent.req \in DOMAIN script
  /\ Free(unsent.req)
  /\ arrived' = Append(arrived, unsent)
  /\ unsent' = NextPiece(unsent)
  /\ UNCHANGED <<script, pipelined, received, peer, open, inBuffer, outBuffer,
                 writing, connData, loopVars, timeVars, handled, spoiled, aborted>>

ClientLeave ==
  /\ peer' \in (CASE peer = "open" -> {"fin", "rst"} [] peer = "fin" -> {"rst"}
                  [] OTHER -> {})
  /\ UNCHANGED <<script, pipelined, unsent, received, tcpVars, connData, loopVars,
                 timeVars, handled, spoiled, aborted>>

\* Both are measured from the creation of the connection's data.
TimePasses ==
  /\ connData # NoData
  /\ \/ ~waited /\ waited' = TRUE /\ UNCHANGED timedOut
     \/ ~timedOut /\ timedOut' = TRUE /\ UNCHANGED waited
  /\ UNCHANGED <<clientVars, tcpVars, connData, loopVars, handled, spoiled, aborted>>

-----------------------------------------------------------------------------
(* FTcpConnection *)

\* Wrong on purpose: the data stays behind.
HandleCloseForgetful ==
  /\ open' = FALSE
  /\ active' = {}
  /\ UNCHANGED connData

\* handleClose, and handleTcpConnClosed by the callbacks of FTcpServer.
HandleClose ==
  /\ open' = FALSE
  /\ active' = {}
  /\ connData' = NoData

\* Wrong on purpose: what still waits in the buffer does not matter.
NothingWaitsEver == TRUE

NothingWaits == ~writing /\ outBuffer = <<>>

\* Wrong on purpose: the write is complete when some of it is sent.
CompletedBy(rest) == 1

\* The write-complete task is queued when nothing is left.
Completed(rest) == IF rest = <<>> THEN 1 ELSE 0

\* sendInLoop: send what the socket takes if nothing waits before it; keep the
\* rest, unless the socket was reset.
SendInLoop(data) ==
  \/ /\ NothingWaits /\ peer # "rst"
     /\ \E k \in 0 .. Len(data) :
          LET rest == SubSeq(data, k + 1, Len(data)) IN
          /\ received' = received \o SubSeq(data, 1, k)
          /\ wc' = wc + Completed(rest)
          /\ outBuffer' = rest
          /\ writing' = (rest # <<>>)
  \/ /\ NothingWaits /\ peer = "rst"
     /\ UNCHANGED <<received, outBuffer, writing, wc>>
  \/ /\ ~NothingWaits
     /\ outBuffer' = outBuffer \o data
     /\ writing' = TRUE
     /\ UNCHANGED <<received, wc>>

\* Wrong on purpose: the data of an earlier read is not found again.
DataOfThisRead == NewData

\* getDataFromTcpConn
DataOf == IF connData = NoData THEN NewData ELSE connData

\* Wrong on purpose: the parser is used again as it is.
AfterAnswerSameParser(p) ==
  [parser |-> p, shouldKeepAlive |-> ~p.close]

\* preProcessTcpConn decides about keep-alive; the end of http1Process resets the
\* parser if the connection is to be used again.
AfterAnswer(p) ==
  [parser |-> IF p.close THEN p ELSE NewParser, shouldKeepAlive |-> ~p.close]

\* handleRead, up to parse().
HandleRead ==
  /\ phase = "events"
  /\ "read" \in active /\ "close" \notin active
  /\ arrived' = <<>>
  /\ inBuffer' = inBuffer \o arrived
  /\ IF arrived = <<>>
     THEN HandleClose /\ UNCHANGED phase
     ELSE /\ phase' = "parse"
          /\ active' = active \ {"read"}
          /\ connData' = DataOf
          /\ UNCHANGED open
  /\ UNCHANGED <<clientVars, outBuffer, writing, wc, armed, due, timeVars, handled,
                 spoiled, aborted>>

\* readNext() returns zero: at the end of the buffer, or because that was read.
NothingToRead == inBuffer # <<>> => Kind(Head(inBuffer)) = "zero"

\* One turn of the loop in parse(), and the close that follows an error.  Nobody catches
\* an exception: the process ends.
ParseNext ==
  LET p == Feed(connData.parser, Head(inBuffer)) IN
  /\ phase = "parse"
  /\ ~NothingToRead
  /\ connData.parser.state # "Done"
  /\ \/ /\ p.state = "Thrown"
        /\ aborted' = TRUE
        /\ UNCHANGED <<inBuffer, connData, open, active, phase>>
     \/ /\ p.state # "Thrown"
        /\ inBuffer' = Tail(inBuffer)
        /\ IF p.state = "Error"
           THEN HandleClose /\ phase' = "events"
           ELSE connData' = [connData EXCEPT !.parser = p] /\ UNCHANGED <<open, active, phase>>
        /\ UNCHANGED aborted
  /\ UNCHANGED <<clientVars, arrived, outBuffer, writing, wc, armed, due, timeVars,
                 handled, spoiled>>

\* The end of parse() and the rest of http1Process.  readNext() takes a piece
\* before the state is tested, so the one that ends the loop is lost.
ParseEnd ==
  LET p == connData.parser IN
  /\ phase = "parse"
  /\ (~NothingToRead) => p.state = "Done"
  /\ phase' = "events"
  /\ inBuffer' = IF inBuffer = <<>> THEN <<>> ELSE Tail(inBuffer)
  /\ IF p.state = "Done"
     THEN /\ handled' = Append(handled, p.req)
          /\ SendInLoop(Answer(p.req))
          /\ connData' = AfterAnswer(p)
     ELSE UNCHANGED <<received, outBuffer, writing, wc, handled, connData>>
  /\ UNCHANGED <<script, pipelined, unsent, peer, arrived, open, active, armed, due,
                 timeVars, spoiled, aborted>>

\* A client in the middle of its headers can go on for good: a read brings one more
\* header nobody looks at, an event as any other.
ReadOtherHeader ==
  /\ phase = "poll" /\ open
  /\ peer = "open" /\ arrived = <<>> /\ inBuffer = <<>>
  /\ connData # NoData /\ connData.parser.state = "Headers"
  /\ phase' = "events"
  /\ UNCHANGED <<clientVars, tcpVars, connData, active, wc, armed, due, timeVars, handled,
                 spoiled, aborted>>

\* The close and error callbacks.
HandleHup ==
  /\ phase = "events"
  /\ "close" \in active
  /\ HandleClose
  /\ UNCHANGED <<clientVars, arrived, inBuffer, outBuffer, writing, phase, wc, armed,
                 due, timeVars, handled, spoiled, aborted>>

\* FBuffer::Write pops the n pieces it has sent, handleWrite pops them again, and
\* Pop asserts that there are so many.
PopTwice(n) ==
  IF 2 * n > Len(outBuffer)
  THEN aborted' = TRUE /\ UNCHANGED <<outBuffer, writing, wc>>
  ELSE LET rest == SubSeq(outBuffer, 2 * n + 1, Len(outBuffer))
       IN /\ outBuffer' = rest
          /\ writing' = (rest # <<>>)
          /\ wc' = wc + Completed(rest)
          /\ UNCHANGED aborted

\* handleWrite; the socket takes nothing, or n pieces.
HandleWrite ==
  /\ phase = "events"
  /\ active = {"write"}
  /\ active' = {}
  /\ \/ UNCHANGED <<received, outBuffer, writing, wc, spoiled, aborted>>
     \/ \E n \in 1 .. Len(outBuffer) :
          /\ peer # "rst"
          /\ received' = received \o SubSeq(outBuffer, 1, n)
          /\ spoiled' = TRUE
          /\ PopTwice(n)
  /\ UNCHANGED <<script, pipelined, unsent, peer, arrived, open, inBuffer, connData,
                 phase, armed, due, timeVars, handled>>

-----------------------------------------------------------------------------
(* A round of the loop *)

Ready ==
  (IF peer = "rst" THEN {"close"} ELSE {})
  \cup (IF arrived # <<>> \/ peer = "fin" THEN {"read"} ELSE {})

\* The system reports that a socket can be written when it likes.
Listen ==
  /\ phase = "poll" /\ open
  /\ \/ active' = Ready
     \/ writing /\ active' = Ready \cup {"write"}
  /\ active' # {}
  /\ phase' = "events"
  /\ UNCHANGED <<clientVars, tcpVars, connData, wc, armed, due, timeVars, handled, spoiled,
                 aborted>>

\* handlePostEvent has armed the idle timer anew; then Tick, which takes the timer if
\* the rest of the round has outlasted it.  A connection closed by its events is
\* destroyed by now, and its timer cancelled.
Tick ==
  /\ phase = "events"
  /\ active = {}
  /\ phase' = "funcs"
  /\ due' \in (IF open THEN BOOLEAN ELSE {FALSE})
  /\ armed' = (open /\ ~due')
  /\ UNCHANGED <<clientVars, tcpVars, connData, active, wc, timeVars, handled, spoiled,
                 aborted>>

\* The Tick of a round without an event for this connection, when its idle timer has
\* expired.
IdleTick ==
  /\ phase = "poll" /\ armed
  /\ Ready = {}
  /\ phase' = "funcs"
  /\ armed' = FALSE
  /\ due' = TRUE
  /\ UNCHANGED <<clientVars, tcpVars, connData, active, wc, timeVars, handled, spoiled,
                 aborted>>

\* handleTcpWriteComplete
RunWriteComplete ==
  /\ phase = "funcs"
  /\ wc > 0
  /\ wc' = wc - 1
  /\ IF DataOf.shouldKeepAlive
     THEN connData' = DataOf /\ UNCHANGED <<open, active>>
     ELSE HandleClose
  /\ UNCHANGED <<clientVars, arrived, inBuffer, outBuffer, writing, phase, armed, due,
                 timeVars, handled, spoiled, aborted>>

\* Wrong on purpose: only unfinished requests are timed out.
OverdueUnfinished(data) == waited /\ data.parser.state # "Done"

\* handleTcpIdle decides.
Overdue(data) == (waited /\ data.parser.state # "Done") \/ timedOut

\* handleOnIdle and handleTcpIdle, after the tasks of the round.  The connection may
\* have been closed by one of them: its timer is not armed again, but its data is made
\* anew.  Data that is made here has not survived any time yet.
RunIdle ==
  /\ phase = "funcs"
  /\ wc = 0 /\ due
  /\ due' = FALSE
  /\ armed' = open
  /\ \/ /\ connData # NoData /\ Overdue(connData)
        /\ HandleClose
     \/ /\ connData # NoData => ~Overdue(connData)
        /\ connData' = DataOf
        /\ UNCHANGED <<open, active>>
  /\ UNCHANGED <<clientVars, arrived, inBuffer, outBuffer, writing, phase, wc, timeVars,
                 handled, spoiled, aborted>>

\* Nothing holds a closed connection any longer: its destructor cancels the timer.
EndRound ==
  /\ phase = "funcs"
  /\ wc = 0 /\ ~due
  /\ phase' = "poll"
  /\ armed' = (armed /\ open)
  /\ UNCHANGED <<clientVars, tcpVars, connData, active, wc, due, timeVars, handled,
                 spoiled, aborted>>

-----------------------------------------------------------------------------
SubLoop ==
  ~aborted /\ (Listen \/ HandleRead \/ ParseNext \/ ParseEnd \/ HandleHup \/ HandleWrite \/ Tick
               \/ RunWriteComplete \/ RunIdle \/ EndRound)

Http1Next ==
  \/ ~aborted /\ (ClientSend \/ ClientLeave \/ TimePasses \/ ReadOtherHeader \/ IdleTick)
  \/ SubLoop

Http1Spec == Http1Init /\ [][Http1Next]_http1Vars

\* The loop runs, and an idle timer expires if nothing arms it anew: every event does,
\* so this is weak fairness.  The client and the clock owe nothing.
Http1Fairness == WF_http1Vars(SubLoop) /\ WF_http1Vars(~aborted /\ IdleTick)

-----------------------------------------------------------------------------
SentPieces == {x \in [req : DOMAIN script, at : Nat] : x.at \in DOMAIN Pieces(script[x.req])}

Http1TypeOK ==
  /\ script \in Scripts
  /\ {pipelined, open, writing, armed, due, waited, timedOut, spoiled, aborted} \subseteq BOOLEAN
  /\ unsent \in SentPieces \cup {FirstPiece(Len(script) + 1)}
  /\ arrived \in Seq(SentPieces) /\ inBuffer \in Seq(SentPieces)
  /\ handled \in Seq(DOMAIN script)
  /\ {received, outBuffer} \subseteq Seq((DOMAIN script) \X (1 .. AnswerSize))
  /\ peer \in {"open", "fin", "rst"}
  /\ connData = NoData \/ /\ connData \in HttpConnData
                          /\ connData.parser.req <= Len(script)
                          /\ connData.parser.bodyBytesRead <= connData.parser.contentLength
  /\ phase \in {"poll", "events", "parse", "funcs"}
  /\ active \subseteq {"close", "read", "write"}
  /\ wc \in 0 .. 1

\* However its requests are cut into reads, a client that waits for its answers has
\* each request handled once and in order, and none after one that asked to close.
CutsDoNotMatter ==
  ~pipelined =>
    /\ handled = [n \in DOMAIN handled |-> n]
    /\ \A n \in DOMAIN handled : script[n].close => n = Len(handled)

\* What the client has and what waits for it are the answers, each once, in
\* order and nothing else - until bytes are popped twice or the socket is reset.
AnswersArrive ==
  (~spoiled /\ peer # "rst") => received \o outBuffer = Answers(handled)

\* A write-complete task closes a connection only when the client has the answers to all
\* it was handled for, to the last piece, and the last one asked to close - until bytes
\* are popped twice or the socket is reset: then answers are cut off.
ClosedAfterAnswer ==
  [][(wc' < wc /\ open /\ ~open' /\ ~spoiled /\ peer # "rst") =>
       /\ received = Answers(handled)
       /\ handled # <<>> /\ script[handled[Len(handled)]].close]_http1Vars

\* Whatever closes a connection deletes its data.  Afterwards data is attached only by
\* an idle timer that the Tick of that very round has taken, and only once; nobody
\* deletes that.
DataAfterClose ==
  [][(~open' /\ connData' # NoData) =>
       ~open /\ (connData' = connData \/ (due /\ ~due'))]_http1Vars

\* The assertion of FBuffer::Pop in handleWrite; an exception ends the process in the
\* parser.
PopWithinBuffer == ~(aborted /\ phase = "events")

\* A request that a waiting client has sent is answered to the end, unless the
\* client leaves, one of the two times passes, or the network takes no more.
\* Requests with zero bytes have no such promise: the parser never sees their end.
Answerable(n) ==
  /\ "zero" \notin Range(script[n].body) /\ script[n].length = "digits"
  /\ \A m \in 1 .. n : script[m].valid /\ (m < n => ~script[m].close)

Sent(n) == unsent.req > n

WaitingIsAnswered ==
  \A n \in 1 .. 2 :
    (~pipelined /\ n \in DOMAIN script /\ Answerable(n) /\ Sent(n)) ~>
      \/ Len(received) >= AnswerSize * n
      \/ peer # "open" \/ waited \/ timedOut \/ spoiled \/ writing

\* A connection with data whose time has passed is closed, or has another event.  The
\* second is no promise at all for a client that never stops: every event arms the
\* timer anew.
TimedOutIsClosed == (timedOut /\ open) ~> (~open \/ aborted \/ phase = "events")
=============================================================================

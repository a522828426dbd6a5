----------------------------- MODULE HttpClient -----------------------------
(***************************************************************************)
(* happyhttp: a Connection reads from a socket whatever has arrived, and   *)
(* the first of its outstanding Responses parses it.  The server's bytes   *)
(* reach the client in pieces cut anywhere.  A symbol of the stream is the *)
(* text of a line, the newline that ends it, or one byte of a body; CR is  *)
(* ignored by the code and left out.                                       *)
(***************************************************************************)
EXTENDS Integers, Sequences, SequencesExt

CONSTANTS
  Exchanges,  \* the sequences of messages the server may answer with
  BufSize,    \* 2048: the most that one recv takes
  Cuts        \* the values of mayCut explored

Messages ==
  [continue : BOOLEAN, status : {200, 204, 404}, framing : {"length", "chunked", "close"},
   folded : BOOLEAN, chunks : Seq(Nat \ {0})]

ASSUME ExchangesAssumption == Exchanges \subseteq Seq(Messages) \ {<<>>}
\* Only the end of the connection ends a message that says nothing of its length.
ASSUME FramingAssumption ==
  \A e \in Exchanges : \A k \in 1 .. Len(e) - 1 : e[k].framing # "close"
ASSUME ClientAssumption == BufSize \in Nat \ {0} /\ Cuts \subseteq BOOLEAN

VARIABLES
  exchange,  \* what the server will answer
  mayCut,    \* the server may close before it has sent everything
  issued,    \* requests issued so far
  rest,      \* bytes the server has not sent
  wire,      \* bytes in the socket
  open,      \* the server has not closed the connection
  client     \* the Connection and its first outstanding Response

vars == <<exchange, mayCut, issued, rest, wire, open, client>>

-----------------------------------------------------------------------------
(* The server: what a message looks like on the wire.                      *)

NL == [t |-> "newline"]
Blank == -1  \* no value on this line
StatusLine(s) == <<[t |-> "status", code |-> s], NL>>
Header(name, v) == <<[t |-> "header", name |-> name, value |-> v], NL>>
\* A header whose value is on a line of its own.
Folded(name, v) == Header(name, Blank) \o <<[t |-> "continuation", value |-> v], NL>>
ChunkLine(n) == <<[t |-> "chunklen", n |-> n], NL>>
Data(c, n) == [k \in 1 .. n |-> [t |-> "data", chunk |-> c, pos |-> k]]

Body(m) == FlattenSeq([c \in 1 .. Len(m.chunks) |-> Data(c, m.chunks[c])])

Chunked == 0  \* the value "chunked"

FramingHeader(m) ==
  LET Line(name, v) == IF m.folded THEN Folded(name, v) ELSE Header(name, v) IN
  CASE m.framing = "length"  -> Line("content-length", Len(Body(m)))
    [] m.framing = "chunked" -> Line("transfer-encoding", Chunked)
    [] m.framing = "close"   -> <<>>

Chunk(m, c) == ChunkLine(m.chunks[c]) \o Data(c, m.chunks[c]) \o <<NL>>

FramedBody(m) ==
  IF m.framing = "chunked"
  THEN FlattenSeq([c \in 1 .. Len(m.chunks) |-> Chunk(m, c)])
         \o ChunkLine(0) \o Header("other", 0) \o <<NL>>
  ELSE Body(m)

Encoded(m) ==
  (IF m.continue THEN StatusLine(100) \o <<NL>> ELSE <<>>)
    \o StatusLine(m.status) \o Header("other", 0) \o FramingHeader(m) \o <<NL>>
    \o FramedBody(m)

-----------------------------------------------------------------------------
(* Response: one symbol at a time.  r is the record of its members.        *)

NewResponse ==
  [state |-> "STATUSLINE", line |-> <<>>, status |-> 0, accum |-> <<>>,
   headers |-> {}, chunked |-> FALSE, chunkleft |-> 0, length |-> -1,
   read |-> 0, body |-> <<>>, threw |-> FALSE]

Finish(r) == [r EXCEPT !.state = "COMPLETE"]

Throw(r) == [r EXCEPT !.threw = TRUE]

ProcessStatusLine(r, line) ==
  IF line = <<>> \/ line[1].t # "status" THEN Throw(r)
  ELSE [r EXCEPT !.status = line[1].code, !.state = "HEADERS", !.accum = <<>>]

\* A header given again replaces the first.
FlushHeader(r) ==
  IF r.accum = <<>> THEN r
  ELSE [r EXCEPT
         !.headers = {h \in @ : h.name # r.accum[1].name} \cup {r.accum[1]},
         !.accum = <<>>]

HeaderValues(r, name) == {h.value : h \in {g \in r.headers : g.name = name}}

NoBodyStatus(s) == s \in {204, 304} \/ (100 <= s /\ s < 200)

IsChunked(r) == Chunked \in HeaderValues(r, "transfer-encoding")

BeginBody(r) ==
  LET lengths == HeaderValues(r, "content-length")
      length == IF NoBodyStatus(r.status) THEN 0
                ELSE IF lengths # {} /\ ~IsChunked(r)
                     THEN CHOOSE v \in lengths : TRUE ELSE -1
  IN [r EXCEPT !.chunked = IsChunked(r), !.length = length,
               !.state = IF IsChunked(r) THEN "CHUNKLEN" ELSE "BODY"]

\* Slip: a 100 Continue is taken for the answer.
ContinueIsAnswer(r) == BeginBody(FlushHeader(r))

EndHeaders(r) ==
  LET f == FlushHeader(r) IN
  IF f.status = 100 THEN [f EXCEPT !.state = "STATUSLINE"] ELSE BeginBody(f)

\* The header read so far and its continuation: of a number the first counts.
Continued(h, l) == IF h.value = Blank THEN [h EXCEPT !.value = l.value] ELSE h

ProcessHeaderLine(r, line) ==
  IF line = <<>> THEN EndHeaders(r)
  ELSE IF line[1].t = "continuation" /\ r.accum # <<>>
  THEN [r EXCEPT !.accum = <<Continued(@[1], line[1])>>]
  ELSE [FlushHeader(r) EXCEPT !.accum = <<[name |-> line[1].name, value |-> line[1].value]>>]

\* strtol of a line that holds no number is 0.
ProcessChunkLenLine(r, line) ==
  LET n == IF line # <<>> /\ line[1].t = "chunklen" THEN line[1].n ELSE 0 IN
  IF n = 0 THEN [r EXCEPT !.chunkleft = 0, !.state = "TRAILERS", !.accum = <<>>]
  ELSE [r EXCEPT !.chunkleft = n, !.state = "BODY"]

ProcessTrailerLine(r, line) == IF line = <<>> THEN Finish(r) ELSE r

ProcessLine(r, line) ==
  CASE r.state = "STATUSLINE" -> ProcessStatusLine(r, line)
    [] r.state = "HEADERS"    -> ProcessHeaderLine(r, line)
    [] r.state = "TRAILERS"   -> ProcessTrailerLine(r, line)
    [] r.state = "CHUNKLEN"   -> ProcessChunkLenLine(r, line)
    [] r.state = "CHUNKEND"   -> [r EXCEPT !.state = "CHUNKLEN"]

\* Slip: the end of a chunk is not noticed.
StayInBody(r) == "BODY"

AfterChunk(r) == "CHUNKEND"

ProcessDataChunked(r, c) ==
  [r EXCEPT !.body = Append(@, c), !.read = @ + 1, !.chunkleft = @ - 1,
            !.state = IF r.chunkleft = 1 THEN AfterChunk(r) ELSE "BODY"]

\* A length that is reached ends the response; a length of 0 ends it without
\* using c, when there is a c.
ProcessDataNonChunked(r, c) ==
  LET fed == IF r.length = r.read THEN r
             ELSE [r EXCEPT !.body = Append(@, c), !.read = @ + 1]
  IN IF fed.length = fed.read THEN Finish(fed) ELSE fed

\* One symbol of Response::pump.
Feed(r, c) ==
  IF r.state = "BODY"
  THEN IF r.chunked THEN ProcessDataChunked(r, c) ELSE ProcessDataNonChunked(r, c)
  ELSE IF c = NL THEN ProcessLine([r EXCEPT !.line = <<>>], r.line)
  ELSE [r EXCEPT !.line = Append(@, c)]

-----------------------------------------------------------------------------
(* Connection.                                                             *)

NewClient == [r |-> NewResponse, outstanding |-> 0, bodies |-> <<>>,
              lost |-> FALSE, threw |-> FALSE]

\* What the callbacks of a response were given: OnBegin at its body, OnData.
Given(r) == [status |-> IF r.state \in {"STATUSLINE", "HEADERS"} THEN 0 ELSE r.status,
             body |-> r.body]

\* The first response leaves the queue once it is complete.
Pop(q) ==
  IF q.r.threw THEN [q EXCEPT !.threw = TRUE]
  ELSE IF q.r.state # "COMPLETE" THEN q
  ELSE [q EXCEPT !.r = NewResponse, !.outstanding = @ - 1,
                 !.bodies = Append(@, Given(q.r))]

\* Whether a symbol that arrives finishes the response without being used.
Unused(r) == r.state = "BODY" /\ ~r.chunked /\ r.length = r.read

\* The loop of Connection::pump: a symbol that comes when no response is
\* outstanding is lost (and fails an assertion).
Take(q, c) ==
  LET s == IF q.outstanding > 0 /\ Unused(q.r) THEN Pop([q EXCEPT !.r = Finish(@)]) ELSE q IN
  IF s.threw THEN s
  ELSE IF s.outstanding = 0 THEN [s EXCEPT !.lost = TRUE]
  ELSE Pop([s EXCEPT !.r = Feed(@, c)])

\* (The bound p makes TLC evaluate q once.)
TakeOne(q, c) == CHOOSE s \in {Take(p, c) : p \in {q}} : TRUE

TakeAll(q, cs) ==
  LET taken[n \in 0 .. Len(cs)] == IF n = 0 THEN q ELSE TakeOne(taken[n - 1], cs[n])
  IN  taken[Len(cs)]

Init ==
  /\ exchange \in Exchanges /\ mayCut \in Cuts
  /\ issued = 0
  /\ rest = <<>> /\ wire = <<>> /\ open = TRUE
  /\ client = NewClient

\* Connection::request; it connects if need be and blocks until all is sent.
request ==
  /\ issued < Len(exchange) /\ ~client.threw
  /\ open /\ issued' = issued + 1
  /\ client' = [client EXCEPT !.outstanding = @ + 1]
  /\ rest' = rest \o Encoded(exchange[issued + 1])
  /\ UNCHANGED <<exchange, mayCut, wire, open>>

\* The connection cannot be made, or breaks.
SocketError ==
  /\ mayCut /\ ~client.threw
  /\ issued < Len(exchange) \/ client.outstanding > 0
  /\ client' = [client EXCEPT !.threw = TRUE]
  /\ UNCHANGED <<exchange, mayCut, issued, rest, wire, open>>

Send ==
  /\ open
  /\ \E n \in 1 .. Len(rest) :
       /\ wire' = wire \o SubSeq(rest, 1, n)
       /\ rest' = SubSeq(rest, n + 1, Len(rest))
  /\ UNCHANGED <<exchange, mayCut, issued, open, client>>

\* The server closes when it has answered everything, or cuts it short.
Close ==
  /\ open /\ issued = Len(exchange)
  /\ rest = <<>> \/ mayCut
  /\ open' = FALSE
  /\ rest' = <<>>
  /\ UNCHANGED <<exchange, mayCut, issued, wire, client>>

\* Connection::pump when data is waiting.
pump ==
  /\ client.outstanding > 0 /\ ~client.threw
  /\ wire # <<>>
  /\ LET n == IF Len(wire) < BufSize THEN Len(wire) ELSE BufSize IN
       /\ client' = TakeAll(client, SubSeq(wire, 1, n))
       /\ wire' = SubSeq(wire, n + 1, Len(wire))
  /\ UNCHANGED <<exchange, mayCut, issued, rest, open>>

\* Slip: every response is finished by the end of the connection.
AnyEnd(r) == TRUE

EndIsValid(r) == r.state = "BODY" /\ ~r.chunked /\ r.length = -1

\* Slip: recv returning 0 is taken for no data yet.
StillWaiting ==
  /\ client.outstanding > 0 /\ ~client.threw
  /\ wire = <<>> /\ ~open
  /\ UNCHANGED vars

\* Connection::pump when the connection has closed: the first response is told
\* (notifyconnectionclosed), the others are discarded.
pumpClosed ==
  /\ client.outstanding > 0 /\ ~client.threw
  /\ wire = <<>> /\ ~open
  /\ client' = IF EndIsValid(client.r)
               THEN [Pop([client EXCEPT !.r = Finish(@)]) EXCEPT !.outstanding = 0]
               ELSE [client EXCEPT !.threw = TRUE]
  /\ UNCHANGED <<exchange, mayCut, issued, rest, wire, open>>

\* while( conn.outstanding() ) has ended.
Answered == issued = Len(exchange) /\ client.outstanding = 0

\* Or an exception has ended it.
Terminated ==
  /\ Answered \/ client.threw
  /\ UNCHANGED vars

Next == request \/ SocketError \/ Send \/ Close \/ pump \/ pumpClosed \/ Terminated

Spec == Init /\ [][Next]_vars

\* The client polls; the server answers and then closes, as the header
\* "Connection: close" of each request asks it to.
FairSpec == Spec /\ WF_vars(request) /\ WF_vars(pump) /\ WF_vars(pumpClosed)
                 /\ WF_vars(Send) /\ WF_vars(Close)

-----------------------------------------------------------------------------
TypeOK ==
  /\ mayCut \in BOOLEAN
  /\ issued \in 0 .. Len(exchange)
  /\ open \in BOOLEAN
  /\ client.outstanding \in 0 .. issued
  /\ client.r.state \in {"STATUSLINE", "HEADERS", "BODY", "CHUNKLEN", "CHUNKEND", "TRAILERS"}
  /\ client.r.chunkleft \in Nat /\ client.r.read \in Nat
  /\ client.r.length \in Nat \cup {-1}
  /\ client.lost \in BOOLEAN /\ client.threw \in BOOLEAN

\* The statuses and bodies that the user of the Connection is given are those
\* of the messages, wherever the pieces were cut: no half answer is taken for
\* one, no bytes of one message for another's; a failure is a failure.
Exchange == INSTANCE HttpSpec WITH
  promised <- [k \in 1 .. Len(exchange) |->
                 [status |-> exchange[k].status, body |-> Body(exchange[k]),
                  openEnded |-> exchange[k].framing = "close"]],
  asked <- issued,
  heard <- Append(client.bodies, Given(client.r)),
  failed <- client.threw

ExchangeSafety == Exchange!Spec

\* "all bytes should be used up by here".
AllBytesUsed == ~client.lost

\* A response that reaches the client in full is not mistaken for a bad one.
OnlyCutsThrow == client.threw => mayCut

\* Each request is answered, or the failure is noticed: the client does not
\* poll for ever.
PollingEnds == <>(Answered \/ client.threw)
=============================================================================

--------------------------------- MODULE Http ---------------------------------
(***************************************************************************)
(* The HTTP/1.1 client and server of globals.cpp over one connection, as a *)
(* reliable stream of tokens that the network cuts anywhere: the head of a *)
(* message is two tokens, a body one token per byte, a chunk of a chunked  *)
(* body its size, its bytes and a CRLF.  The final chunk is one token: the *)
(* model does not cut "0\r\n\r\n" in two.                                  *)
(*                                                                         *)
(* The client is the library's, which sends one request and closes, or a   *)
(* foreign one that keeps the connection and sends its next request when   *)
(* the last one was answered.  One socket callback is one step, but for    *)
(* the call of the request handler, which runs between two halves of       *)
(* tryParseRequest().                                                      *)
(***************************************************************************)
EXTENDS Integers, Sequences, SequencesExt

CONSTANTS
  MaxBody,  \* bound: bytes of a body
  MaxPauses, \* bound: pause() calls on a message
  Requests, \* bound: requests of a foreign client
  Habits    \* "early": handlers answer before the end of a body,
            \* "pipelined": a foreign client does not wait for answers

ASSUME HttpAssumption ==
  /\ MaxBody \in Nat /\ MaxPauses \in Nat /\ Requests \in Nat \ {0}
  /\ Habits \subseteq {"early", "pipelined"}

VARIABLES
  client,   \* _ClientRequest, or a foreign client
  up, down, \* what is under way to the server and to the client
  downFin,  \* the server has ended its side
  server,   \* the state of the connection in _httpCreateServer()
  response, \* _ServerResponse
  request,  \* _IncomingMessage of the current request
  answer,   \* _IncomingMessage of the answer, at the library's client
  retry,    \* setImmediate(tryParseRequest) is pending
  lengths,  \* history: the body lengths of the requests sent
  handled,  \* history: the requests that the handler was called with
  put       \* history: the bytes of the answer that the handler has written

clientVars == <<client, answer>>
serverVars == <<server, response, request, retry, handled, put>>
httpVars == <<clientVars, up, down, downFin, serverVars, lengths>>

-----------------------------------------------------------------------------
(* Tokens and the body reader *)

Line == [t |-> "line", n |-> 0]
Head1(n) == [t |-> "head", n |-> n, mode |-> IF n = 0 THEN "eof" ELSE "length"]
Byte(i) == [t |-> "byte", n |-> i]
Bytes(from, to) == [i \in 1..(to - from + 1) |-> Byte(from + i - 1)]
Size(n) == [t |-> "size", n |-> n]
Crlf == [t |-> "crlf", n |-> 0]
RequestTokens(n) == <<Line, Head1(n)>> \o Bytes(1, n)

NoReader == [mode |-> "none", remain |-> 0, acc |-> << >>]
\* _http_bodyReader()
Reader(mode, n) == [mode |-> mode, remain |-> n, acc |-> << >>]

\* The loop of _http_feedBody() for chunked bodies.  Anything but a size is NaN.
\* at[i]: what it makes of the bytes from the i-th on.
Unchunk(acc) ==
  LET From(i) == SubSeq(acc, i, Len(acc))
      Stops(i, done) == [acc |-> From(i), given |-> << >>, done |-> done]
      at[i \in 1..Len(acc) + 1] ==
        IF i > Len(acc) THEN Stops(i, FALSE)
        ELSE IF acc[i].t # "size" THEN Stops(i, TRUE)
        ELSE LET n == acc[i].n
             IN IF n = 0 THEN Stops(i + 1, TRUE)
                ELSE IF Len(acc) < i + n + 1 THEN Stops(i, FALSE)
                ELSE [at[i + n + 2] EXCEPT !.given = SubSeq(acc, i + 1, i + n) \o @]
  IN at[1]

\* How many bytes of a piece belong to the body.
InBody(remain, piece) == IF Len(piece) <= remain THEN Len(piece) ELSE remain

\* _http_feedBody(): the reader afterwards, the bytes it emits, whether the body is over.
Feed(r, piece) ==
  CASE r.mode = "length" ->
         LET k == InBody(r.remain, piece)
         IN [r |-> [r EXCEPT !.remain = @ - k], given |-> SubSeq(piece, 1, k),
             done |-> r.remain <= k]
    [] r.mode = "eof" -> [r |-> r, given |-> piece, done |-> FALSE]
    [] r.mode = "chunked" ->
         LET u == Unchunk(r.acc \o piece)
         IN [r |-> [r EXCEPT !.acc = u.acc], given |-> u.given, done |-> u.done]

-----------------------------------------------------------------------------
(* _IncomingMessage *)

\* heard: 'data' and 'end' have listeners.  An event without a listener is lost.
NewMessage == [buf |-> << >>, flowing |-> FALSE, endQueued |-> FALSE, heard |-> FALSE,
               drain |-> FALSE, got |-> << >>, ends |-> 0, pauses |-> 0]

EmitsEnd(m) == [m EXCEPT !.ends = IF m.heard THEN @ + 1 ELSE @]

\* emit('data') for each piece; a paused message keeps them.
EmitsData_Lost(m, given) == \* Mutant: nothing is kept for a listener to come
  IF m.flowing THEN [m EXCEPT !.got = @ \o given] ELSE m
EmitsData(m, given) ==
  IF m.flowing THEN [m EXCEPT !.got = @ \o given] ELSE [m EXCEPT !.buf = @ \o given]

\* emit('end') waits for the bytes in the buffer, if there are any.
EndWaits(m) == ~m.flowing /\ m.buf # << >>
Emits(m, given, end) ==
  LET d == EmitsData(m, given)
  IN IF ~end THEN d
     ELSE IF EndWaits(d) THEN [d EXCEPT !.endQueued = TRUE]
     ELSE EmitsEnd(d)

\* _imDrain()
ImDrained(m) ==
  IF ~m.flowing THEN [m EXCEPT !.drain = FALSE]
  ELSE LET d == [m EXCEPT !.drain = FALSE, !.got = @ \o m.buf, !.buf = << >>,
                          !.endQueued = FALSE]
       IN IF m.endQueued THEN EmitsEnd(d) ELSE d

\* on('data') and resume(): flowing at once, the buffer on the next tick.
Drains(m) == m.drain \/ ~m.flowing
Listens(m) == [m EXCEPT !.heard = TRUE, !.flowing = TRUE, !.drain = Drains(m)]
Pauses(m) == [m EXCEPT !.flowing = FALSE, !.pauses = @ + 1]

-----------------------------------------------------------------------------
HttpInit ==
  /\ client \in {[kind |-> k, open |-> k # "library", closed |-> FALSE, started |-> FALSE,
                  chunks |-> << >>, next |-> 1, length |-> 0, buf |-> << >>,
                  reader |-> NoReader] : k \in {"library", "foreign", "burst"}}
  /\ up = << >> /\ down = << >> /\ downFin = FALSE
  /\ server = [buf |-> << >>, parsing |-> FALSE, reader |-> NoReader, handling |-> FALSE]
  /\ response = [mode |-> "none", ended |-> TRUE, keepAlive |-> FALSE, left |-> 0]
  /\ request = NewMessage /\ answer = NewMessage
  /\ retry = FALSE
  /\ lengths = << >> /\ handled = << >> /\ put = << >>

\* Sockets are not read while the handler runs; the loop drains the ticks after every
\* callback.
Quiet == ~server.handling /\ ~request.drain /\ ~answer.drain

-----------------------------------------------------------------------------
(* The library's client *)

\* http.request(); the caller sets Content-Length if there is a body.
Start ==
  /\ client.kind = "library" /\ ~client.started /\ Quiet
  /\ \E n \in 0..MaxBody :
       /\ client' = [client EXCEPT !.started = TRUE, !.length = n]
       /\ lengths' = <<n>>
  /\ UNCHANGED <<answer, up, down, downFin, serverVars>>

\* req.write(): queued until the headers are out.
ClientWrite ==
  /\ client.kind = "library" /\ client.started /\ client.next <= client.length
  /\ ~client.closed /\ Quiet
  /\ LET b == Byte(client.next)
     IN IF client.open
        THEN up' = Append(up, b) /\ client' = [client EXCEPT !.next = @ + 1]
        ELSE /\ client' = [client EXCEPT !.next = @ + 1, !.chunks = Append(@, b)]
             /\ UNCHANGED up
  /\ UNCHANGED <<answer, down, downFin, serverVars, lengths>>

\* onReady: the headers, then what was queued.
Ready ==
  /\ client.kind = "library" /\ client.started /\ ~client.open /\ Quiet
  /\ client' = [client EXCEPT !.open = TRUE]
  /\ up' = up \o <<Line, Head1(client.length)>> \o client.chunks
  /\ UNCHANGED <<answer, down, downFin, serverVars, lengths>>

HeadAt(buf) == SelectInSeq(buf, LAMBDA x : x.t = "head")

\* The 'data' listener of the client's socket.  The answer's listeners may be attached
\* in 'response', before the bytes that follow the head are fed.
ClientReads(piece) ==
  LET buf == IF client.reader = NoReader THEN client.buf \o piece ELSE << >>
      at == HeadAt(buf)
      reader == IF client.reader # NoReader THEN client.reader
                ELSE Reader(buf[at].mode, buf[at].n)
      body == IF client.reader # NoReader THEN piece ELSE SubSeq(buf, at + 1, Len(buf))
      fed == Feed(reader, body)
  IN IF client.reader = NoReader /\ at = 0
     THEN client' = [client EXCEPT !.buf = buf] /\ UNCHANGED answer
     ELSE \E m \in {answer} \cup (IF client.reader = NoReader THEN {Listens(answer)} ELSE {}) :
            IF body = << >>
            THEN answer' = m /\ client' = [client EXCEPT !.reader = reader]
            ELSE /\ answer' = Emits(m, fed.given, fed.done)
                 /\ client' = [client EXCEPT !.reader = fed.r, !.closed = fed.done]

ClientData ==
  /\ client.kind = "library" /\ client.open /\ ~client.closed /\ Quiet /\ down # << >>
  /\ \E k \in 1..Len(down) :
       ClientReads(SubSeq(down, 1, k)) /\ down' = SubSeq(down, k + 1, Len(down))
  /\ UNCHANGED <<up, downFin, serverVars, lengths>>

\* 'end' of the client's socket, which then closes.
ClientEnd ==
  /\ client.kind = "library" /\ client.open /\ ~client.closed /\ Quiet
  /\ down = << >> /\ downFin
  /\ client' = [client EXCEPT !.closed = TRUE]
  /\ answer' = IF client.reader.mode = "eof" THEN Emits(answer, << >>, TRUE) ELSE answer
  /\ UNCHANGED <<up, down, downFin, serverVars, lengths>>

\* The script listens to the answer, pauses it, resumes it.
AnswerUsed ==
  /\ client.reader # NoReader /\ ~server.handling
  /\ \/ (~answer.heard \/ ~answer.flowing) /\ answer' = Listens(answer)
     \/ answer.flowing /\ answer.ends = 0 /\ answer.pauses < MaxPauses /\ answer' = Pauses(answer)
  /\ UNCHANGED <<client, up, down, downFin, serverVars, lengths>>

AnswerTick ==
  /\ answer.drain /\ ~server.handling /\ answer' = ImDrained(answer)
  /\ UNCHANGED <<client, up, down, downFin, serverVars, lengths>>

-----------------------------------------------------------------------------
(* A foreign client: it reads what comes *)

Answered == handled # << >> /\ response.ended /\ down = << >>

ForeignSends ==
  /\ client.kind = "foreign" /\ Len(lengths) < Requests /\ Quiet
  /\ lengths = << >> \/ (Answered /\ Len(handled) = Len(lengths)) \/ "pipelined" \in Habits
  /\ \E n \in 0..MaxBody :
       lengths' = Append(lengths, n) /\ up' = up \o RequestTokens(n)
  /\ UNCHANGED <<clientVars, down, downFin, serverVars>>

\* Requests without a body, one after the other.
Burst(k) == [i \in 1..2 * k |-> IF i % 2 = 1 THEN Line ELSE Head1(0)]
BurstSends ==
  /\ client.kind = "burst" /\ lengths = << >>
  /\ lengths' = [i \in 1..Requests |-> 0]
  /\ up' = Burst(Requests)
  /\ UNCHANGED <<clientVars, down, downFin, serverVars>>

ForeignReads ==
  /\ client.kind # "library" /\ down # << >> /\ ~server.handling
  /\ down' = << >>
  /\ UNCHANGED <<clientVars, up, downFin, serverVars, lengths>>

-----------------------------------------------------------------------------
(* The server *)

\* What is left of the buffer, at and after the head at this place.
Slide_Kept(buf, at) == SubSeq(buf, at, Len(buf)) \* Mutant: the head is not slid past
Slide(buf, at) == SubSeq(buf, at + 1, Len(buf))

NoBody(r) == r.mode = "eof" \/ (r.mode = "length" /\ r.remain = 0)

\* The first half of tryParseRequest(), up to the call of the handler.  A head that does
\* not come after a request line alone is taken for GET /, request 0 of the history.
TryParse(buf, reader) ==
  LET at == HeadAt(buf)
  IN IF server.parsing \/ at = 0
     THEN server' = [server EXCEPT !.buf = buf, !.reader = reader]
          /\ UNCHANGED <<response, request, handled, put>>
     ELSE /\ server' = [buf |-> Slide(buf, at), parsing |-> TRUE,
                        reader |-> Reader(buf[at].mode, buf[at].n), handling |-> TRUE]
          /\ response' = [mode |-> "none", ended |-> FALSE,
                          keepAlive |-> client.kind # "library", left |-> 0]
          /\ request' = NewMessage
          /\ handled' = Append(handled, IF at = 2 /\ buf[1] = Line THEN Len(handled) + 1 ELSE 0)
          /\ put' = << >>

\* The second half: a request without a body ends at once; bytes that came with the
\* head are fed.  If the handler has answered, reader is null and this throws.
AfterHandler ==
  /\ server.handling
  /\ LET r == server.reader
         fed == Feed(r, server.buf)
     IN CASE r.mode = "none" -> server' = [server EXCEPT !.handling = FALSE] /\ UNCHANGED request
          [] r.mode # "none" /\ NoBody(r) ->
               /\ server' = [server EXCEPT !.handling = FALSE]
               /\ request' = Emits(request, << >>, TRUE)
          [] r.mode # "none" /\ ~NoBody(r) ->
               IF server.buf = << >>
               THEN server' = [server EXCEPT !.handling = FALSE] /\ UNCHANGED request
               ELSE /\ server' = [server EXCEPT !.handling = FALSE, !.buf = << >>,
                                                !.reader = fed.r]
                    /\ request' = Emits(request, fed.given, fed.done)
  /\ UNCHANGED <<clientVars, up, down, downFin, response, retry, handled, put, lengths>>

\* The 'data' listener of the server's socket.
ServerData ==
  /\ Quiet /\ up # << >>
  /\ \E k \in IF client.kind = "burst" THEN {Len(up)} ELSE 1..Len(up) :
       LET piece == SubSeq(up, 1, k)
           fed == Feed(server.reader, piece)
       IN /\ up' = SubSeq(up, k + 1, Len(up))
          /\ IF server.parsing
             THEN /\ server' = [server EXCEPT !.reader = fed.r]
                  /\ request' = Emits(request, fed.given, fed.done)
                  /\ UNCHANGED <<response, handled, put>>
             ELSE TryParse(server.buf \o piece, server.reader)
  /\ UNCHANGED <<clientVars, down, downFin, retry, lengths>>

Retry ==
  /\ retry /\ Quiet
  /\ retry' = FALSE
  /\ TryParse(server.buf, server.reader)
  /\ UNCHANGED <<clientVars, up, down, downFin, lengths>>

-----------------------------------------------------------------------------
(* The handler *)

RequestUsed ==
  /\ server.parsing
  /\ \/ (~request.heard \/ ~request.flowing) /\ request' = Listens(request)
     \/ request.flowing /\ request.ends = 0 /\ request.pauses < MaxPauses /\ request' = Pauses(request)
  /\ UNCHANGED <<clientVars, up, down, downFin, server, response, retry, handled, put, lengths>>

RequestTick ==
  /\ request.drain /\ ~server.handling /\ request' = ImDrained(request)
  /\ UNCHANGED <<clientVars, up, down, downFin, server, response, retry, handled, put, lengths>>

Body == lengths[Len(handled)]
MayAnswer == server.parsing /\ ~response.ended
             /\ ("early" \in Habits \/ Body = 0 \/ request.ends > 0)

\* _flushHeaders() of a streamed answer: the length was set, or the body is chunked.
Flushed(mode, n) == <<Line, [t |-> "head", n |-> n, mode |-> mode]>>
\* _writeFrame()
Framed(mode, b) == IF mode = "chunked" THEN <<Size(1), b, Crlf>> ELSE <<b>>

\* res.write(): the first one decides the framing.
ResWrite ==
  /\ MayAnswer /\ Len(put) < MaxBody
  /\ LET b == Byte(Len(put) + 1)
     IN /\ put' = Append(put, b)
        /\ IF response.mode = "none"
           THEN \E head \in {Flushed("chunked", 0)} \cup {Flushed("length", n) : n \in 1..MaxBody} :
                  /\ down' = down \o head \o Framed(head[2].mode, b)
                  /\ response' = [response EXCEPT !.mode = head[2].mode, !.left = head[2].n - 1]
           ELSE /\ response.mode = "length" => response.left > 0
                /\ down' = down \o Framed(response.mode, b)
                /\ response' = [response EXCEPT !.left = @ - 1]
  /\ UNCHANGED <<clientVars, up, downFin, server, request, retry, handled, lengths>>

\* What end(body) writes after what write() has written: all of the answer, a last frame
\* and the terminator, or the bytes.
Rest(bytes) ==
  CASE response.mode = "none" -> Flushed("length", Len(bytes)) \o bytes
    [] response.mode = "chunked" ->
         (IF bytes = << >> THEN << >> ELSE <<Size(Len(bytes))>> \o bytes \o <<Crlf>>)
           \o <<Size(0)>>
    [] response.mode = "length" -> bytes

\* _onFinish of a kept connection, or socket.end().
NextWaits == server.buf # << >>
OnFinish ==
  IF response.keepAlive
  THEN /\ server' = [server EXCEPT !.parsing = FALSE, !.reader = NoReader]
       /\ retry' = (retry \/ NextWaits)
       /\ UNCHANGED downFin
  ELSE downFin' = TRUE /\ UNCHANGED <<server, retry>>

\* res.end(); the handler writes as many bytes as it has announced.
ResEnd ==
  /\ MayAnswer
  /\ \E k \in 0..(MaxBody - Len(put)) :
       LET bytes == Bytes(Len(put) + 1, Len(put) + k)
       IN /\ response.mode = "length" => k = response.left
          /\ put' = put \o bytes
          /\ down' = down \o Rest(bytes)
  /\ response' = [response EXCEPT !.ended = TRUE]
  /\ OnFinish
  /\ UNCHANGED <<clientVars, up, request, handled, lengths>>

-----------------------------------------------------------------------------
Script == Start \/ ClientWrite \/ AnswerUsed \/ ForeignSends \/ BurstSends
          \/ RequestUsed \/ ResWrite \/ ResEnd
Program ==
  Ready \/ ClientData \/ ClientEnd \/ AnswerTick \/ ForeignReads
  \/ AfterHandler \/ ServerData \/ Retry \/ RequestTick

\* The network delivers, ticks and immediates run.  Handlers and callers owe nothing,
\* but a caller who announced a body writes it.
HttpSpec ==
  /\ HttpInit /\ [][Script \/ Program]_httpVars
  /\ WF_httpVars(Program) /\ WF_httpVars(ClientWrite)

-----------------------------------------------------------------------------
(* Properties *)

\* The handler is called once per request, in order, never with the bytes of a body or
\* of another request taken for a head.
EachRequestOnce ==
  /\ Len(handled) <= Len(lengths)
  /\ \A i \in 1..Len(handled) : handled[i] = i

\* The bytes of a request reach its handler in order, and 'end' comes once, after them.
RequestArrivesWhole ==
  server.parsing =>
    /\ IsPrefix(request.got \o request.buf, Bytes(1, Body))
    /\ request.ends <= 1
    /\ request.ends = 1 => request.buf = << >> /\ Len(request.got) = Body

\* What a handler is promised of the requests.
RequestsArriveWhole == EachRequestOnce /\ RequestArrivesWhole

\* The client knows the end from Content-Length, or from the terminator.
AnswerOver == handled # << >> /\ (response.ended \/ (response.mode = "length" /\ response.left = 0))

\* The bytes of the answer, in whatever framing the server chose, reach the listeners of
\* the client as a channel, although they may be attached late and pause.
AnswerChannel == INSTANCE Channel WITH
  put <- IF client.kind = "library" THEN put ELSE << >>, got <- answer.got,
  closed <- client.kind = "library" /\ AnswerOver,
  ended <- answer.ends > 0
AnswerIsChannel == AnswerChannel!ChannelSpec
=============================================================================

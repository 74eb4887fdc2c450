----------------------------- MODULE HttpClient -----------------------------
(***************************************************************************)
(* http_client of netutils.ecs: http_request connects, sends a request and *)
(* takes the response apart: interim header blocks, then a body framed by  *)
(* its length, by chunks or by the end of the connection.  Bytes the       *)
(* socket delivered too early wait in `pending`, which read_until_limited  *)
(* and read_exact empty before they read on.                               *)
(*                                                                         *)
(* A response is a sequence of tokens.  CR and LF are tokens of their own, *)
(* so every delimiter can be cut by the network, and a body may hold them  *)
(* too; a status line with its headers is one token, a chunk-size line     *)
(* another.  The server may send a response in any number of pieces and    *)
(* stop anywhere.  One fiber uses the client, for one request after the    *)
(* other.  A read takes what has arrived; AsyncState has the buffer it     *)
(* uses, a new one for every call of async.read_until.                     *)
(***************************************************************************)
EXTENDS Integers, Sequences, FiniteSetsExt

CONSTANTS
  Responses,    \* bound: the responses a server may give, see IsResponse
  Endpoints,    \* number of endpoints the host resolves to
  MaxRequests,  \* bound: requests made with the client
  MaxInterim,   \* 10 in the code
  MaxHeader,    \* http_max_header_size
  MaxLine,      \* http_max_header_line_size
  MaxBody,      \* http_max_body_size
  ReadChunk     \* http_client_read_chunk

CR    == <<"CR", 0>>
LF    == <<"LF", 0>>
X     == <<"x", 0>>
CRLF  == <<CR, LF>>
Blank == <<CR, LF, CR, LF>>
Size(n) == <<"size", n>>
Trailer == <<"trailer", 0>>
Block(f, n) == <<f, n>>       \* a status line and headers with this framing
\* "bodyless" is a 204, a 304 or the answer to HEAD; "invalid" is a block that
\* parse_response_headers refuses, or a 101; "garbled" announces chunks and
\* sends something else
Framings  == {"length", "chunked", "close", "bodyless", "invalid", "garbled"}
TokenType == (Framings \cup {"interim", "size", "trailer", "x", "CR", "LF"}) \X Nat

\* the block that announces r, behind r.interim blocks with a status 1xx
Final(r) ==
  Block(IF r.framing = "garbled" THEN "chunked" ELSE r.framing,
        IF r.framing = "length" THEN Len(r.body) ELSE 0)

\* the tokens lie in the response behind the first m
Lies(tokens, r, m) == \A k \in DOMAIN tokens : r.wire[m + k] = tokens[k]

\* The tokens before the body, and before the size line of chunk c + 1; chunk
\* c is what lies between r.cut[c] and r.cut[c + 1] in the body.
HeadEnd(r)   == 5 * (r.interim + 1)
Mark(r, c)   == HeadEnd(r) + r.cut[c + 1] + 5 * c
Chunks(r)    == Len(r.cut) - 1
ChunkLen(r, c) == r.cut[c + 1] - r.cut[c]

IsChunked(r) ==
  /\ r.cut \in Seq(0 .. Len(r.body)) /\ r.cut # <<>>
  /\ r.cut[1] = 0 /\ r.cut[Len(r.cut)] = Len(r.body)
  /\ \A c \in 1 .. Chunks(r) :
       /\ r.cut[c] < r.cut[c + 1]
       /\ Lies(<<Size(ChunkLen(r, c)), CR, LF>>, r, Mark(r, c - 1))
       /\ \A k \in 1 .. ChunkLen(r, c) : r.wire[Mark(r, c - 1) + 3 + k] = r.body[r.cut[c] + k]
       /\ Lies(CRLF, r, Mark(r, c) - 2)
  /\ Lies(<<Size(0), CR, LF>>, r, Mark(r, Chunks(r)))
  /\ Lies(IF r.trailer THEN <<Trailer, CR, LF, CR, LF>> ELSE CRLF, r, Mark(r, Chunks(r)) + 3)
  /\ Len(r.wire) = Mark(r, Chunks(r)) + (IF r.trailer THEN 8 ELSE 5)

\* A response and the tokens it is sent as.
IsResponse(r) ==
  /\ r.interim \in Nat /\ r.framing \in Framings /\ r.trailer \in BOOLEAN
  /\ r.body \in Seq({X, CR, LF}) /\ r.wire \in Seq(TokenType)
  /\ \A i \in 1 .. r.interim : Lies(<<Block("interim", 0), CR, LF, CR, LF>>, r, 5 * (i - 1))
  /\ Lies(<<Final(r), CR, LF, CR, LF>>, r, 5 * r.interim)
  /\ IF r.framing = "chunked" THEN IsChunked(r)
     ELSE Lies(r.body, r, HeadEnd(r)) /\ Len(r.wire) = HeadEnd(r) + Len(r.body)

ASSUME ClientAssumption ==
  /\ {Endpoints, MaxRequests, MaxInterim} \subseteq Nat
  /\ {MaxHeader, MaxLine, MaxBody, ReadChunk} \subseteq Nat \ {0}
  /\ \A r \in Responses : IsResponse(r)

VARIABLES
  pc,       \* where http_request stands
  left,     \* connect_target: endpoints not tried yet
  sock,     \* its socket: closed, open, or still open because safe_shutdown gave
            \* up once (stuck) or more often (retried)
  resp,     \* the response of the server
  total,    \* how much of it the server sends before it closes
  arrived,  \* how much has arrived
  taken,    \* how much the client has taken from the socket
  pending,  \* bytes taken and not used
  reading,  \* an asynchronous read is awaited
  sbuf,     \* what that read has got
  out,      \* read_exact: what it returns
  need,     \* read_exact: what is missing
  body,     \* the body so far
  interims, \* interim_count
  trailers, \* trailer_size
  result,   \* what the last request returned; why is for the properties
  requests  \* requests made

wire    == <<resp, total, arrived>>
reader  == <<taken, pending, reading, sbuf, out, need, body, interims, trailers>>
vars    == <<pc, left, sock, wire, reader, result, requests>>

NoResult == [ok |-> FALSE, body |-> <<>>, why |-> "none"]

Init ==
  /\ pc = "idle" /\ left = 0 /\ sock = "closed"
  /\ resp \in Responses /\ total = 0 /\ arrived = 0
  /\ taken = 0 /\ pending = <<>> /\ reading = FALSE /\ sbuf = <<>>
  /\ out = <<>> /\ need = 0 /\ body = <<>> /\ interims = 0 /\ trailers = 0
  /\ result = NoResult /\ requests = 0

(***************************************************************************)
(* The server and the network.                                             *)
(***************************************************************************)
Arrive ==
  /\ pc \notin {"idle", "connect", "connecting", "secure", "send"}
  /\ \E n \in arrived + 1 .. total : arrived' = n
  /\ UNCHANGED <<pc, left, sock, resp, total, reader, result, requests>>

(***************************************************************************)
(* Returns of http_request: close() and null, or the response.             *)
(***************************************************************************)
\* close(): safe_shutdown closes the socket, or returns false and leaves it as
\* it is, with its operations pending; nobody looks at what it returns.
CloseSocket ==
  \/ sock' = "closed"
  \/ sock = "open" /\ sock' = "stuck"
  \/ sock \in {"stuck", "retried"} /\ sock' = "retried"

Return(res) ==
  /\ pc' = "idle" /\ result' = res
  /\ CloseSocket
  /\ UNCHANGED <<left, wire, requests>>

Fail(why) == Return([ok |-> FALSE, body |-> <<>>, why |-> why])

Succeed(b) == Return([ok |-> TRUE, body |-> b, why |-> "none"])

Goto(label) ==
  pc' = label /\ UNCHANGED <<left, sock, wire, result, requests>>

(***************************************************************************)
(* connect_target and the request.  A URL or a header that is refused      *)
(* changes nothing.  safe_shutdown is atomic here; SafeShutdown has it.    *)
(***************************************************************************)
\* Mutant: the socket of the last request is not looked at.
RequestNoClose ==
  /\ pc = "idle" /\ requests < MaxRequests
  /\ requests' = requests + 1 /\ left' = Endpoints /\ pc' = "connect"
  /\ resp' \in Responses /\ total' \in 0 .. Len(resp'.wire) /\ arrived' = 0
  /\ taken' = 0 /\ pending' = <<>> /\ reading' = FALSE /\ sbuf' = <<>> /\ out' = <<>>
  /\ need' = 0 /\ body' = <<>> /\ interims' = 0 /\ trailers' = 0
  /\ result' = NoResult
  /\ UNCHANGED sock

\* Mutant: what the last response left is not thrown away.
RequestKeepsPending ==
  /\ pc = "idle" /\ requests < MaxRequests
  /\ requests' = requests + 1 /\ left' = Endpoints /\ pc' = "connect"
  /\ resp' \in Responses /\ total' \in 0 .. Len(resp'.wire) /\ arrived' = 0
  /\ taken' = 0 /\ reading' = FALSE /\ sbuf' = <<>> /\ out' = <<>>
  /\ need' = 0 /\ body' = <<>> /\ interims' = 0 /\ trailers' = 0
  /\ result' = NoResult
  /\ CloseSocket /\ UNCHANGED pending

\* connect_target first closes what the last request left.
Request ==
  /\ pc = "idle" /\ requests < MaxRequests
  /\ requests' = requests + 1 /\ left' = Endpoints /\ pc' = "connect"
  /\ resp' \in Responses /\ total' \in 0 .. Len(resp'.wire) /\ arrived' = 0
  /\ taken' = 0 /\ pending' = <<>> /\ reading' = FALSE /\ sbuf' = <<>> /\ out' = <<>>
  /\ need' = 0 /\ body' = <<>> /\ interims' = 0 /\ trailers' = 0
  /\ result' = NoResult
  /\ CloseSocket

\* tcp.resolve threw: the socket of the last request is closed once more.
ResolveFails ==
  /\ pc = "connect" /\ left = Endpoints
  /\ Fail("connect")
  /\ UNCHANGED reader

TryEndpoint ==
  /\ pc = "connect" /\ left > 0
  /\ left' = left - 1 /\ sock' = "open" /\ pc' = "connecting"
  /\ UNCHANGED <<wire, reader, result, requests>>

Unreachable ==
  /\ pc = "connect" /\ left = 0
  /\ pc' = "idle" /\ result' = [NoResult EXCEPT !.why = "connect"]
  /\ UNCHANGED <<left, sock, wire, reader, requests>>

ConnectOk ==
  /\ pc = "connecting"
  /\ Goto("secure")
  /\ UNCHANGED reader

ConnectFails ==     \* refused, timed out, or async.connect threw
  /\ pc = "connecting" /\ pc' = "connect" /\ CloseSocket
  /\ UNCHANGED <<left, wire, reader, result, requests>>

SecureOk ==         \* TLS handshake if the scheme is https, then the option
  /\ pc = "secure"
  /\ Goto("send")
  /\ UNCHANGED reader

SecureFails ==
  /\ pc = "secure"
  /\ Fail("connect")
  /\ UNCHANGED reader

CloseCalled ==      \* close() by the user of the client
  /\ pc = "idle" /\ sock # "closed"
  /\ CloseSocket
  /\ UNCHANGED <<pc, left, wire, reader, result, requests>>

SendOk ==
  /\ pc = "send"
  /\ Goto("head")
  /\ UNCHANGED reader

SendFails ==
  /\ pc = "send"
  /\ Fail("write")
  /\ UNCHANGED reader

(***************************************************************************)
(* read_until_limited.                                                     *)
(***************************************************************************)
Delim == IF pc = "head" THEN Blank ELSE CRLF
Limit == IF pc = "head" THEN MaxHeader ELSE MaxLine
Lines == {"head", "size", "trailer"}       \* where it is called

\* positions at which an occurrence of d ends in s
FoundEnds(s, d) ==
  {i \in Len(d) .. Len(s) : \A k \in DOMAIN d : s[i - Len(d) + k] = d[k]}
Found(s, d)    == FoundEnds(s, d) # {}
LineEnd(s, d)  == Min(FoundEnds(s, d))
Rest(s, n)     == SubSeq(s, n + 1, Len(s))

StartReadUntil ==
  /\ pc \in Lines /\ ~reading /\ ~Found(pending, Delim)
  /\ reading' = TRUE /\ sbuf' = <<>>
  /\ UNCHANGED <<pc, left, sock, wire, taken, pending, out, need, body, interims, trailers,
                 result, requests>>

\* Mutant: get_result only; what came behind the delimiter is dropped.
UntilReceivesFrame ==
  LET got == sbuf \o SubSeq(resp.wire, taken + 1, arrived) IN
  /\ pc \in Lines /\ reading /\ arrived > taken
  /\ taken' = arrived
  /\ IF ~Found(got, Delim)
     THEN sbuf' = got /\ Goto(pc) /\ UNCHANGED <<pending, reading>>
     ELSE /\ pending' = pending \o SubSeq(got, 1, LineEnd(got, Delim))
          /\ reading' = FALSE /\ sbuf' = <<>>
          /\ IF Len(pending') > Limit THEN Fail("limit") ELSE Goto(pc)
  /\ UNCHANGED <<out, need, body, interims, trailers>>

\* The operation ends once the bytes it has read itself hold the delimiter;
\* the frame (get_result) and what is behind it (get_buffer) go to pending.
UntilReceives ==
  LET got == sbuf \o SubSeq(resp.wire, taken + 1, arrived) IN
  /\ pc \in Lines /\ reading /\ arrived > taken
  /\ taken' = arrived
  /\ IF ~Found(got, Delim)
     THEN sbuf' = got /\ Goto(pc) /\ UNCHANGED <<pending, reading>>
     ELSE /\ pending' = pending \o got /\ reading' = FALSE /\ sbuf' = <<>>
          /\ IF Len(pending') > Limit THEN Fail("limit") ELSE Goto(pc)
  /\ UNCHANGED <<out, need, body, interims, trailers>>

\* end of the connection (all that came was taken), an error or the deadline
ReadEnds(why) ==
  /\ reading /\ reading' = FALSE
  /\ \/ why = "eof" /\ taken = total
     \/ why = "error"

UntilFails ==
  \E why \in {"eof", "error"} :
    /\ pc \in Lines /\ ReadEnds(why)
    /\ Fail(why)
    /\ UNCHANGED <<taken, pending, sbuf, out, need, body, interims, trailers>>

\* what the caller gets
Line    == SubSeq(pending, 1, LineEnd(pending, Delim))
Content == SubSeq(Line, 1, Len(Line) - Len(Delim))
GetsLine(label) ==
  /\ pc = label /\ ~reading /\ Found(pending, Delim) /\ Len(Line) <= Limit
  /\ pending' = Rest(pending, Len(Line))
  /\ UNCHANGED <<taken, reading, sbuf, out>>

\* the delimiter is there, but too far
LineTooLong ==
  /\ pc \in Lines /\ ~reading /\ Found(pending, Delim) /\ Len(Line) > Limit
  /\ Fail("limit")
  /\ UNCHANGED reader

(***************************************************************************)
(* The header blocks: parse_response_headers and the loop over 1xx.        *)
(***************************************************************************)
\* the framing of the block, "invalid" for what the parser refuses
Parsed == IF Len(Content) = 1 THEN Content[1] ELSE Block("invalid", 0)

HeaderInterim ==
  /\ GetsLine("head") /\ Parsed[1] = "interim"
  /\ interims' = interims + 1
  /\ IF interims + 1 > MaxInterim THEN Fail("interim") ELSE Goto("head")
  /\ UNCHANGED <<need, body, trailers>>

HeaderRefused ==
  /\ GetsLine("head")
  /\ \/ Parsed[1] \notin {"interim", "length", "chunked", "close", "bodyless"}
     \/ Parsed[1] = "length" /\ Parsed[2] > MaxBody
  /\ Fail("invalid")
  /\ UNCHANGED <<need, body, interims, trailers>>

HeaderNoBody ==
  /\ GetsLine("head")
  /\ Parsed[1] = "bodyless" \/ Parsed = Block("length", 0)
  /\ Succeed(<<>>)
  /\ UNCHANGED <<need, body, interims, trailers>>

HeaderLength ==
  /\ GetsLine("head") /\ Parsed[1] = "length" /\ Parsed[2] \in 1 .. MaxBody
  /\ need' = Parsed[2]
  /\ Goto("exact_body")
  /\ UNCHANGED <<body, interims, trailers>>

HeaderChunked ==
  /\ GetsLine("head") /\ Parsed[1] = "chunked"
  /\ Goto("size")
  /\ UNCHANGED <<need, body, interims, trailers>>

HeaderClose ==      \* the body starts with what is pending
  /\ pc = "head" /\ ~reading /\ Found(pending, Delim) /\ Len(Line) <= Limit
  /\ Parsed[1] = "close"
  /\ body' = Rest(pending, Len(Line)) /\ pending' = <<>>
  /\ Goto("rest")
  /\ UNCHANGED <<taken, reading, sbuf, out, need, interims, trailers>>

(***************************************************************************)
(* read_exact, for a body, a chunk or the two bytes behind a chunk.        *)
(***************************************************************************)
Exacts == {"exact_body", "exact_chunk", "exact_end"}

TakePending ==
  LET n == Min({need, Len(pending)}) IN
  /\ pc \in Exacts /\ ~reading /\ need > 0 /\ pending # <<>>
  /\ out' = out \o SubSeq(pending, 1, n) /\ pending' = Rest(pending, n)
  /\ need' = need - n
  /\ Goto(pc)
  /\ UNCHANGED <<taken, reading, sbuf, body, interims, trailers>>

StartRead ==
  /\ \/ pc \in Exacts /\ need > 0 /\ pending = <<>>
     \/ pc = "rest"
  /\ ~reading /\ reading' = TRUE /\ sbuf' = <<>>
  /\ Goto(pc)
  /\ UNCHANGED <<taken, pending, out, need, body, interims, trailers>>

\* The size asked for.
Step == IF pc = "rest" THEN ReadChunk ELSE Min({need, ReadChunk})

\* async.read ends when it has all of it
ReadReceives ==
  LET n   == Min({arrived - taken, Step - Len(sbuf)})
      got == sbuf \o SubSeq(resp.wire, taken + 1, taken + n) IN
  /\ pc \in Exacts \cup {"rest"} /\ reading /\ n > 0
  /\ taken' = taken + n
  /\ IF Len(got) < Step
     THEN sbuf' = got /\ Goto(pc) /\ UNCHANGED <<reading, out, need, body>>
     ELSE /\ reading' = FALSE /\ sbuf' = <<>>
          /\ IF pc = "rest"
             THEN /\ UNCHANGED <<out, need>>
                  /\ IF Len(body) > MaxBody - Len(got)
                     THEN Fail("limit") /\ UNCHANGED body
                     ELSE Goto(pc) /\ body' = body \o got
             ELSE /\ out' = out \o got /\ need' = need - Len(got)
                  /\ Goto(pc) /\ UNCHANGED body
  /\ UNCHANGED <<pending, interims, trailers>>

ExactFails ==
  \E why \in {"eof", "error"} :
    /\ pc \in Exacts /\ ReadEnds(why)
    /\ Fail(why)
    /\ UNCHANGED <<taken, pending, sbuf, out, need, body, interims, trailers>>

\* The end of a body without a length: what came before it is kept.  At the
\* deadline has_done() decides, and it may have become true by then.
RestEnds ==
  \E why \in {"eof", "error"} :
    /\ pc = "rest" /\ ReadEnds(why)
    /\ \E got \in {sbuf} \cup (IF why = "error" THEN {<<>>} ELSE {}) :
         body' = body \o got /\ Succeed(body \o got)
    /\ UNCHANGED <<taken, pending, sbuf, out, need, interims, trailers>>

ExactBody ==
  /\ pc = "exact_body" /\ need = 0
  /\ Succeed(out)
  /\ UNCHANGED reader

(***************************************************************************)
(* read_chunked_body.                                                      *)
(***************************************************************************)
SizeLine ==
  /\ GetsLine("size") /\ Len(Content) = 1 /\ Content[1][1] = "size"
  /\ IF Content[1][2] = 0
     THEN need' = 0 /\ Goto("trailer")
     ELSE IF Content[1][2] > MaxBody - Len(body)
     THEN need' = 0 /\ Fail("limit")
     ELSE need' = Content[1][2] /\ Goto("exact_chunk")
  /\ UNCHANGED <<body, interims, trailers>>

SizeInvalid ==
  /\ GetsLine("size") /\ ~(Len(Content) = 1 /\ Content[1][1] = "size")
  /\ Fail("invalid")
  /\ UNCHANGED <<need, body, interims, trailers>>

ExactChunk ==
  /\ pc = "exact_chunk" /\ need = 0
  /\ body' = body \o out /\ out' = <<>> /\ need' = Len(CRLF)
  /\ Goto("exact_end")
  /\ UNCHANGED <<taken, pending, reading, sbuf, interims, trailers>>

ExactEnd ==
  /\ pc = "exact_end" /\ need = 0
  /\ out' = <<>>
  /\ IF out = CRLF THEN Goto("size") ELSE Fail("invalid")
  /\ UNCHANGED <<taken, pending, reading, sbuf, need, body, interims, trailers>>

TrailerLine ==
  /\ GetsLine("trailer")
  /\ trailers' = trailers + Len(Line)
  /\ IF trailers' > MaxHeader THEN Fail("limit")
     ELSE IF Content = <<>> THEN Succeed(body) ELSE Goto("trailer")
  /\ UNCHANGED <<need, body, interims>>

Next ==
  \/ Arrive
  \/ Request \/ CloseCalled \/ ResolveFails \/ TryEndpoint \/ Unreachable \/ ConnectOk \/ ConnectFails
  \/ SecureOk \/ SecureFails \/ SendOk \/ SendFails
  \/ StartReadUntil \/ UntilReceives \/ UntilFails \/ LineTooLong
  \/ HeaderInterim \/ HeaderRefused \/ HeaderNoBody \/ HeaderLength
  \/ HeaderChunked \/ HeaderClose
  \/ TakePending \/ StartRead \/ ReadReceives \/ ExactFails \/ RestEnds \/ ExactBody
  \/ SizeLine \/ SizeInvalid \/ ExactChunk \/ ExactEnd \/ TrailerLine

Spec == Init /\ [][Next]_vars

-----------------------------------------------------------------------------
\* A body that http_request returns is the body the server sent, however the
\* network cut the response, whatever the body looks like, and whatever an
\* earlier request of the same client left behind (netutils.ecs:1385-1637).  A
\* body without a length may be cut short by the end of the connection.
BodyExact ==
  result.ok =>
    CASE resp.framing \in {"length", "chunked"} -> result.body = resp.body
      [] resp.framing = "close"    ->
             \E n \in 0 .. Len(resp.body) : result.body = SubSeq(resp.body, 1, n)
      [] resp.framing = "bodyless" -> result.body = <<>>
      [] OTHER                     -> FALSE

\* pending ends inside an occurrence of the delimiter that is being looked for
CutDelimiter ==
  \E d \in {CRLF, Blank} : \E n \in 1 .. Len(d) - 1 :
    n <= Len(pending) /\ Rest(pending, Len(pending) - n) = SubSeq(d, 1, n)

\* A response that the server sent whole, and as it announced it, is not given
\* up for the end of the connection, except in the one case where a delimiter
\* is cut between pending and the next read: that read looks for the delimiter
\* in its own bytes only (netutils.ecs:1398) and takes its end for the end of
\* the response.
CompleteReturned ==
  result.why = "eof" /\ total = Len(resp.wire) /\ resp.framing # "garbled" => CutDelimiter

\* Every socket goes through safe_shutdown before the request returns or the
\* next endpoint is tried, whichever endpoint, handshake, write or read failed;
\* one that safe_shutdown gave up at the end of a request is not forgotten, but
\* shut down again before the next request replaces it (netutils.ecs:1295-1299,
\* 1333-1383, 1669-1747).  Within a request the sockets of failed attempts get
\* the one try.
SocketsReleased ==
  /\ pc \in {"idle", "connect"} => sock # "open"
  /\ pc = "connect" /\ left = Endpoints => sock # "stuck"

=============================================================================

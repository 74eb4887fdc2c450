----------------------------- MODULE HttpServer -----------------------------
(***************************************************************************)
(* The single-process HTTP server of netutils.ecs: simple_worker accepts a *)
(* connection and serves its requests one after the other, read_http_header*)
(* cuts them out of the byte stream, call_http_handler answers them, static*)
(* files through the cache of FileCache, which this module composes.       *)
(*                                                                         *)
(* Workers share only the cache, so one worker is here in full and of the  *)
(* other fibers the calls of read_file; the client, the network, the       *)
(* deadline and whoever rewrites a file or calls stop() run beside them.   *)
(* A token of the stream is a line with its CRLF or a byte of a body; a    *)
(* body may hold something that looks like a line.  Where the network cuts *)
(* a line matters to async.read_until alone, see AsyncState.  Handlers are *)
(* the server's own and bound functions that send one response or none,    *)
(* may close the socket, and do not throw.                                 *)
(***************************************************************************)
EXTENDS FileCache

CONSTANTS
  Worker,        \* the fiber that is here in full
  Clients,       \* bound: what a client may send, see IsClient
  MaxConns,      \* bound: connections accepted
  MaxKeepAlive,  \* max_keep_alive
  MaxBodySize,   \* max_body_size
  MaxHeaderSize  \* http_max_header_size in tokens; a line that is too long is
                 \* refused in the same way

\* A request: number of header lines, body, whether the parser refuses it
\* (transfer-encoding, a second or a bad content-length), its connection
\* header, and what its URL leads to: a path, a function, or nothing.
RequestType ==
  [headers : Nat, body : Seq({"byte", "line"}), bad : BOOLEAN, close : BOOLEAN,
   target : Paths \cup {"function", "missing"}]

TokenType == {"request", "header", "empty", "byte", "line"} \X Nat

Size(r) == r.headers + 2 + Len(r.body)

\* the j-th token of r, the i-th request of its connection
Token(r, i, j) ==
  << CASE j = 1                    -> "request"
       [] j \in 2 .. r.headers + 1 -> "header"
       [] j = r.headers + 2        -> "empty"
       [] OTHER                    -> r.body[j - r.headers - 2], i >>

\* What a client sends on a connection: requests, the number of tokens before
\* each of them (and behind the last), and the tokens: one request after the
\* other.
IsClient(c) ==
  /\ c.reqs \in Seq(RequestType) /\ c.at \in Seq(Nat) /\ Len(c.at) = Len(c.reqs) + 1
  /\ c.stream \in Seq(TokenType) /\ c.at[1] = 0
  /\ \A i \in DOMAIN c.reqs :
       /\ c.at[i + 1] = c.at[i] + Size(c.reqs[i])
       /\ \A j \in 1 .. Size(c.reqs[i]) : c.stream[c.at[i] + j] = Token(c.reqs[i], i, j)
  /\ Len(c.stream) = c.at[Len(c.at)]

ASSUME ServerAssumption ==
  /\ Worker \in Fibers /\ MaxConns \in Nat /\ MaxKeepAlive \in Nat \ {0}
  /\ MaxBodySize \in Nat \ {0} /\ MaxHeaderSize \in Nat \ {0}
  /\ \A c \in Clients : IsClient(c)

NoClient == [reqs |-> <<>>, at |-> <<0>>, stream |-> <<>>]

VARIABLES
  wpc,       \* where the worker stands
  client,    \* what the client of this connection sends
  arrived,   \* tokens that have arrived
  taken,     \* tokens taken from the socket
  hungup,    \* the client has closed its side
  rbuf,      \* read_state's buffer
  header,    \* the lines of the header, as tokens
  post,      \* post_data
  now,       \* number of the request being served
  closing,   \* session.connection = "close"
  force,     \* force_close
  ok,        \* handler_ok
  handled,   \* requests given to a handler, with their bodies
  wrote,     \* responses written
  conns,     \* connections accepted
  stopped

conn  == <<client, arrived, taken, hungup, rbuf>>
files == vars
sess  == <<header, post, now, closing, force, ok>>
logs  == <<handled, wrote>>
svars == <<wpc, conn, sess, logs, conns, stopped, files>>

ServerInit ==
  /\ Init
  /\ wpc = "accept" /\ client = NoClient /\ arrived = 0 /\ taken = 0 /\ hungup = FALSE
  /\ rbuf = <<>> /\ header = <<>> /\ post = <<>> /\ now = 0 /\ closing = FALSE
  /\ force = FALSE /\ ok = TRUE /\ handled = <<>> /\ wrote = <<>> /\ conns = 0
  /\ stopped = FALSE

(***************************************************************************)
(* The client and the network.                                             *)
(***************************************************************************)
Connected == wpc \notin {"accept", "gone"}

Arrive ==
  /\ Connected /\ ~hungup
  /\ \E n \in arrived + 1 .. Len(client.stream) : arrived' = n
  /\ UNCHANGED <<wpc, client, taken, hungup, rbuf, sess, logs, conns, stopped, files>>

HangUp ==
  /\ Connected /\ ~hungup /\ hungup' = TRUE
  /\ UNCHANGED <<wpc, client, arrived, taken, rbuf, sess, logs, conns, stopped, files>>

Rewritten ==
  /\ \E p \in Paths : Rewrite(p)
  /\ UNCHANGED <<wpc, conn, sess, logs, conns, stopped>>

(* The other workers serve files out of the same cache.                    *)
OthersServe ==
  /\ \E f \in Fibers \ {Worker} :
       \/ \E p \in Paths : Hit(f, p) \/ Miss(f, p)
       \/ ReadFile(f) \/ Served(f)
  /\ UNCHANGED <<wpc, conn, sess, logs, conns, stopped>>

(***************************************************************************)
(* simple_worker: the two loops.                                           *)
(***************************************************************************)
\* a socket, a read_state and a request_count of their own for this client
NewConnection(c) ==
  /\ client' = c /\ arrived' = 0 /\ taken' = 0 /\ hungup' = FALSE
  /\ rbuf' = <<>> /\ header' = <<>> /\ post' = <<>> /\ now' = 0
  /\ closing' = FALSE /\ force' = FALSE /\ ok' = TRUE
  /\ handled' = <<>> /\ wrote' = <<>>

Accept ==
  /\ wpc = "accept" /\ ~stopped /\ conns < MaxConns
  /\ conns' = conns + 1 /\ wpc' = "top"
  /\ \E c \in Clients : NewConnection(c)
  /\ UNCHANGED <<stopped, files>>

Goto(label) == wpc' = label /\ UNCHANGED <<conns, stopped>>

NextRequest ==      \* read_http_header is called
  /\ wpc = "top" /\ ~stopped
  /\ header' = <<>> /\ post' = <<>>
  /\ Goto("line")
  /\ UNCHANGED <<conn, now, closing, force, ok, logs, files>>

StopSeen ==
  /\ stopped
  /\ \/ wpc = "top" /\ Goto("shutdown")
     \/ wpc = "accept" /\ Goto("gone")     \* the acceptor is gone
  /\ UNCHANGED <<conn, sess, logs, files>>

Shutdown ==         \* the variables of the connection go with it
  /\ wpc = "shutdown"
  /\ Goto("accept") /\ NewConnection(NoClient)
  /\ UNCHANGED files

(***************************************************************************)
(* read_http_header.                                                       *)
(***************************************************************************)
IsLine(t)  == t[1] # "byte"
HasLine    == \E k \in DOMAIN rbuf : IsLine(rbuf[k])
LineLen    == CHOOSE k \in DOMAIN rbuf : IsLine(rbuf[k]) /\ \A m \in 1..k - 1 : ~IsLine(rbuf[m])
RawLine    == SubSeq(rbuf, 1, LineLen)
HeaderSize  == Len(header) + LineLen     \* with the line just read
After(s, n) == SubSeq(s, n + 1, Len(s))

\* a response of the worker; after one of compose_response it gives up
Write(code, close) ==
  wrote' = Append(wrote, [req |-> now, code |-> code, close |-> close])

SendError(code) ==
  /\ Write(code, TRUE)
  /\ Goto("error_wait")
  /\ UNCHANGED <<arrived, client, hungup, closing, force, ok, now, handled, files>>

\* async.read_until: more of the stream into the buffer
LineReceives ==
  /\ wpc = "line" /\ ~HasLine /\ arrived > taken
  /\ rbuf' = rbuf \o SubSeq(client.stream, taken + 1, arrived) /\ taken' = arrived
  /\ UNCHANGED <<wpc, client, arrived, hungup, sess, logs, conns, stopped, files>>

TakeLine == wpc = "line" /\ HasLine /\ rbuf' = After(rbuf, LineLen) /\ UNCHANGED taken

LineTooLong ==
  /\ TakeLine /\ HeaderSize > MaxHeaderSize
  /\ SendError("431")
  /\ UNCHANGED <<header, post>>

HeaderLine ==
  /\ TakeLine /\ HeaderSize <= MaxHeaderSize
  /\ RawLine[1][1] # "empty"
  /\ header' = header \o RawLine
  /\ Goto("line")
  /\ UNCHANGED <<client, arrived, hungup, post, now, closing, force, ok, logs, files>>

HeaderEnds == TakeLine /\ RawLine[1][1] = "empty" /\ HeaderSize <= MaxHeaderSize

\* create_http_session: the request the lines are, if they are one
Parses   == header # <<>> /\ header[1][1] = "request" /\ ~client.reqs[header[1][2]].bad
Parsed   == client.reqs[header[1][2]]

BadRequest ==       \* no line at all, or refused
  /\ HeaderEnds /\ ~Parses
  /\ SendError("400")
  /\ UNCHANGED <<header, post>>

TooLarge ==
  /\ HeaderEnds /\ Parses /\ Len(Parsed.body) > MaxBodySize
  /\ SendError("413")
  /\ UNCHANGED <<header, post>>

\* Mutant: the body is read from the socket although part of it is buffered.
SessionNoBuffer ==
  /\ wpc = "line" /\ HasLine /\ RawLine[1][1] = "empty"
  /\ HeaderSize <= MaxHeaderSize
  /\ Parses /\ Len(Parsed.body) <= MaxBodySize
  /\ now' = header[1][2] /\ closing' = Parsed.close
  /\ post' = <<>> /\ rbuf' = After(rbuf, LineLen)
  /\ Goto("body")
  /\ UNCHANGED <<client, arrived, taken, hungup, header, force, ok, logs, files>>

\* get_buffer(content_length) takes what came with the header
Session ==
  LET rest == After(rbuf, LineLen)
      n    == IF Len(Parsed.body) < Len(rest) THEN Len(Parsed.body) ELSE Len(rest) IN
  /\ wpc = "line" /\ HasLine /\ RawLine[1][1] = "empty"
  /\ HeaderSize <= MaxHeaderSize
  /\ Parses /\ Len(Parsed.body) <= MaxBodySize
  /\ now' = header[1][2] /\ closing' = Parsed.close
  /\ post' = SubSeq(rest, 1, n) /\ rbuf' = After(rest, n)
  /\ Goto("body")
  /\ UNCHANGED <<client, arrived, taken, hungup, header, force, ok, logs, files>>

Remaining == Len(client.reqs[now].body) - Len(post)

\* async.read(remaining): the state it returns replaces the drained one
BodyReceives ==
  LET n == IF arrived - taken < Remaining THEN arrived - taken ELSE Remaining IN
  /\ wpc = "body" /\ n > 0
  /\ post' = post \o SubSeq(client.stream, taken + 1, taken + n) /\ taken' = taken + n
  /\ UNCHANGED <<wpc, client, arrived, hungup, rbuf, header, now, closing, force, ok,
                 logs, conns, stopped, files>>

Reading == wpc = "line" \/ (wpc = "body" /\ Remaining > 0)

\* Mutant: reads have no deadline.
ReadFailsOnError ==
  /\ Reading /\ hungup
  /\ SendError("500")
  /\ UNCHANGED <<taken, rbuf, header, post>>

\* The deadline, which is looked at before each read as well, or a read error.
\* At the deadline has_done() may just have become true: a 500 again.
ReadFails ==
  /\ Reading
  /\ \E code \in {"408", "500"} : SendError(code)
  /\ UNCHANGED <<taken, rbuf, header, post>>

EndOfFile ==
  /\ Reading /\ ~(wpc = "line" /\ HasLine) /\ hungup /\ taken = arrived
  /\ Goto("shutdown")
  /\ UNCHANGED <<conn, sess, logs, files>>

ErrorSent ==        \* or the write failed: the answer of wait() is not used
  /\ wpc = "error_wait"
  /\ Goto("shutdown")
  /\ UNCHANGED <<conn, sess, logs, files>>

(***************************************************************************)
(* The request goes to its handler.                                        *)
(***************************************************************************)
BodyThere == wpc = "body" /\ Remaining = 0

Enter ==
  LET last == Len(handled) + 1 >= MaxKeepAlive IN
  /\ BodyThere
  /\ handled' = Append(handled, <<now, post>>)
  /\ force' = last /\ closing' = (closing \/ last)
  /\ UNCHANGED <<conn, header, post, now, wrote>>

\* a bound function: may set session.connection, may not answer at all
CallFunction ==
  /\ Enter /\ client.reqs[now].target = "function" /\ ok' = TRUE
  /\ Goto("function")
  /\ UNCHANGED files

FunctionAnswers ==
  /\ wpc = "function" /\ closing' \in BOOLEAN
  /\ Write("200", closing')
  /\ Goto("write_wait")
  /\ UNCHANGED <<conn, header, post, now, force, ok, handled, files>>

FunctionSilent ==
  /\ wpc = "function"
  /\ Goto("decide")
  /\ UNCHANGED <<conn, sess, logs, files>>

\* nothing there: compose a closing response, or serve the page of the code
NotFound ==
  /\ Enter /\ client.reqs[now].target = "missing" /\ ok' = FALSE
  /\ Goto("missing")
  /\ UNCHANGED files

NotFoundAnswers ==
  /\ wpc = "missing" /\ closing' \in {closing, TRUE}
  /\ Write("404", closing')
  /\ Goto("write_wait")
  /\ UNCHANGED <<conn, header, post, now, force, ok, handled, files>>

\* a static file: server.read_file
CallReadFile ==
  /\ Enter /\ client.reqs[now].target \in Paths /\ ok' = TRUE
  /\ Hit(Worker, client.reqs[now].target) \/ Miss(Worker, client.reqs[now].target)
  /\ Goto("file")

ReadFileStep ==
  /\ wpc = "file" /\ ReadFile(Worker)
  /\ UNCHANGED <<wpc, conn, sess, logs, conns, stopped>>

FileAnswers ==
  /\ wpc = "file" /\ Served(Worker)
  /\ Write("200", closing)
  /\ Goto("write_wait")
  /\ UNCHANGED <<conn, sess, handled>>

WriteOk ==
  /\ wpc = "write_wait"
  /\ Goto("decide")
  /\ UNCHANGED <<conn, sess, logs, files>>

WriteFails ==
  /\ wpc = "write_wait"
  /\ Goto("shutdown")
  /\ UNCHANGED <<conn, sess, logs, files>>

\* Mutant: the answer of the handler is not looked at.
DecideAnyway ==
  /\ wpc = "decide"
  /\ Goto("top")
  /\ UNCHANGED <<conn, sess, logs, files>>

Decide ==
  /\ wpc = "decide"
  /\ \/ Goto(IF ~ok \/ force \/ closing THEN "shutdown" ELSE "top")
     \/ client.reqs[now].target = "function" /\ Goto("shutdown")   \* it closed the socket
  /\ UNCHANGED <<conn, sess, logs, files>>

(***************************************************************************)
(* stop(): the flag, one more timeslice for the worker, and its fiber is   *)
(* dropped wherever it stands.                                             *)
(***************************************************************************)
Stop ==
  /\ ~stopped /\ stopped' = TRUE
  /\ UNCHANGED <<wpc, conn, sess, logs, conns, files>>

Dropped ==
  /\ stopped /\ wpc # "gone"
  /\ Goto("gone") /\ NewConnection(NoClient)
  /\ UNCHANGED files

Read  == LineReceives \/ LineTooLong \/ HeaderLine \/ BadRequest \/ TooLarge
         \/ Session \/ BodyReceives \/ EndOfFile
Serve == CallFunction \/ FunctionAnswers \/ FunctionSilent \/ NotFound \/ NotFoundAnswers
         \/ CallReadFile \/ ReadFileStep \/ FileAnswers \/ WriteOk \/ WriteFails \/ Decide

WorkerNext ==
  NextRequest \/ StopSeen \/ Shutdown \/ Read \/ ReadFails \/ ErrorSent \/ Serve

ServerNext ==
  Accept \/ Arrive \/ HangUp \/ Rewritten \/ OthersServe \/ Stop \/ Dropped \/ WorkerNext

ServerSpec == ServerInit /\ [][ServerNext]_svars

\* The fiber is resumed and deadlines pass.  Of writes, which have none
\* (netutils.ecs:707), it is assumed that they end, because the client reads or
\* the connection breaks.
FairServerSpec == ServerSpec /\ WF_svars(WorkerNext)

-----------------------------------------------------------------------------
Sent(i) == <<i, [j \in DOMAIN client.reqs[i].body |-> <<client.reqs[i].body[j], i>>]>>

\* The handlers of a connection see its requests, in order, each once and with
\* its whole body, however the stream was cut and whatever a body looks like
\* (netutils.ecs:458-560): keep-alive framing never slips.
RequestsExact ==
  handled = [i \in DOMAIN handled |-> Sent(i)] /\ Len(handled) <= MaxKeepAlive

\* The responses of a connection (netutils.ecs:682-718): in the order of the
\* requests, and nothing after one that announced the end.
ResponsesExact ==
  /\ \A k \in DOMAIN wrote : k < Len(wrote) => ~wrote[k].close
  /\ \A j, k \in DOMAIN wrote : j < k => wrote[j].req <= wrote[k].req
  /\ \A k \in DOMAIN wrote : wrote[k].code \in {"200", "404"} =>
       \A j \in DOMAIN wrote : j # k /\ wrote[j].req = wrote[k].req =>
         j > k /\ wrote[j].code \notin {"200", "404"}

\* A connection does not keep the worker: however little its client sends, the
\* read deadlines bring the worker back to accept, or it ends with the server
\* (netutils.ecs:458-560, 688-722); once it writes, that takes a client that
\* reads, see FairServerSpec.
WorkerReturns == wpc \notin {"accept", "gone"} ~> wpc \in {"accept", "gone"}

=============================================================================

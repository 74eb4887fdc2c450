-------------------------- MODULE HttpServerProofs --------------------------
(***************************************************************************)
(* The single-process server, for every set of clients, any limits and any *)
(* files: the file cache on its own, the server as a user of it, and the   *)
(* requests and responses of a connection.                                 *)
(***************************************************************************)
EXTENDS HttpServer, TLAPS

(***************************************************************************)
(* The file cache, for any number of fibers.                               *)
(***************************************************************************)
(* All of the chunks are of version v.                                     *)
AllOf(s, v) == \A i \in 1 .. Len(s) : s[i] = v

(* What a fiber is reading.                                                *)
CallInv(f) == pc[f] = "reading" => path[f] \in Paths /\ Len(data[f]) <= Chunks

(* As long as nothing disturbed the entry and the recorded time is the     *)
(* file's, whoever reads the file has read the present version only, and   *)
(* when nobody does, the entry is the whole of it.                         *)
EntryInv(p) ==
  p \notin spoilt /\ mtime_map[p] = mtime[p] =>
    /\ \A f \in Fibers : Reads(f, p) => AllOf(data[f], file[p])
    /\ (\A f \in Fibers : ~Reads(f, p)) /\ p \in DOMAIN content_map =>
         /\ content_map[p] \in Seq(Versions) /\ Len(content_map[p]) = Chunks
         /\ AllOf(content_map[p], file[p])

CacheTypes ==
  /\ file \in [Paths -> Versions] /\ mtime \in [Paths -> Times]
  /\ mtime_map \in [Paths -> Times \cup {NoTime}]
  /\ pc \in [Fibers -> {"idle", "reading", "done"}] /\ path \in [Fibers -> Paths \cup {None}]
  /\ data \in [Fibers -> Seq(Versions)]
  /\ \A p \in DOMAIN content_map : content_map[p] \in Seq(Versions)

CacheInv ==
  /\ CacheTypes
  /\ \A f \in Fibers : CallInv(f)
  /\ \A p \in Paths : EntryInv(p)

(* The invariant holds when the server starts.                             *)
LEMMA CacheInit == Init => CacheInv
<1> SUFFICES ASSUME Init PROVE CacheInv
  OBVIOUS
<1>1. DOMAIN content_map = {}
  BY DEF Init
<1>2. CacheTypes
  BY <1>1, CacheAssumption DEF Init, CacheTypes, Versions, Times, NoTime
<1>3. (\A f \in Fibers : CallInv(f)) /\ \A p \in Paths : EntryInv(p)
  BY CacheAssumption DEF Init, CallInv, EntryInv, NoTime, Times
<1> QED BY <1>2, <1>3 DEF CacheInv

(* Somebody writes a file.                                                 *)
LEMMA RewriteStep == ASSUME CacheInv, NEW p \in Paths, Rewrite(p) PROVE CacheInv'
<1>1. PICK t \in Times : /\ mtime' = [mtime EXCEPT ![p] = t]
                         /\ spoilt' = spoilt \cup (IF t = mtime_map[p] THEN {p} ELSE {})
  BY DEF Rewrite
<1>2. /\ file' = [file EXCEPT ![p] = @ + 1] /\ file[p] < MaxVersion
      /\ UNCHANGED <<mtime_map, content_map, pc, path, data>>
  BY DEF Rewrite, cache
<1>3. CacheTypes'
  <2>1. file[p] + 1 \in Versions
    BY <1>2, CacheAssumption DEF CacheInv, CacheTypes, Versions
  <2> QED BY <1>1, <1>2, <2>1 DEF CacheInv, CacheTypes
<1>4. ASSUME NEW f \in Fibers PROVE CallInv(f)'
  BY <1>2 DEF CacheInv, CallInv
<1>5. ASSUME NEW q \in Paths PROVE EntryInv(q)'
  <2>1. CASE q = p
    BY <1>1, <1>2, <2>1 DEF CacheInv, CacheTypes, EntryInv
  <2>2. CASE q # p
    <3>1. mtime'[q] = mtime[q] /\ file'[q] = file[q] /\ (q \in spoilt' <=> q \in spoilt)
      BY <1>1, <1>2, <2>2 DEF CacheInv, CacheTypes
    <3> QED BY <1>2, <3>1 DEF CacheInv, EntryInv, Reads, AllOf
  <2> QED BY <2>1, <2>2
<1> QED BY <1>3, <1>4, <1>5 DEF CacheInv

(* A call that finds the content, and one whose content is sent.           *)
LEMMA NoReadStep ==
  ASSUME CacheInv, NEW f \in Fibers, Served(f) \/ \E p \in Paths : Hit(f, p)
  PROVE  CacheInv'
<1>1. /\ UNCHANGED <<file, mtime, mtime_map, content_map, spoilt>>
      /\ pc[f] # "reading" /\ pc'[f] # "reading"
      /\ \A g \in Fibers \ {f} : pc'[g] = pc[g] /\ path'[g] = path[g] /\ data'[g] = data[g]
  BY DEF Served, Hit, Call, disk, cache, CacheInv, CacheTypes
<1>2. CacheTypes'
  <2>1. CASE Served(f)
    BY <2>1, <1>1 DEF Served, CacheInv, CacheTypes
  <2>2. ASSUME NEW p \in Paths, Hit(f, p) PROVE CacheTypes'
    <3>1. content_map[p] \in Seq(Versions)
      BY <2>2 DEF Hit, Cached, CacheInv, CacheTypes
    <3> QED BY <1>1, <2>2, <3>1 DEF Hit, Call, CacheInv, CacheTypes
  <2> QED BY <2>1, <2>2
<1>3. ASSUME NEW g \in Fibers PROVE CallInv(g)'
  BY <1>1 DEF CacheInv, CallInv
<1>4. ASSUME NEW q \in Paths PROVE EntryInv(q)'
  <2>1. \A g \in Fibers : /\ Reads(g, q)' <=> Reads(g, q)
                          /\ Reads(g, q) => data'[g] = data[g]
    BY <1>1 DEF Reads
  <2> QED BY <1>1, <2>1 DEF CacheInv, EntryInv, AllOf
<1> QED BY <1>2, <1>3, <1>4 DEF CacheInv

(* A call that does not: it has read nothing yet, and the entry is not     *)
(* given out before it has.                                                *)
LEMMA MissStep ==
  ASSUME CacheInv, NEW f \in Fibers, NEW p \in Paths, Miss(f, p)
  PROVE  CacheInv'
<1>1. /\ UNCHANGED <<file, mtime, content_map>>
      /\ mtime_map' = [mtime_map EXCEPT ![p] = mtime[p]]
      /\ pc[f] = "idle" /\ pc' = [pc EXCEPT ![f] = "reading"]
      /\ path' = [path EXCEPT ![f] = p] /\ data' = [data EXCEPT ![f] = <<>>]
  BY DEF Miss, Call, disk
<1>2. CacheTypes'
  BY <1>1 DEF CacheInv, CacheTypes
<1>3. ASSUME NEW g \in Fibers PROVE CallInv(g)'
  BY <1>1, CacheAssumption DEF CacheInv, CacheTypes, CallInv
<1>4. /\ Reads(f, p)' /\ data'[f] = <<>>
      /\ \A g \in Fibers \ {f} : \A q \in Paths :
           /\ Reads(g, q)' <=> Reads(g, q)
           /\ data'[g] = data[g]
      /\ \A q \in Paths : ~Reads(f, q)
  BY <1>1 DEF CacheInv, CacheTypes, Reads
<1>5. ASSUME NEW q \in Paths PROVE EntryInv(q)'
  <2>1. CASE q = p
    <3> SUFFICES ASSUME p \notin spoilt', NEW g \in Fibers, Reads(g, p)'
                 PROVE  AllOf(data[g], file[p])'
      BY <1>4, <2>1 DEF EntryInv
    <3>1. CASE g = f
      BY <1>4, <3>1 DEF AllOf
    <3>2. CASE g # f
      <4>1. Reads(g, p) /\ data'[g] = data[g] /\ file'[p] = file[p]
        BY <1>1, <1>4, <3>2
      <4>2. spoilt' = IF mtime_map[p] # mtime[p] THEN spoilt \cup {p} ELSE spoilt
        BY <4>1 DEF Miss
      <4>3. p \notin spoilt /\ mtime_map[p] = mtime[p]
        BY <4>2
      <4> QED BY <4>1, <4>3 DEF CacheInv, EntryInv, AllOf
    <3> QED BY <3>1, <3>2
  <2>2. CASE q # p
    <3>1. mtime_map'[q] = mtime_map[q] /\ (q \in spoilt' <=> q \in spoilt)
      BY <1>1, <2>2 DEF CacheInv, CacheTypes, Miss
    <3>2. ~Reads(f, q)'
      BY <1>1, <2>2 DEF CacheInv, CacheTypes, Reads
    <3>3. \A g \in Fibers : /\ Reads(g, q)' <=> Reads(g, q)
                            /\ Reads(g, q) => data'[g] = data[g]
      BY <1>4, <3>2
    <3>4. EntryInv(q) /\ UNCHANGED <<file, mtime, content_map>>
      BY <1>1 DEF CacheInv
    <3>5. \A g \in Fibers : Reads(g, q) => (AllOf(data'[g], file'[q]) <=> AllOf(data[g], file[q]))
      BY <3>3, <3>4
    <3> QED BY <3>1, <3>3, <3>4, <3>5 DEF EntryInv, AllOf
  <2> QED BY <2>1, <2>2
<1> QED BY <1>2, <1>3, <1>5 DEF CacheInv

(* One awaited read.                                                       *)
LEMMA ReadChunkStep ==
  ASSUME CacheInv, NEW f \in Fibers, ReadChunk(f)
  PROVE  CacheInv'
<1>1. /\ UNCHANGED <<file, mtime, mtime_map, content_map, pc, path, spoilt>>
      /\ pc[f] = "reading" /\ Len(data[f]) < Chunks
      /\ data' = [data EXCEPT ![f] = Append(@, file[path[f]])]
  BY DEF ReadChunk, disk, cache
<1>2. path[f] \in Paths /\ file[path[f]] \in Versions /\ data[f] \in Seq(Versions)
  BY <1>1 DEF CacheInv, CacheTypes, CallInv
<1>3. /\ data'[f] \in Seq(Versions) /\ Len(data'[f]) = Len(data[f]) + 1
      /\ AllOf(data[f], file[path[f]]) => AllOf(data'[f], file[path[f]])
  <2>1. data'[f] = Append(data[f], file[path[f]])
    BY <1>1 DEF CacheInv, CacheTypes
  <2> QED BY <1>2, <2>1 DEF AllOf
<1>4. CacheTypes'
  BY <1>1, <1>3 DEF CacheInv, CacheTypes
<1>5. ASSUME NEW g \in Fibers PROVE CallInv(g)'
  <2>1. Len(data[f]) \in Nat
    BY <1>2
  <2> QED BY <1>1, <1>2, <1>3, <2>1, CacheAssumption DEF CacheInv, CacheTypes, CallInv
<1>6. ASSUME NEW q \in Paths PROVE EntryInv(q)'
  <2>1. \A g \in Fibers : /\ Reads(g, q)' <=> Reads(g, q)
                          /\ g # f => data'[g] = data[g]
    BY <1>1 DEF CacheInv, CacheTypes, Reads
  <2>2. Reads(f, q) => q = path[f]
    BY DEF Reads
  <2>3. ASSUME q \notin spoilt, mtime_map[q] = mtime[q], NEW g \in Fibers, Reads(g, q)
        PROVE  AllOf(data'[g], file[q])
    <3>1. AllOf(data[g], file[q])
      BY <2>3 DEF CacheInv, EntryInv
    <3> QED BY <1>3, <2>1, <2>2, <2>3, <3>1
  <2>4. ASSUME q \notin spoilt', mtime_map'[q] = mtime'[q], NEW g \in Fibers, Reads(g, q)'
        PROVE  AllOf(data[g], file[q])'
    BY <1>1, <2>1, <2>3, <2>4 DEF AllOf
  <2> QED BY <1>1, <2>1, <2>4 DEF CacheInv, EntryInv, AllOf
<1> QED BY <1>4, <1>5, <1>6 DEF CacheInv

(* The content is stored, whole or short.                                  *)
LEMMA StoreStep ==
  ASSUME CacheInv, NEW f \in Fibers, Store(f) \/ StoreShort(f)
  PROVE  CacheInv'
<1>1. /\ UNCHANGED <<file, mtime, mtime_map, path, data>>
      /\ pc[f] = "reading" /\ pc' = [pc EXCEPT ![f] = "done"]
      /\ content_map' = Insert(path[f], data[f])
      /\ \/ Len(data[f]) = Chunks /\ spoilt' = spoilt
         \/ spoilt' = spoilt \cup {path[f]}
  BY DEF Store, StoreShort, disk
<1>2. path[f] \in Paths /\ data[f] \in Seq(Versions)
  BY <1>1 DEF CacheInv, CacheTypes, CallInv
<1>3. /\ DOMAIN content_map' = DOMAIN content_map \cup {path[f]}
      /\ content_map'[path[f]] = data[f]
      /\ \A q \in DOMAIN content_map \ {path[f]} : content_map'[q] = content_map[q]
  BY <1>1 DEF Insert
<1>4. CacheTypes'
  BY <1>1, <1>2, <1>3 DEF CacheInv, CacheTypes
<1>5. ASSUME NEW g \in Fibers PROVE CallInv(g)'
  BY <1>1 DEF CacheInv, CacheTypes, CallInv
<1>6. ~Reads(f, path[f])' /\ Reads(f, path[f])
  BY <1>1 DEF CacheInv, CacheTypes, Reads
<1>7. ASSUME NEW q \in Paths, NEW g \in Fibers PROVE Reads(g, q)' <=> Reads(g, q) /\ g # f
  BY <1>1 DEF CacheInv, CacheTypes, Reads
<1>8. ASSUME NEW q \in Paths PROVE EntryInv(q)'
  <2>1. CASE q = path[f]
    <3> SUFFICES ASSUME q \notin spoilt', mtime_map'[q] = mtime'[q] PROVE EntryInv(q)'
      BY DEF EntryInv
    <3>1. q \notin spoilt /\ mtime_map[q] = mtime[q] /\ Len(data[f]) = Chunks /\ file'[q] = file[q]
      BY <1>1, <2>1
    <3>2. \A g \in Fibers : Reads(g, q) => AllOf(data[g], file[q])
      BY <3>1 DEF CacheInv, EntryInv
    <3>3. AllOf(data[f], file[q])
      BY <1>6, <2>1, <3>2
    <3>4. content_map'[q] = data[f] /\ AllOf(content_map'[q], file'[q])
      BY <1>3, <2>1, <3>1, <3>3 DEF AllOf
    <3>5. content_map'[q] \in Seq(Versions) /\ Len(content_map'[q]) = Chunks
      BY <1>2, <3>1, <3>4
    <3>6. \A g \in Fibers : Reads(g, q)' => AllOf(data'[g], file'[q])
      BY <1>1, <1>7, <3>2 DEF AllOf
    <3> QED BY <3>4, <3>5, <3>6 DEF EntryInv, AllOf
  <2>2. CASE q # path[f]
    <3>1. q \in DOMAIN content_map' <=> q \in DOMAIN content_map
      BY <1>3, <2>2
    <3>2. q \in DOMAIN content_map => content_map'[q] = content_map[q]
      BY <1>3, <2>2
    <3>3. (q \in spoilt' <=> q \in spoilt) /\ ~Reads(f, q)
      BY <1>1, <2>2 DEF Reads
    <3>4. \A g \in Fibers : Reads(g, q)' <=> Reads(g, q)
      BY <1>7, <3>3
    <3> QED BY <1>1, <3>1, <3>2, <3>3, <3>4 DEF CacheInv, EntryInv, AllOf
  <2> QED BY <2>1, <2>2
<1> QED BY <1>4, <1>5, <1>8 DEF CacheInv

(* Every step of every fiber, and every rewrite of a file, keeps it.       *)
LEMMA CacheStep == ASSUME CacheInv, [Next]_vars PROVE CacheInv'
<1>1. ASSUME NEW p \in Paths, Rewrite(p) PROVE CacheInv'
  BY <1>1, RewriteStep
<1>2. ASSUME NEW f \in Fibers, NEW p \in Paths, Hit(f, p) PROVE CacheInv'
  BY <1>2, NoReadStep
<1>3. ASSUME NEW f \in Fibers, NEW p \in Paths, Miss(f, p) PROVE CacheInv'
  BY <1>3, MissStep
<1>4. ASSUME NEW f \in Fibers, ReadFile(f) PROVE CacheInv'
  BY <1>4, ReadChunkStep, StoreStep DEF ReadFile
<1>5. ASSUME NEW f \in Fibers, Served(f) PROVE CacheInv'
  BY <1>5, NoReadStep
<1>6. CASE UNCHANGED vars
  BY <1>6 DEF CacheInv, CacheTypes, CallInv, EntryInv, AllOf, Reads, vars, disk, cache
<1> QED
  BY <1>1, <1>2, <1>3, <1>4, <1>5, <1>6 DEF Next

(* What the invariant says of an entry that is given out.                  *)
LEMMA InvCurrent == CacheInv => CacheCurrent
<1> SUFFICES ASSUME CacheInv, NEW p \in Paths, p \notin spoilt, Cached(p),
                    \A f \in Fibers : ~Reads(f, p)
             PROVE  content_map[p] = [i \in 1 .. Chunks |-> file[p]]
  BY DEF CacheCurrent
<1>1. /\ content_map[p] \in Seq(Versions) /\ Len(content_map[p]) = Chunks
      /\ AllOf(content_map[p], file[p])
  BY DEF CacheInv, EntryInv, Cached
<1>2. /\ content_map[p] = [i \in 1 .. Chunks |-> content_map[p][i]]
      /\ \A i \in 1 .. Chunks : content_map[p][i] = file[p]
  BY <1>1 DEF AllOf
<1> QED BY <1>2

(* For any number of fibers, files, chunks and rewrites, what the cache    *)
(* gives out without reading is the whole present content of the file,     *)
(* although read_file records the modification time before it reads and    *)
(* may cache a mixture of two versions (netutils.ecs:1889-1904); except    *)
(* where the modification time cannot tell, see CacheCurrent.              *)
THEOREM FibersCacheCurrent == Spec => []CacheCurrent
<1>1. CacheInv /\ [Next]_vars => CacheInv'
  BY CacheStep
<1> QED
  BY <1>1, CacheInit, InvCurrent, PTL DEF Spec

(***************************************************************************)
(* The server uses the cache as FileCache says.                            *)
(***************************************************************************)

(* A step of the server is a step of the cache or leaves it alone.         *)
LEMMA ServerStepsCache == ASSUME [ServerNext]_svars PROVE [Next]_vars
<1> USE ServerAssumption
<1>1. CASE Rewritten
  BY <1>1 DEF Rewritten, Next
<1>2. CASE CallReadFile
  BY <1>2 DEF CallReadFile, Next
<1>3. CASE ReadFileStep
  BY <1>3 DEF ReadFileStep, Next
<1>4. CASE FileAnswers
  BY <1>4 DEF FileAnswers, Next
<1>9. CASE OthersServe
  BY <1>9 DEF OthersServe, Next
<1> DEFINE OtherRead == LineReceives \/ LineTooLong \/ HeaderLine \/ BadRequest \/ TooLarge
                        \/ Session \/ BodyReceives \/ EndOfFile \/ ReadFails
           OtherServe == CallFunction \/ FunctionAnswers \/ FunctionSilent \/ NotFound
                         \/ NotFoundAnswers \/ WriteOk \/ WriteFails \/ Decide
           Other == Accept \/ Arrive \/ HangUp \/ Stop \/ Dropped \/ NextRequest
                    \/ StopSeen \/ Shutdown \/ ErrorSent
<1>5. CASE OtherRead
  BY <1>5 DEF LineReceives, LineTooLong, HeaderLine, BadRequest, TooLarge, Session, BodyReceives,
     EndOfFile, ReadFails, SendError, files, vars
<1>6. CASE OtherServe
  BY <1>6 DEF CallFunction, FunctionAnswers, FunctionSilent, NotFound, NotFoundAnswers, WriteOk,
     WriteFails, Decide, files, vars
<1>7. CASE Other
  BY <1>7 DEF Accept, Arrive, HangUp, Stop, Dropped, NextRequest, StopSeen, Shutdown, ErrorSent,
     files, vars
<1>8. CASE UNCHANGED svars
  BY <1>8 DEF svars, files, vars
<1> QED
  BY <1>1, <1>2, <1>3, <1>4, <1>5, <1>6, <1>7, <1>8, <1>9 DEF ServerNext, WorkerNext, Read, Serve

(* The server implements the specification of the cache (netutils.ecs:1889 *)
(* and 606): whatever a worker does besides, it calls read_file once at a  *)
(* time and sends what it got before it calls it again, while the other    *)
(* workers use the same cache.                                             *)
THEOREM ServerImplementsCache == ServerSpec => Spec
<1>1. ServerInit => Init
  BY DEF ServerInit
<1>2. [ServerNext]_svars => [Next]_vars
  BY ServerStepsCache
<1> QED
  BY <1>1, <1>2, PTL DEF ServerSpec, Spec

(* The cache of a running server gives out the present content of a file,  *)
(* whatever its workers do meanwhile, with the exceptions of CacheCurrent. *)
THEOREM ServerCacheCurrent == ServerSpec => []CacheCurrent
  BY ServerImplementsCache, FibersCacheCurrent, PTL

(***************************************************************************)
(* The invariant of a connection.                                          *)
(***************************************************************************)
Serving == {"function", "missing", "file", "write_wait", "decide"}
Over    == {"accept", "gone", "shutdown", "error_wait"}
Replies == [req : Nat, code : {"200", "404", "408", "500", "400", "413", "431"}, close : BOOLEAN]

(* Every variable of the connection has its type.                          *)
ServerTypes ==
  /\ wpc \in {"top", "line", "body"} \cup Serving \cup Over
  /\ IsClient(client)
  /\ arrived \in Nat /\ taken \in Nat /\ taken <= arrived /\ arrived <= Len(client.stream)
  /\ rbuf \in Seq(TokenType) /\ header \in Seq(TokenType) /\ post \in Seq(TokenType)
  /\ now \in Nat /\ closing \in BOOLEAN /\ force \in BOOLEAN /\ ok \in BOOLEAN
  /\ handled \in Seq(Nat \X Seq(TokenType)) /\ wrote \in Seq(Replies)

(* A buffer that holds a stream from behind its first tokens on, up to     *)
(* where it was read.                                                      *)
Holds(buffer, stream, used, read) ==
  /\ used + Len(buffer) = read
  /\ \A k \in 1 .. Len(buffer) : buffer[k] = stream[used + k]

Window(used) == Holds(rbuf, client.stream, used, taken)

(* What lies before the first request that no handler has seen, and that   *)
(* request.                                                                *)
Base == client.at[Len(handled) + 1]
Coming == client.reqs[Len(handled) + 1]
More == Len(handled) < Len(client.reqs)

(* The requests handled are the first ones of the client.                  *)
HandledInv ==
  /\ Len(handled) <= Len(client.reqs) /\ Len(handled) <= MaxKeepAlive
  /\ \A i \in 1 .. Len(handled) : handled[i] = Sent(i)

(* Between two requests the buffer starts at a request.                    *)
BoundaryInv ==
  wpc \in {"top"} \cup Serving =>
    /\ now = Len(handled) /\ Window(Base)
    /\ IF wpc = "top" THEN Len(handled) < MaxKeepAlive
       ELSE force <=> Len(handled) >= MaxKeepAlive

(* While the header is read, it is the first lines of the next request.    *)
LineInv ==
  wpc = "line" =>
    /\ now = Len(handled) /\ Len(handled) < MaxKeepAlive
    /\ Window(Base + Len(header))
    /\ Len(header) > 0 => More /\ Len(header) <= Coming.headers + 1
    /\ \A k \in 1 .. Len(header) : header[k] = client.stream[Base + k]

(* While the body is read, it is the first bytes of the body of the        *)
(* request; the socket is read only when the buffer is empty.              *)
BodyInv ==
  wpc = "body" =>
    /\ More /\ now = Len(handled) + 1 /\ Len(handled) < MaxKeepAlive
    /\ Len(post) <= Len(Coming.body)
    /\ Window(Base + Coming.headers + 2 + Len(post))
    /\ \A k \in 1 .. Len(post) : post[k] = <<Coming.body[k], now>>
    /\ Len(post) < Len(Coming.body) => rbuf = <<>>

(* No response is ahead of the request being served, none of it was sent   *)
(* yet while it is read and handled, and one that announces the end is the *)
(* last.                                                                   *)
ReplyInv ==
  \A k \in 1 .. Len(wrote) :
    /\ wrote[k].req <= now
    /\ wpc \in {"body", "function", "missing", "file"} => wrote[k].req < now
    /\ wrote[k].close => \/ wpc \in Over
                         \/ wpc \in {"write_wait", "decide"} /\ closing

ServerInv ==
  /\ ServerTypes /\ HandledInv /\ BoundaryInv /\ LineInv /\ BodyInv
  /\ ReplyInv /\ ResponsesExact


-----------------------------------------------------------------------------
(* What is known of the tokens of a request.                               *)
LEMMA TokenKinds ==
  ASSUME NEW r \in RequestType, NEW i \in Nat
  PROVE  /\ r.headers \in Nat /\ r.body \in Seq({"byte", "line"}) /\ Len(r.body) \in Nat
         /\ Size(r) = r.headers + 2 + Len(r.body)
         /\ Token(r, i, 1) = <<"request", i>>
         /\ \A j \in 2 .. r.headers + 1 : Token(r, i, j) = <<"header", i>>
         /\ Token(r, i, r.headers + 2) = <<"empty", i>>
         /\ \A k \in 1 .. Len(r.body) : Token(r, i, r.headers + 2 + k) = <<r.body[k], i>>
<1>1. r.headers \in Nat /\ r.body \in Seq({"byte", "line"}) /\ Len(r.body) \in Nat
  BY DEF RequestType
<1> QED
  BY <1>1 DEF Token, Size

(* The requests of a client and where they lie.                            *)
LEMMA ClientParts ==
  ASSUME NEW c, IsClient(c), NEW n \in Nat, n <= Len(c.reqs)
  PROVE  /\ Len(c.reqs) \in Nat /\ Len(c.stream) \in Nat /\ c.at[n + 1] \in Nat
         /\ n = Len(c.reqs) => c.at[n + 1] = Len(c.stream)
         /\ n < Len(c.reqs) =>
              /\ c.reqs[n + 1] \in RequestType
              /\ c.at[n + 2] = c.at[n + 1] + Size(c.reqs[n + 1])
              /\ \A j \in 1 .. Size(c.reqs[n + 1]) :
                   c.stream[c.at[n + 1] + j] = Token(c.reqs[n + 1], n + 1, j)
<1>1. c.reqs \in Seq(RequestType) /\ c.at \in Seq(Nat) /\ Len(c.at) = Len(c.reqs) + 1
  BY DEF IsClient
<1>2. Len(c.reqs) \in Nat /\ c.at[n + 1] \in Nat
  BY <1>1
<1>3. Len(c.stream) = c.at[Len(c.at)] /\ c.at[Len(c.at)] \in Nat
  BY <1>1 DEF IsClient
<1>4. ASSUME n < Len(c.reqs)
      PROVE  /\ c.reqs[n + 1] \in RequestType
             /\ c.at[n + 2] = c.at[n + 1] + Size(c.reqs[n + 1])
             /\ \A j \in 1 .. Size(c.reqs[n + 1]) :
                  c.stream[c.at[n + 1] + j] = Token(c.reqs[n + 1], n + 1, j)
  <2>1. n + 1 \in DOMAIN c.reqs /\ (n + 1) + 1 = n + 2
    BY <1>1, <1>4
  <2> QED BY <1>1, <2>1 DEF IsClient
<1> QED
  BY <1>1, <1>2, <1>3, <1>4

(* While the header is read, the first token of the buffer is the next     *)
(* line of the next request, and a line.                                   *)
LEMMA NextLine ==
  ASSUME ServerInv, wpc = "line", rbuf # <<>>
  PROVE  /\ More /\ Coming \in RequestType
         /\ Len(header) <= Coming.headers + 1
         /\ rbuf[1] = Token(Coming, Len(handled) + 1, Len(header) + 1)
         /\ rbuf[1] \in TokenType
         /\ LineLen = 1
         /\ RawLine \in Seq(TokenType) /\ Len(RawLine) = 1 /\ RawLine[1] = rbuf[1]
<1>1. rbuf \in Seq(TokenType) /\ Len(rbuf) > 0 /\ Len(rbuf) \in Nat /\ Len(header) \in Nat
      /\ Len(handled) \in Nat
  BY DEF ServerInv, ServerTypes
<1>2. Len(handled) <= Len(client.reqs) /\ IsClient(client) /\ taken <= Len(client.stream)
      /\ taken \in Nat
  <2>1. Len(client.stream) \in Nat
    BY SMTT(30) DEF ServerInv, ServerTypes, IsClient
  <2> QED BY <2>1 DEF ServerInv, ServerTypes, HandledInv
<1>3. /\ Base + Len(header) + Len(rbuf) = taken
      /\ rbuf[1] = client.stream[Base + Len(header) + 1]
      /\ Len(header) > 0 => More /\ Len(header) <= Coming.headers + 1
  BY <1>1 DEF ServerInv, LineInv, Window, Holds
<1>4. Base \in Nat /\ Len(client.reqs) \in Nat
  BY <1>1, <1>2, ClientParts DEF Base
<1>5. More
  BY SMTT(30), <1>1, <1>2, <1>3, <1>4, ClientParts DEF Base, More
<1>6. /\ Coming \in RequestType
      /\ \A j \in 1 .. Size(Coming) : client.stream[Base + j] = Token(Coming, Len(handled) + 1, j)
  BY <1>1, <1>2, <1>5, ClientParts DEF Base, More, Coming
<1>7. Coming.headers \in Nat /\ Len(Coming.body) \in Nat /\ Size(Coming) = Coming.headers + 2 + Len(Coming.body)
  BY <1>1, <1>6, TokenKinds
<1>8. Len(header) <= Coming.headers + 1
  BY <1>1, <1>3, <1>7
<1>9. Len(header) + 1 \in 1 .. Size(Coming)
  BY <1>1, <1>7, <1>8
<1>10. rbuf[1] = Token(Coming, Len(handled) + 1, Len(header) + 1)
  <2>1. Base + Len(header) + 1 = Base + (Len(header) + 1)
    BY <1>1, <1>4
  <2> QED BY <1>3, <1>6, <1>9, <2>1
<1>11. IsLine(rbuf[1])
  <2>1. PICK i \in Nat : i = Len(handled) + 1
    BY <1>1
  <2>2. PICK h \in Nat : h = Len(header)
    BY <1>1
  <2>3. rbuf[1] = Token(Coming, i, h + 1) /\ h <= Coming.headers + 1
    BY <1>8, <1>10, <2>1, <2>2
  <2>4. h = 0 \/ h + 1 \in 2 .. Coming.headers + 1 \/ h + 1 = Coming.headers + 2
    BY <1>7, <2>3
  <2> QED BY <1>6, <2>3, <2>4, TokenKinds DEF IsLine
<1>12. LineLen = 1
  <2>1. 1 \in DOMAIN rbuf /\ \A m \in 1 .. 1 - 1 : ~IsLine(rbuf[m])
    BY <1>1
  <2>2. \A k \in DOMAIN rbuf : (\A m \in 1 .. k - 1 : ~IsLine(rbuf[m])) => k = 1
    BY <1>1, <1>11
  <2> QED BY <1>11, <2>1, <2>2 DEF LineLen
<1>13. RawLine \in Seq(TokenType) /\ Len(RawLine) = 1 /\ RawLine[1] = rbuf[1]
  BY <1>1, <1>12 DEF RawLine
<1> QED
  BY <1>1, <1>5, <1>6, <1>8, <1>10, <1>12, <1>13

-----------------------------------------------------------------------------
(* A step of the worker that moves on and touches nothing of the           *)
(* connection.                                                             *)
LEMMA MoveStep ==
  ASSUME ServerInv, UNCHANGED <<conn, sess, logs>>,
         \/ wpc' = wpc
         \/ wpc' \in Over
         \/ wpc \in {"function", "write_wait"} /\ wpc' = "decide"
         \/ wpc = "decide" /\ wpc' = "top" /\ ~closing /\ ~force
  PROVE  ServerInv'
<1> USE DEF conn, sess, logs, Over, Serving
<1>1. ServerTypes'
  BY DEF ServerInv, ServerTypes
<1>2. HandledInv'
  BY DEF ServerInv, HandledInv, Sent
<1>3. BoundaryInv'
  <2>1. Window(Base) => Window(Base)'
    BY DEF Window, Base
  <2>2. Len(handled) \in Nat /\ MaxKeepAlive \in Nat
    BY ServerAssumption DEF ServerInv, ServerTypes
  <2> QED BY <2>1, <2>2 DEF ServerInv, BoundaryInv
<1>4. LineInv'
  BY DEF ServerInv, LineInv, Window, Base, More, Coming
<1>5. BodyInv'
  BY DEF ServerInv, BodyInv, Window, Base, More, Coming
<1>6. ReplyInv'
  BY DEF ServerInv, ReplyInv
<1>7. ResponsesExact'
  BY DEF ServerInv, ResponsesExact
<1> QED
  BY <1>1, <1>2, <1>3, <1>4, <1>5, <1>6, <1>7 DEF ServerInv

(* The steps that are of that kind.                                        *)
LEMMA MoveSteps ==
  ASSUME ServerInv,
         \/ StopSeen \/ EndOfFile \/ ErrorSent \/ FunctionSilent \/ WriteOk \/ WriteFails
         \/ Decide \/ Stop \/ Rewritten \/ OthersServe \/ ReadFileStep \/ UNCHANGED svars
  PROVE  ServerInv'
<1>1. ASSUME StopSeen \/ EndOfFile \/ ErrorSent \/ WriteFails PROVE ServerInv'
  BY <1>1, MoveStep DEF StopSeen, EndOfFile, ErrorSent, WriteFails, Goto, Over
<1>2. ASSUME FunctionSilent \/ WriteOk \/ Decide PROVE ServerInv'
  BY <1>2, MoveStep DEF FunctionSilent, WriteOk, Decide, Goto, Over
<1>3. ASSUME Stop \/ Rewritten \/ OthersServe \/ ReadFileStep \/ UNCHANGED svars
      PROVE  ServerInv'
  BY <1>3, MoveStep DEF Stop, Rewritten, OthersServe, ReadFileStep, svars
<1> QED
  BY <1>1, <1>2, <1>3

(* The network and the client.                                             *)
LEMMA WireSteps ==
  ASSUME ServerInv, Arrive \/ HangUp
  PROVE  ServerInv'
<1>1. /\ UNCHANGED <<wpc, client, taken, rbuf, sess, logs>>
      /\ arrived' = arrived \/ arrived' \in arrived + 1 .. Len(client.stream)
  BY DEF Arrive, HangUp
<1> USE DEF sess, logs
<1>2. Len(client.stream) \in Nat
  BY SMTT(30) DEF ServerInv, ServerTypes, IsClient
<1>3. ServerTypes'
  <2>1. arrived' \in Nat /\ arrived <= arrived' /\ arrived' <= Len(client.stream)
        /\ taken \in Nat /\ taken <= arrived /\ arrived \in Nat
    BY <1>1, <1>2 DEF ServerInv, ServerTypes
  <2>2. taken' <= arrived'
    BY <1>1, <2>1
  <2> QED BY <1>1, <2>1, <2>2 DEF ServerInv, ServerTypes
<1>4. HandledInv'
  BY <1>1 DEF ServerInv, HandledInv, Sent
<1>5. BoundaryInv'
  BY <1>1 DEF ServerInv, BoundaryInv, Window, Base
<1>6. LineInv'
  BY <1>1 DEF ServerInv, LineInv, Window, Base, More, Coming
<1>7. BodyInv'
  BY <1>1 DEF ServerInv, BodyInv, Window, Base, More, Coming
<1>8. ReplyInv'
  BY <1>1 DEF ServerInv, ReplyInv
<1>9. ResponsesExact'
  BY <1>1 DEF ServerInv, ResponsesExact
<1> QED
  BY <1>3, <1>4, <1>5, <1>6, <1>7, <1>8, <1>9 DEF ServerInv

(* A state in which nothing was handled, written or read yet.              *)
Fresh ==
  /\ IsClient(client) /\ wpc \in {"accept", "top", "gone"} /\ arrived = 0 /\ taken = 0 /\ rbuf = <<>>
  /\ header = <<>> /\ post = <<>> /\ now = 0 /\ closing = FALSE /\ force = FALSE /\ ok = TRUE
  /\ handled = <<>> /\ wrote = <<>>

LEMMA FreshConnection == Fresh => ServerInv
<1> SUFFICES ASSUME Fresh PROVE ServerInv
  OBVIOUS
<1>1. client.at[1] = 0 /\ Len(client.stream) \in Nat /\ Len(client.reqs) \in Nat
  BY DEF IsClient, Fresh
<1>2. ServerTypes
  <2>1. /\ wpc \in {"top", "line", "body"} \cup Serving \cup Over
        /\ arrived \in Nat /\ taken \in Nat /\ taken <= arrived /\ arrived <= Len(client.stream)
    BY <1>1 DEF Fresh, Serving, Over
  <2>2. rbuf \in Seq(TokenType) /\ header \in Seq(TokenType) /\ post \in Seq(TokenType)
    BY DEF Fresh
  <2>3. handled \in Seq(Nat \X Seq(TokenType)) /\ wrote \in Seq(Replies)
    BY DEF Fresh
  <2>4. now \in Nat /\ closing \in BOOLEAN /\ force \in BOOLEAN /\ ok \in BOOLEAN
    BY DEF Fresh
  <2> QED BY <2>1, <2>2, <2>3, <2>4 DEF ServerTypes, Fresh
<1>3. Len(handled) = 0 /\ Len(rbuf) = 0 /\ Len(wrote) = 0
  BY DEF Fresh
<1>4. HandledInv
  BY <1>1, <1>3, ServerAssumption DEF HandledInv
<1>5. BoundaryInv
  <2>1. Base = 0
    BY <1>1, <1>3 DEF Base
  <2>2. Window(Base)
    BY <1>3, <2>1 DEF Window, Holds, Fresh
  <2> QED BY <1>3, <2>2, ServerAssumption DEF BoundaryInv, Fresh, Serving
<1>6. LineInv /\ BodyInv
  BY DEF LineInv, BodyInv, Fresh
<1>7. ReplyInv /\ ResponsesExact
  BY <1>3 DEF ReplyInv, ResponsesExact, Fresh
<1> QED
  BY <1>2, <1>4, <1>5, <1>6, <1>7 DEF ServerInv

(* The server starts without a connection, accepts one, and ends it.       *)
LEMMA ServerStarts == ServerInit => ServerInv
<1> SUFFICES ASSUME ServerInit PROVE ServerInv
  OBVIOUS
<1>1. IsClient(NoClient)
  BY DEF IsClient, NoClient
<1> QED
  BY <1>1, FreshConnection DEF ServerInit, Fresh

LEMMA AcceptStep == Accept => ServerInv'
<1>1. Accept => Fresh'
  BY ServerAssumption DEF Accept, NewConnection, Fresh
<1> QED
  BY <1>1, FreshConnection, PTL

LEMMA EndSteps == Shutdown \/ Dropped => ServerInv'
<1>1. IsClient(NoClient)
  BY DEF IsClient, NoClient
<1>2. Shutdown \/ Dropped => Fresh'
  BY <1>1 DEF Shutdown, Dropped, NewConnection, Goto, Fresh
<1> QED
  BY <1>2, FreshConnection, PTL

(* read_http_header is called.                                             *)
LEMMA NextRequestStep == ASSUME ServerInv, NextRequest PROVE ServerInv'
<1>1. /\ wpc = "top" /\ wpc' = "line" /\ header' = <<>> /\ post' = <<>>
      /\ UNCHANGED <<conn, now, closing, force, ok, logs>>
  BY DEF NextRequest, Goto
<1> USE DEF conn, logs
<1>2. ServerTypes'
  BY <1>1 DEF ServerInv, ServerTypes
<1>3. HandledInv'
  BY <1>1 DEF ServerInv, HandledInv, Sent
<1>4. LineInv'
  <2>1. Len(header') = 0 /\ Window(Base) /\ now = Len(handled) /\ Len(handled) < MaxKeepAlive
    BY <1>1 DEF ServerInv, BoundaryInv
  <2>2. Base \in Nat
    BY ClientParts DEF ServerInv, ServerTypes, HandledInv, Base
  <2>3. (Base + Len(header))' = Base
    BY <1>1, <2>1, <2>2 DEF Base
  <2>4. Window(Base + Len(header))'
    BY <1>1, <2>1, <2>3 DEF Window
  <2> QED BY <1>1, <2>1, <2>4 DEF LineInv
<1>5. BoundaryInv' /\ BodyInv'
  BY <1>1 DEF BoundaryInv, BodyInv, Serving
<1>6. ReplyInv'
  BY <1>1 DEF ServerInv, ReplyInv, Over
<1>7. ResponsesExact'
  BY <1>1 DEF ServerInv, ResponsesExact
<1> QED
  BY <1>2, <1>3, <1>4, <1>5, <1>6, <1>7 DEF ServerInv

(* One more response: none before it announced the end, and it is of the   *)
(* request being served.  A response of a handler is the first one of its  *)
(* request.                                                                *)
LEMMA WriteExact ==
  ASSUME ServerTypes, ResponsesExact, NEW code \in {"200", "404", "408", "500", "400", "413", "431"},
         NEW close \in BOOLEAN, wrote' = Append(wrote, [req |-> now, code |-> code, close |-> close]),
         \A k \in 1 .. Len(wrote) : ~wrote[k].close /\ wrote[k].req <= now,
         code \in {"200", "404"} => \A k \in 1 .. Len(wrote) : wrote[k].req < now
  PROVE  ResponsesExact' /\ wrote' \in Seq(Replies)
<1>1. PICK n \in Nat : n = Len(wrote)
  BY DEF ServerTypes
<1>2. wrote \in Seq(Replies) /\ now \in Nat /\ [req |-> now, code |-> code, close |-> close] \in Replies
  BY DEF ServerTypes, Replies
<1>3. /\ wrote' \in Seq(Replies) /\ Len(wrote') = n + 1
      /\ \A k \in 1 .. n : wrote'[k] = wrote[k]
      /\ wrote'[n + 1] = [req |-> now, code |-> code, close |-> close]
  BY <1>1, <1>2
<1>4. \A k \in 1 .. n : wrote[k].req \in Nat
  <2>1. \A k \in 1 .. n : wrote[k] \in Replies
    BY <1>1, <1>2
  <2> QED BY <2>1 DEF Replies
<1>5. \A k \in DOMAIN wrote' : k < Len(wrote') => ~wrote'[k].close
  BY <1>1, <1>3
<1>6. \A j, k \in DOMAIN wrote' : j < k => wrote'[j].req <= wrote'[k].req
  <2> SUFFICES ASSUME NEW j \in 1 .. n + 1, NEW k \in 1 .. n + 1, j < k
               PROVE  wrote'[j].req <= wrote'[k].req
    BY <1>3
  <2>1. CASE k = n + 1
    BY <1>1, <1>3, <2>1
  <2>2. CASE k \in 1 .. n
    <3>1. j \in DOMAIN wrote /\ k \in DOMAIN wrote
      BY <1>1, <1>2, <2>2
    <3> QED BY <1>3, <2>2, <3>1, <1>1, <1>2 DEF ResponsesExact
  <2> QED BY <1>1, <2>1, <2>2
<1>7. \A k \in DOMAIN wrote' : wrote'[k].code \in {"200", "404"} =>
        \A j \in DOMAIN wrote' : j # k /\ wrote'[j].req = wrote'[k].req =>
          j > k /\ wrote'[j].code \notin {"200", "404"}
  <2> SUFFICES ASSUME NEW k \in 1 .. n + 1, wrote'[k].code \in {"200", "404"},
                      NEW j \in 1 .. n + 1, j # k, wrote'[j].req = wrote'[k].req
               PROVE  j > k /\ wrote'[j].code \notin {"200", "404"}
    BY <1>3
  <2>1. CASE k = n + 1
    <3>1. j \in 1 .. n /\ wrote[j].req = now /\ code \in {"200", "404"}
      BY <1>3, <2>1
    <3>2. wrote[j].req < now
      BY <1>1, <3>1
    <3> QED BY <1>2, <3>1, <3>2
  <2>2. CASE k \in 1 .. n /\ j = n + 1
    <3>1. wrote[k].req = now /\ wrote'[j].code = code
      BY <1>3, <2>2
    <3>2. code \notin {"200", "404"}
      BY <1>1, <1>2, <2>2, <3>1
    <3> QED BY <1>1, <2>2, <3>1, <3>2
  <2>3. CASE k \in 1 .. n /\ j \in 1 .. n
    <3>1. j \in DOMAIN wrote /\ k \in DOMAIN wrote /\ wrote'[j] = wrote[j] /\ wrote'[k] = wrote[k]
      BY <1>1, <1>2, <1>3, <2>3
    <3> QED BY <3>1 DEF ResponsesExact
  <2> QED BY <1>1, <2>1, <2>2, <2>3
<1> QED
  BY <1>3, <1>5, <1>6, <1>7 DEF ResponsesExact

(* An error response, after which the worker gives up.                     *)
LEMMA ErrorStep ==
  ASSUME ServerInv, wpc \in {"line", "body"}, NEW code \in {"408", "500", "400", "413", "431"},
         SendError(code), taken' = taken, rbuf' \in Seq(TokenType), UNCHANGED <<header, post>>
  PROVE  ServerInv'
<1>1. /\ wpc' = "error_wait" /\ UNCHANGED <<arrived, client, closing, force, ok, now, handled>>
      /\ wrote' = Append(wrote, [req |-> now, code |-> code, close |-> TRUE])
  BY DEF SendError, Goto, Write
<1>2. \A k \in 1 .. Len(wrote) : ~wrote[k].close /\ wrote[k].req <= now
  BY DEF ServerInv, ReplyInv, Over
<1>3. ResponsesExact' /\ wrote' \in Seq(Replies)
  BY <1>1, <1>2, WriteExact DEF ServerInv
<1>4. ServerTypes'
  BY <1>1, <1>3 DEF ServerInv, ServerTypes, Over
<1>5. HandledInv'
  BY <1>1 DEF ServerInv, HandledInv, Sent
<1>6. BoundaryInv' /\ LineInv' /\ BodyInv'
  BY <1>1 DEF BoundaryInv, LineInv, BodyInv, Serving
<1>7. ReplyInv'
  <2>1. wrote \in Seq(Replies) /\ now \in Nat
    BY DEF ServerInv, ServerTypes
  <2> SUFFICES ASSUME NEW k \in 1 .. Len(wrote') PROVE wrote'[k].req <= now
    BY <1>1 DEF ReplyInv, Over
  <2> QED BY <1>1, <1>2, <2>1
<1> QED
  BY <1>3, <1>4, <1>5, <1>6, <1>7 DEF ServerInv

(* The steps that send one.                                                *)
LEMMA ErrorSteps ==
  ASSUME ServerInv, LineTooLong \/ BadRequest \/ TooLarge \/ ReadFails
  PROVE  ServerInv'
<1>1. rbuf \in Seq(TokenType)
  BY DEF ServerInv, ServerTypes
<1>2. ASSUME TakeLine PROVE rbuf' \in Seq(TokenType) /\ taken' = taken /\ wpc = "line"
  <2>1. wpc = "line" /\ rbuf # <<>> /\ rbuf' = SubSeq(rbuf, LineLen + 1, Len(rbuf)) /\ taken' = taken
    BY <1>1, <1>2 DEF TakeLine, HasLine, After
  <2>2. LineLen = 1
    BY <2>1, NextLine
  <2> QED BY <1>1, <2>1, <2>2
<1>3. ASSUME LineTooLong PROVE ServerInv'
  BY <1>2, <1>3, ErrorStep DEF LineTooLong
<1>4. ASSUME BadRequest \/ TooLarge PROVE ServerInv'
  BY <1>2, <1>4, ErrorStep DEF BadRequest, TooLarge, HeaderEnds
<1>5. ASSUME ReadFails PROVE ServerInv'
  BY <1>1, <1>5, ErrorStep DEF ReadFails, Reading
<1> QED
  BY <1>3, <1>4, <1>5

(* A sequence and what is put behind it.                                   *)
LEMMA Joined ==
  ASSUME NEW S, NEW a \in Seq(S), NEW b \in Seq(S)
  PROVE  /\ a \o b \in Seq(S) /\ Len(a \o b) = Len(a) + Len(b)
         /\ Len(a) \in Nat /\ Len(b) \in Nat
         /\ \A k \in 1 .. Len(a) : (a \o b)[k] = a[k]
         /\ \A k \in 1 .. Len(b) : (a \o b)[Len(a) + k] = b[k]
OBVIOUS

(* A part of a sequence.                                                   *)
LEMMA Part ==
  ASSUME NEW S, NEW q \in Seq(S), NEW m \in Nat, NEW n \in Nat, m <= n, n <= Len(q)
  PROVE  /\ SubSeq(q, m + 1, n) \in Seq(S) /\ Len(SubSeq(q, m + 1, n)) = n - m
         /\ \A k \in 1 .. n - m : SubSeq(q, m + 1, n)[k] = q[m + k]
<1>1. Len(q) \in Nat
  OBVIOUS
<1> QED
  BY <1>1

(* More of the stream comes behind what is buffered.                       *)
LEMMA HoldsMore ==
  ASSUME NEW b \in Seq(TokenType), NEW S \in Seq(TokenType), NEW u \in Nat, NEW t \in Nat,
         NEW n \in Nat, t <= n, n <= Len(S), Holds(b, S, u, t)
  PROVE  /\ b \o SubSeq(S, t + 1, n) \in Seq(TokenType)
         /\ Holds(b \o SubSeq(S, t + 1, n), S, u, n)
<1>1. PICK s \in Seq(TokenType) : s = SubSeq(S, t + 1, n)
  BY Part
<1>2. Len(s) = n - t /\ \A k \in 1 .. n - t : s[k] = S[t + k]
  BY <1>1, Part
<1>3. PICK l \in Nat : l = Len(b)
  OBVIOUS
<1>4. PICK c : c = b \o s
  OBVIOUS
<1>5. c \in Seq(TokenType) /\ Len(c) = l + (n - t)
      /\ (\A k \in 1 .. l : c[k] = b[k]) /\ \A k \in 1 .. n - t : c[l + k] = s[k]
  <2>1. /\ b \o s \in Seq(TokenType) /\ Len(b \o s) = Len(b) + Len(s)
        /\ \A k \in 1 .. Len(b) : (b \o s)[k] = b[k]
        /\ \A k \in 1 .. Len(s) : (b \o s)[Len(b) + k] = s[k]
    BY <1>1, Joined, SMTT(30)
  <2> QED BY <1>2, <1>3, <1>4, <2>1
<1>6. u + l = t /\ \A k \in 1 .. l : b[k] = S[u + k]
  BY <1>3 DEF Holds
<1>7. ASSUME NEW k \in 1 .. l + (n - t) PROVE c[k] = S[u + k]
  <2>1. CASE k \in 1 .. l
    BY <1>5, <1>6, <2>1
  <2>2. CASE k \notin 1 .. l
    <3>1. PICK m \in 1 .. n - t : k = l + m
      <4>1. k - l \in 1 .. n - t /\ k = l + (k - l)
        BY <1>3, <2>2
      <4> QED BY <4>1
    <3>2. c[k] = S[t + m]
      BY <1>2, <1>5, <3>1
    <3>3. u + l = t
      BY <1>6
    <3>4. t + m = u + k
      BY <1>3, <3>1, <3>3
    <3> QED BY <3>2, <3>4
  <2> QED BY <2>1, <2>2
<1>8. u + Len(c) = n
  <2>1. u + l = t /\ Len(c) = l + (n - t)
    BY <1>5, <1>6
  <2> QED BY <1>3, <2>1
<1>9. Holds(c, S, u, n)
  BY <1>5, <1>7, <1>8 DEF Holds
<1> QED
  BY <1>1, <1>4, <1>5, <1>9

(* Its first tokens are used.                                              *)
LEMMA HoldsAfter ==
  ASSUME NEW b \in Seq(TokenType), NEW S, NEW u \in Nat, NEW t \in Nat,
         NEW n \in Nat, n <= Len(b), Holds(b, S, u, t)
  PROVE  After(b, n) \in Seq(TokenType) /\ Holds(After(b, n), S, u + n, t)
<1>1. PICK l \in Nat : l = Len(b)
  OBVIOUS
<1>2. PICK s : s = SubSeq(b, n + 1, l)
  OBVIOUS
<1>3. s \in Seq(TokenType) /\ Len(s) = l - n /\ \A k \in 1 .. l - n : s[k] = b[n + k]
  BY <1>1, <1>2, Part
<1>4. u + l = t /\ \A k \in 1 .. l : b[k] = S[u + k]
  BY <1>1 DEF Holds
<1>5. ASSUME NEW k \in 1 .. l - n PROVE s[k] = S[(u + n) + k]
  <2>1. n + k \in 1 .. l /\ u + (n + k) = (u + n) + k
    BY <1>1
  <2> QED BY <1>3, <1>4, <2>1
<1>6. (u + n) + Len(s) = t
  <2>1. Len(s) = l - n /\ u + l = t
    BY <1>3, <1>4
  <2> QED BY <1>1, <2>1
<1>7. Holds(s, S, u + n, t)
  BY <1>3, <1>5, <1>6 DEF Holds
<1> QED
  BY <1>1, <1>2, <1>3, <1>7 DEF After

(* The stream and the counters have their types.                           *)
LEMMA StreamTypes ==
  ASSUME ServerInv
  PROVE  /\ client.stream \in Seq(TokenType) /\ Len(client.stream) \in Nat
         /\ rbuf \in Seq(TokenType) /\ header \in Seq(TokenType) /\ post \in Seq(TokenType)
         /\ taken \in Nat /\ arrived \in Nat /\ taken <= arrived /\ arrived <= Len(client.stream)
         /\ Len(handled) \in Nat /\ Len(header) \in Nat /\ Len(post) \in Nat /\ Base \in Nat
<1>1. IsClient(client)
  BY DEF ServerInv, ServerTypes
<1>2. client.stream \in Seq(TokenType) /\ Len(client.stream) \in Nat
  <2>1. client.stream \in Seq(TokenType)
    BY <1>1 DEF IsClient
  <2> QED BY <2>1
<1>3. Base \in Nat
  BY ClientParts DEF ServerInv, ServerTypes, HandledInv, Base
<1> QED
  BY <1>2, <1>3 DEF ServerInv, ServerTypes

(* async.read_until puts what has arrived behind what is buffered.         *)
LEMMA LineReceivesStep == ASSUME ServerInv, LineReceives PROVE ServerInv'
<1>1. /\ wpc = "line" /\ arrived > taken /\ taken' = arrived
      /\ rbuf' = rbuf \o SubSeq(client.stream, taken + 1, arrived)
      /\ UNCHANGED <<wpc, client, arrived, sess, logs>>
  BY DEF LineReceives
<1> USE DEF sess, logs
<1>2. PICK u \in Nat : u = Base + Len(header)
  BY StreamTypes
<1>3. Holds(rbuf, client.stream, u, taken)
  BY <1>1, <1>2 DEF ServerInv, LineInv, Window
<1>4. rbuf' \in Seq(TokenType) /\ Holds(rbuf', client.stream, u, arrived)
  BY <1>1, <1>2, <1>3, StreamTypes, HoldsMore
<1>5. ServerTypes'
  BY <1>1, <1>4, StreamTypes DEF ServerInv, ServerTypes
<1>6. HandledInv'
  BY <1>1 DEF ServerInv, HandledInv, Sent
<1>7. BoundaryInv' /\ BodyInv'
  BY <1>1 DEF BoundaryInv, BodyInv, Serving
<1>8. LineInv'
  <2>1. Window(Base + Len(header))'
    BY <1>1, <1>2, <1>4 DEF Window, Base
  <2> QED BY <1>1, <2>1 DEF ServerInv, LineInv, More, Coming, Base
<1>9. ReplyInv'
  BY <1>1 DEF ServerInv, ReplyInv
<1>10. ResponsesExact'
  BY <1>1 DEF ServerInv, ResponsesExact
<1> QED
  BY <1>5, <1>6, <1>7, <1>8, <1>9, <1>10 DEF ServerInv

(* A line goes to the header.                                              *)
LEMMA HeaderLineStep == ASSUME ServerInv, HeaderLine PROVE ServerInv'
<1>1. /\ wpc = "line" /\ HasLine /\ wpc' = "line" /\ rbuf' = After(rbuf, LineLen) /\ taken' = taken
      /\ RawLine[1][1] # "empty" /\ header' = header \o RawLine
      /\ UNCHANGED <<client, arrived, post, now, closing, force, ok, logs>>
  BY DEF HeaderLine, TakeLine, Goto
<1> USE DEF logs
<1>2. /\ rbuf \in Seq(TokenType) /\ header \in Seq(TokenType) /\ Len(header) \in Nat /\ taken \in Nat
      /\ Len(handled) \in Nat
  BY DEF ServerInv, ServerTypes
<1>3. rbuf # <<>> /\ Len(rbuf) \in Nat /\ 1 <= Len(rbuf)
  BY <1>1, <1>2 DEF HasLine
<1>4. /\ More /\ Coming \in RequestType /\ Len(header) <= Coming.headers + 1
      /\ rbuf[1] = Token(Coming, Len(handled) + 1, Len(header) + 1)
      /\ LineLen = 1 /\ RawLine \in Seq(TokenType) /\ Len(RawLine) = 1 /\ RawLine[1] = rbuf[1]
  BY <1>1, <1>3, NextLine
<1>5. /\ header' \in Seq(TokenType) /\ Len(header') = Len(header) + 1
      /\ \A k \in 1 .. Len(header) : header'[k] = header[k]
      /\ header'[Len(header) + 1] = rbuf[1]
  <2>1. PICK a \in Seq(TokenType) : a = header
    BY <1>2
  <2>2. PICK b \in Seq(TokenType) : b = RawLine
    BY <1>4
  <2>3. /\ a \o b \in Seq(TokenType) /\ Len(a \o b) = Len(a) + Len(b)
        /\ \A k \in 1 .. Len(a) : (a \o b)[k] = a[k]
        /\ \A k \in 1 .. Len(b) : (a \o b)[Len(a) + k] = b[k]
    BY Joined
  <2>4. Len(b) = 1 /\ b[1] = rbuf[1] /\ a \o b = header' /\ Len(a) = Len(header)
    BY <1>1, <1>4, <2>1, <2>2
  <2>5. header' \in Seq(TokenType) /\ Len(header') = Len(header) + 1
    BY <2>3, <2>4
  <2>6. header'[Len(header) + 1] = rbuf[1]
    BY <2>3, <2>4
  <2> QED BY <2>1, <2>3, <2>4, <2>5, <2>6
<1>6. Len(header) + 1 <= Coming.headers + 1
  <2>1. Len(header) # Coming.headers + 1
    <3>1. PICK i \in Nat : i = Len(handled) + 1
      BY <1>2
    <3>2. Coming.headers \in Nat /\ Token(Coming, i, Coming.headers + 2) = <<"empty", i>>
      BY <1>4, TokenKinds
    <3>3. Len(header) = Coming.headers + 1 => Len(header) + 1 = Coming.headers + 2
      BY <3>2
    <3> QED BY <1>1, <1>4, <3>1, <3>2, <3>3
  <2>2. Coming.headers \in Nat
    BY <1>4, TokenKinds
  <2> QED BY <1>2, <1>4, <2>1, <2>2
<1>7. PICK u \in Nat : u = Base + Len(header) /\ Base \in Nat
  <2>1. Base \in Nat
    BY ClientParts DEF ServerInv, ServerTypes, HandledInv, Base
  <2> QED BY <1>2, <2>1
<1>8. Holds(rbuf, client.stream, u, taken)
  BY <1>1, <1>7 DEF ServerInv, LineInv, Window
<1>9. rbuf' \in Seq(TokenType) /\ Holds(rbuf', client.stream, u + 1, taken)
  <2>1. rbuf' = After(rbuf, 1)
    BY <1>1, <1>4
  <2> QED BY <1>2, <1>3, <1>7, <1>8, <2>1, HoldsAfter
<1>10. ServerTypes'
  BY <1>1, <1>5, <1>9 DEF ServerInv, ServerTypes
<1>11. HandledInv'
  BY <1>1 DEF ServerInv, HandledInv, Sent
<1>12. BoundaryInv' /\ BodyInv'
  BY <1>1 DEF BoundaryInv, BodyInv, Serving
<1>13. LineInv'
  <2>1. (Base + Len(header))' = u + 1
    BY <1>1, <1>2, <1>5, <1>7 DEF Base
  <2>2. Window(Base + Len(header))'
    BY <1>1, <1>9, <2>1 DEF Window
  <2>3. ASSUME NEW k \in 1 .. Len(header') PROVE header'[k] = client.stream[Base + k]
    <3>1. CASE k \in 1 .. Len(header)
      BY <1>1, <1>5, <3>1 DEF ServerInv, LineInv
    <3>2. CASE k = Len(header) + 1
      <4>1. rbuf[1] = client.stream[u + 1] /\ u + 1 = Base + (Len(header) + 1)
        BY <1>2, <1>3, <1>7, <1>8 DEF Holds
      <4> QED BY <1>5, <3>2, <4>1
    <3> QED BY <1>2, <1>5, <3>1, <3>2
  <2>4. now = Len(handled) /\ Len(handled) < MaxKeepAlive
    BY <1>1 DEF ServerInv, LineInv
  <2>5. (More /\ Len(header) <= Coming.headers + 1)'
    BY <1>1, <1>4, <1>5, <1>6 DEF More, Coming
  <2>6. (\A k \in 1 .. Len(header) : header[k] = client.stream[Base + k])'
    BY <1>1, <2>3 DEF Base
  <2> QED BY <1>1, <2>2, <2>4, <2>5, <2>6 DEF LineInv
<1>14. ReplyInv'
  BY <1>1 DEF ServerInv, ReplyInv
<1>15. ResponsesExact'
  BY <1>1 DEF ServerInv, ResponsesExact
<1> QED
  BY <1>10, <1>11, <1>12, <1>13, <1>14, <1>15 DEF ServerInv

(* Where the body of the next request lies.                                *)
LEMMA BodyTokens ==
  ASSUME ServerInv, More
  PROVE  /\ Coming \in RequestType /\ Coming.headers \in Nat /\ Len(Coming.body) \in Nat
         /\ client.stream[Base + 1] = <<"request", Len(handled) + 1>>
         /\ client.at[Len(handled) + 2] = (Base + Coming.headers + 2) + Len(Coming.body)
         /\ \A k \in 1 .. Len(Coming.body) :
              client.stream[(Base + Coming.headers + 2) + k] = <<Coming.body[k], Len(handled) + 1>>
<1>1. IsClient(client) /\ Len(handled) \in Nat /\ Base \in Nat
  BY StreamTypes DEF ServerInv, ServerTypes
<1>2. PICK n \in Nat : n = Len(handled)
  BY <1>1
<1>3. PICK r : r = Coming
  OBVIOUS
<1>4. Len(client.reqs) \in Nat /\ n < Len(client.reqs) /\ n <= Len(client.reqs)
  <2>1. Len(client.reqs) \in Nat
    BY <1>1 DEF IsClient
  <2> QED BY <1>2, <2>1 DEF More
<1>5. /\ r \in RequestType /\ client.at[n + 2] = Base + Size(r)
      /\ \A j \in 1 .. Size(r) : client.stream[Base + j] = Token(r, n + 1, j)
  BY <1>1, <1>2, <1>3, <1>4, ClientParts DEF Base, Coming
<1>6. PICK i \in Nat : i = n + 1
  BY <1>2
<1>7. /\ r.headers \in Nat /\ Len(r.body) \in Nat /\ Size(r) = r.headers + 2 + Len(r.body)
      /\ Token(r, i, 1) = <<"request", i>>
      /\ \A k \in 1 .. Len(r.body) : Token(r, i, r.headers + 2 + k) = <<r.body[k], i>>
  BY <1>5, <1>6, TokenKinds
<1>8. PICK h \in Nat, l \in Nat : h = r.headers /\ l = Len(r.body)
  BY <1>7
<1>9. Size(r) = h + 2 + l
  BY <1>7, <1>8
<1>10. client.stream[Base + 1] = <<"request", i>>
  <2>1. 1 \in 1 .. Size(r)
    BY <1>8, <1>9
  <2> QED BY <1>5, <1>6, <1>7, <2>1
<1>11. client.at[n + 2] = (Base + h + 2) + l
  <2>1. PICK q \in Nat : q = Base
    BY <1>1
  <2>2. q + (h + 2 + l) = (q + h + 2) + l
    BY <1>8, <2>1
  <2> QED BY <1>5, <1>9, <2>1, <2>2
<1>12. ASSUME NEW k \in 1 .. l PROVE client.stream[(Base + h + 2) + k] = <<r.body[k], i>>
  <2>1. h + 2 + k \in 1 .. Size(r) /\ (Base + h + 2) + k = Base + (h + 2 + k)
    <3>1. PICK q \in Nat : q = Base
      BY <1>1
    <3>2. h + 2 + k \in 1 .. h + 2 + l /\ (q + h + 2) + k = q + (h + 2 + k)
      BY <1>8, <3>1
    <3> QED BY <1>9, <3>1, <3>2
  <2>2. Token(r, i, h + 2 + k) = <<r.body[k], i>>
    BY <1>7, <1>8
  <2> QED BY <1>5, <1>6, <2>1, <2>2
<1> QED
  BY <1>2, <1>3, <1>5, <1>6, <1>7, <1>8, <1>10, <1>11, <1>12

(* The header ends: the session is the next request, its body starts with  *)
(* what came with the header.                                              *)
LEMMA SessionStep == ASSUME ServerInv, Session PROVE ServerInv'
<1>1. /\ wpc = "line" /\ HasLine /\ RawLine[1][1] = "empty" /\ Parses
      /\ now' = header[1][2] /\ closing' = Parsed.close /\ wpc' = "body"
      /\ UNCHANGED <<client, arrived, taken, header, force, ok, logs>>
  BY DEF Session, Goto
<1> USE DEF logs
<1>2. /\ rbuf \in Seq(TokenType) /\ header \in Seq(TokenType) /\ Len(header) \in Nat /\ taken \in Nat
      /\ Len(handled) \in Nat /\ Base \in Nat
  BY StreamTypes
<1>3. rbuf # <<>> /\ Len(rbuf) \in Nat /\ 1 <= Len(rbuf)
  BY <1>1, <1>2 DEF HasLine
<1>4. /\ More /\ Coming \in RequestType /\ Len(header) <= Coming.headers + 1
      /\ rbuf[1] = Token(Coming, Len(handled) + 1, Len(header) + 1)
      /\ LineLen = 1 /\ RawLine[1] = rbuf[1]
  BY <1>1, <1>3, NextLine
<1>5. PICK h \in Nat, l \in Nat : h = Coming.headers /\ l = Len(Coming.body)
  BY <1>4, BodyTokens
<1>6. Len(header) = h + 1
  <2>1. PICK i \in Nat : i = Len(handled) + 1
    BY <1>2
  <2>2. PICK j \in Nat : j = Len(header) + 1
    BY <1>2
  <2>3. Token(Coming, i, j)[1] = "empty"
    BY <1>1, <1>4, <2>1, <2>2
  <2>4. j # 1 /\ j \notin 2 .. h + 1
    BY <1>4, <1>5, <2>1, <2>3, TokenKinds
  <2> QED BY <1>2, <1>4, <1>5, <2>2, <2>4
<1>7. header[1] = <<"request", Len(handled) + 1>>
  <2>1. 1 \in 1 .. Len(header)
    BY <1>5, <1>6
  <2>2. header[1] = client.stream[Base + 1]
    BY <1>1, <2>1 DEF ServerInv, LineInv
  <2> QED BY <1>4, <2>2, BodyTokens
<1>8. now' = Len(handled) + 1 /\ Parsed = Coming
  BY <1>1, <1>7 DEF Parsed, Coming
<1>9. PICK rest : rest = After(rbuf, 1)
  OBVIOUS
<1>10. PICK n : n = IF l < Len(rest) THEN l ELSE Len(rest)
  OBVIOUS
<1>11. post' = SubSeq(rest, 1, n) /\ rbuf' = After(rest, n)
  BY <1>4, <1>5, <1>8, <1>9, <1>10 DEF Session
<1>12. PICK v \in Nat : v = Base + h + 2
  BY <1>2, <1>5
<1>13. rest \in Seq(TokenType) /\ Holds(rest, client.stream, v, taken)
  <2>1. PICK u \in Nat : u = Base + Len(header)
    BY <1>2
  <2>2. Holds(rbuf, client.stream, u, taken)
    BY <1>1, <2>1 DEF ServerInv, LineInv, Window
  <2>3. v = u + 1
    <3>1. PICK q \in Nat : q = Base
      BY <1>2
    <3>2. v = q + h + 2 /\ u = q + (h + 1)
      BY <1>6, <1>12, <2>1, <3>1
    <3> QED BY <1>5, <3>1, <3>2
  <2> QED BY <1>2, <1>3, <1>9, <2>1, <2>2, <2>3, HoldsAfter
<1>14. n \in Nat /\ n <= l /\ n <= Len(rest) /\ (n < l => n = Len(rest))
  <2>1. Len(rest) \in Nat
    BY <1>13
  <2> QED BY <1>5, <1>10, <2>1
<1>15. /\ rbuf' \in Seq(TokenType) /\ Holds(rbuf', client.stream, v + n, taken)
       /\ Len(rbuf') = Len(rest) - n
  <2>1. PICK t \in Nat : t = taken
    BY <1>2
  <2>2. PICK S : S = client.stream
    OBVIOUS
  <2>3. Holds(rest, S, v, t)
    BY <1>13, <2>1, <2>2
  <2>4. rest \in Seq(TokenType)
    BY <1>13
  <2>5. n \in Nat
    BY <1>14
  <2>6. n <= Len(rest)
    BY <1>14
  <2>7. After(rest, n) \in Seq(TokenType)
    BY <2>3, <2>4, <2>5, <2>6, HoldsAfter
  <2>8. Holds(After(rest, n), S, v + n, t)
    BY <2>3, <2>4, <2>5, <2>6, HoldsAfter
  <2>9. Len(After(rest, n)) = Len(rest) - n
    BY <2>4, <2>5, <2>6 DEF After
  <2> QED BY <1>11, <2>1, <2>2, <2>7, <2>8, <2>9
<1>16. post' \in Seq(TokenType) /\ Len(post') = n /\ \A k \in 1 .. n : post'[k] = rest[k]
  <2>1. /\ SubSeq(rest, 0 + 1, n) \in Seq(TokenType) /\ Len(SubSeq(rest, 0 + 1, n)) = n - 0
        /\ \A k \in 1 .. n - 0 : SubSeq(rest, 0 + 1, n)[k] = rest[0 + k]
    BY <1>13, <1>14, Part
  <2>2. n - 0 = n /\ 0 + 1 = 1 /\ \A k \in 1 .. n : 0 + k = k
    BY <1>14
  <2> QED BY <1>11, <2>1, <2>2
<1>17. ASSUME NEW k \in 1 .. n PROVE post'[k] = <<Coming.body[k], Len(handled) + 1>>
  <2>1. k \in 1 .. Len(rest) /\ k \in 1 .. l
    <3>1. Len(rest) \in Nat
      BY <1>13
    <3> QED BY <1>5, <1>14, <3>1
  <2>2. post'[k] = client.stream[v + k]
    BY <1>13, <1>16, <2>1 DEF Holds
  <2>3. client.stream[v + k] = <<Coming.body[k], Len(handled) + 1>>
    BY <1>4, <1>5, <1>12, <2>1, BodyTokens
  <2> QED BY <2>2, <2>3
<1>18. n < l => rbuf' = <<>>
  <2>1. n < l => Len(rbuf') = 0
    <3>1. Len(rest) \in Nat
      BY <1>13
    <3> QED BY <1>14, <1>15, <3>1
  <2> QED BY <1>15, <2>1
<1>19. ServerTypes'
  <2>1. closing' \in BOOLEAN
    BY <1>1, <1>4, <1>8 DEF RequestType
  <2>2. now' \in Nat
    BY <1>2, <1>8
  <2> QED BY <1>1, <1>15, <1>16, <2>1, <2>2 DEF ServerInv, ServerTypes
<1>20. HandledInv'
  BY <1>1 DEF ServerInv, HandledInv, Sent
<1>21. BoundaryInv' /\ LineInv'
  BY <1>1 DEF BoundaryInv, LineInv, Serving
<1>22. BodyInv'
  <2>1. Coming' = Coming /\ Base' = Base /\ More' /\ handled' = handled
    BY <1>1, <1>4 DEF Coming, Base, More
  <2>2. Len(handled) < MaxKeepAlive
    BY <1>1 DEF ServerInv, LineInv
  <2>3. (Base + Coming.headers + 2 + Len(post))' = v + n
    BY <1>5, <1>12, <1>16, <2>1
  <2>4. Window(Base + Coming.headers + 2 + Len(post))'
    BY <1>1, <1>15, <2>3 DEF Window
  <2>5. Len(post') <= Len(Coming.body) /\ (Len(post') < Len(Coming.body) => rbuf' = <<>>)
    BY <1>5, <1>14, <1>16, <1>18
  <2>6. \A k \in 1 .. Len(post') : post'[k] = <<Coming.body[k], now'>>
    BY <1>8, <1>16, <1>17
  <2> QED BY <1>8, <2>1, <2>2, <2>4, <2>5, <2>6 DEF BodyInv
<1>23. ReplyInv'
  <2>1. now = Len(handled) /\ wrote \in Seq(Replies)
    BY <1>1 DEF ServerInv, LineInv, ServerTypes
  <2> SUFFICES ASSUME NEW k \in 1 .. Len(wrote)
               PROVE  ~wrote[k].close /\ wrote[k].req <= now' /\ wrote[k].req < now'
    BY <1>1 DEF ReplyInv
  <2>2. wrote[k] \in Replies
    BY <2>1
  <2>3. wrote[k].req \in Nat
    BY <2>2 DEF Replies
  <2>4. wrote[k].req <= now /\ ~wrote[k].close
    BY <1>1 DEF ServerInv, ReplyInv, Over
  <2> QED BY <1>2, <1>8, <2>1, <2>3, <2>4
<1>24. ResponsesExact'
  BY <1>1 DEF ServerInv, ResponsesExact
<1> QED
  BY <1>19, <1>20, <1>21, <1>22, <1>23, <1>24 DEF ServerInv

(* The rest of the body comes from the socket, when the buffer is empty.   *)
LEMMA BodyReceivesStep == ASSUME ServerInv, BodyReceives PROVE ServerInv'
<1>1. PICK n : /\ n = IF arrived - taken < Remaining THEN arrived - taken ELSE Remaining
               /\ wpc = "body" /\ n > 0
               /\ post' = post \o SubSeq(client.stream, taken + 1, taken + n) /\ taken' = taken + n
               /\ UNCHANGED <<wpc, client, arrived, rbuf, header, now, closing, force, ok, logs>>
  BY DEF BodyReceives
<1> USE DEF logs
<1>2. More /\ now = Len(handled) + 1 /\ Len(post) <= Len(Coming.body)
      /\ Window(Base + Coming.headers + 2 + Len(post))
      /\ (\A k \in 1 .. Len(post) : post[k] = <<Coming.body[k], now>>)
      /\ (Len(post) < Len(Coming.body) => rbuf = <<>>) /\ Len(handled) < MaxKeepAlive
  BY <1>1 DEF ServerInv, BodyInv
<1>3. PICK h \in Nat, l \in Nat : h = Coming.headers /\ l = Len(Coming.body)
  BY <1>2, BodyTokens
<1>4. PICK p \in Nat, t \in Nat, a \in Nat : p = Len(post) /\ t = taken /\ a = arrived
  BY StreamTypes
<1>5. Remaining = l - p
  BY <1>2, <1>3, <1>4 DEF Remaining, Coming
<1>6. n \in Nat /\ n > 0 /\ p + n <= l /\ t + n <= a /\ p < l /\ p <= l
  <2>1. n = (IF a - t < l - p THEN a - t ELSE l - p) /\ n > 0 /\ p <= l
    BY <1>1, <1>2, <1>3, <1>4, <1>5
  <2> QED BY <1>3, <1>4, <2>1
<1>7. rbuf = <<>>
  BY <1>2, <1>3, <1>4, <1>6
<1>8. PICK v \in Nat : v = Base + h + 2
  BY <1>3, StreamTypes
<1>9. v + p = t
  <2>1. (v + p) + Len(rbuf) = t
    BY <1>2, <1>3, <1>4, <1>8 DEF Window, Holds
  <2>2. Len(rbuf) = 0
    BY <1>7
  <2> QED BY <1>4, <1>8, <2>1, <2>2
<1>10. Holds(post, client.stream, v, t)
  <2>1. ASSUME NEW k \in 1 .. Len(post) PROVE post[k] = client.stream[v + k]
    <3>1. k \in 1 .. l
      BY <1>3, <1>4, <1>6
    <3> QED BY <1>2, <1>3, <1>8, <3>1, BodyTokens
  <2> QED BY <1>4, <1>9, <2>1 DEF Holds
<1>11. post' \in Seq(TokenType) /\ Holds(post', client.stream, v, t + n)
  <2>1. PICK S \in Seq(TokenType) : S = client.stream
    BY StreamTypes
  <2>2. t <= t + n /\ t + n <= Len(S) /\ t + n \in Nat
    <3>1. a <= Len(S) /\ Len(S) \in Nat
      BY <1>4, <2>1, StreamTypes
    <3> QED BY <1>4, <1>6, <3>1
  <2>3. PICK m \in Nat : m = t + n
    BY <2>2
  <2>4. post \in Seq(TokenType) /\ Holds(post, S, v, t) /\ t <= m /\ m <= Len(S)
    BY <1>10, <2>1, <2>2, <2>3, StreamTypes
  <2>5. /\ post \o SubSeq(S, t + 1, m) \in Seq(TokenType)
        /\ Holds(post \o SubSeq(S, t + 1, m), S, v, m)
    BY <2>4, HoldsMore
  <2> QED BY <1>1, <1>4, <2>1, <2>3, <2>5
<1>12. Len(post') = p + n /\ Len(post') \in Nat
  <2>1. v + Len(post') = t + n /\ Len(post') \in Nat
    BY <1>11 DEF Holds
  <2> QED BY <1>4, <1>6, <1>8, <1>9, <2>1
<1>13. ServerTypes'
  <2>1. taken' \in Nat /\ taken' <= arrived
    BY <1>1, <1>4, <1>6
  <2> QED BY <1>1, <1>11, <2>1 DEF ServerInv, ServerTypes
<1>14. HandledInv'
  BY <1>1 DEF ServerInv, HandledInv, Sent
<1>15. BoundaryInv' /\ LineInv'
  BY <1>1 DEF BoundaryInv, LineInv, Serving
<1>16. BodyInv'
  <2>1. Coming' = Coming /\ Base' = Base /\ More' /\ handled' = handled /\ now' = now /\ rbuf' = rbuf
    BY <1>1, <1>2 DEF Coming, Base, More
  <2>2. (Base + Coming.headers + 2 + Len(post))' = v + (p + n)
    BY <1>3, <1>8, <1>12, <2>1
  <2>3. Holds(<<>>, client.stream, v + (p + n), t + n)
    <3>1. v + (p + n) + 0 = t + n
      BY <1>4, <1>6, <1>8, <1>9
    <3> QED BY <3>1 DEF Holds
  <2>4. Window(Base + Coming.headers + 2 + Len(post))'
    BY <1>1, <1>4, <1>7, <2>2, <2>3 DEF Window
  <2>5. Len(post') <= Len(Coming.body) /\ (Len(post') < Len(Coming.body) => rbuf' = <<>>)
    BY <1>3, <1>6, <1>7, <1>12, <2>1
  <2>6. ASSUME NEW k \in 1 .. Len(post') PROVE post'[k] = <<Coming.body[k], now>>
    <3>1. k \in 1 .. l
      BY <1>3, <1>4, <1>6, <1>12
    <3>2. post'[k] = client.stream[v + k]
      BY <1>11 DEF Holds
    <3> QED BY <1>2, <1>3, <1>8, <3>1, <3>2, BodyTokens
  <2> QED BY <1>2, <2>1, <2>4, <2>5, <2>6 DEF BodyInv
<1>17. ReplyInv'
  BY <1>1 DEF ServerInv, ReplyInv
<1>18. ResponsesExact'
  BY <1>1 DEF ServerInv, ResponsesExact
<1> QED
  BY <1>13, <1>14, <1>15, <1>16, <1>17, <1>18 DEF ServerInv

(* A request whose body is there goes to its handler.                      *)
LEMMA EnterStep ==
  ASSUME ServerInv, Enter, ok' \in BOOLEAN, wpc' \in {"function", "missing", "file"}
  PROVE  ServerInv'
<1>1. /\ wpc = "body" /\ Remaining = 0 /\ handled' = Append(handled, <<now, post>>)
      /\ (force' <=> Len(handled) + 1 >= MaxKeepAlive) /\ force' \in BOOLEAN /\ closing' \in BOOLEAN
      /\ UNCHANGED <<conn, header, post, now, wrote>>
  <2>1. /\ wpc = "body" /\ Remaining = 0 /\ handled' = Append(handled, <<now, post>>)
        /\ UNCHANGED <<conn, header, post, now, wrote>>
    BY DEF Enter, BodyThere
  <2>2. /\ force' = (Len(handled) + 1 >= MaxKeepAlive)
        /\ closing' = (closing \/ Len(handled) + 1 >= MaxKeepAlive)
    BY DEF Enter
  <2>3. force' <=> Len(handled) + 1 >= MaxKeepAlive
    BY <2>2, Zenon
  <2>4. closing' \in BOOLEAN /\ force' \in BOOLEAN
    <3>1. closing \in BOOLEAN
      BY DEF ServerInv, ServerTypes
    <3>2. CASE Len(handled) + 1 >= MaxKeepAlive
      BY <2>2, <3>2
    <3>3. CASE ~(Len(handled) + 1 >= MaxKeepAlive)
      BY <2>2, <3>1, <3>3
    <3> QED BY <3>2, <3>3
  <2> QED BY <2>1, <2>3, <2>4
<1> USE DEF conn
<1>2. /\ More /\ now = Len(handled) + 1 /\ Len(post) <= Len(Coming.body)
      /\ Window(Base + Coming.headers + 2 + Len(post))
      /\ (\A k \in 1 .. Len(post) : post[k] = <<Coming.body[k], now>>)
      /\ Len(handled) < MaxKeepAlive
  BY <1>1 DEF ServerInv, BodyInv
<1>3. PICK n \in Nat : n = Len(handled)
  BY StreamTypes
<1>4. handled \in Seq(Nat \X Seq(TokenType)) /\ now \in Nat /\ post \in Seq(TokenType)
  BY DEF ServerInv, ServerTypes
<1>5. /\ handled' \in Seq(Nat \X Seq(TokenType)) /\ Len(handled') = n + 1
      /\ \A i \in 1 .. n : handled'[i] = handled[i]
      /\ handled'[n + 1] = <<now, post>>
  BY <1>1, <1>3, <1>4
<1>6. Coming \in RequestType /\ Coming.body \in Seq({"byte", "line"})
      /\ Len(Coming.body) \in Nat /\ Len(post) \in Nat
  BY <1>2, <1>4, BodyTokens DEF RequestType
<1>7. Len(post) = Len(Coming.body)
  <2>1. Len(Coming.body) - Len(post) = 0
    BY <1>1, <1>2 DEF Remaining, Coming
  <2> QED BY <1>6, <2>1
<1>8. post = [j \in DOMAIN Coming.body |-> <<Coming.body[j], now>>]
  <2>1. DOMAIN post = 1 .. Len(Coming.body) /\ DOMAIN Coming.body = 1 .. Len(Coming.body)
    BY <1>4, <1>6, <1>7
  <2>2. post = [j \in DOMAIN post |-> post[j]]
    BY <1>4
  <2> QED BY <1>2, <1>7, <2>1, <2>2
<1>9. <<now, post>> = Sent(n + 1)
  BY <1>2, <1>3, <1>8 DEF Sent, Coming
<1>10. ServerTypes'
  BY <1>1, <1>4, <1>5 DEF ServerInv, ServerTypes, Serving
<1>11. HandledInv'
  <2>1. n + 1 <= Len(client.reqs) /\ n + 1 <= MaxKeepAlive
    <3>1. Len(client.reqs) \in Nat /\ MaxKeepAlive \in Nat
      BY ServerAssumption DEF ServerInv, ServerTypes, IsClient
    <3> QED BY <1>2, <1>3, <3>1 DEF More
  <2>2. ASSUME NEW i \in 1 .. n + 1 PROVE handled'[i] = Sent(i)
    <3>1. CASE i \in 1 .. n
      BY <1>3, <1>5, <3>1 DEF ServerInv, HandledInv
    <3>2. CASE i = n + 1
      BY <1>5, <1>9, <3>2
    <3> QED BY <1>3, <3>1, <3>2
  <2>3. \A i : Sent(i)' = Sent(i)
    BY <1>1 DEF Sent
  <2> QED BY <1>1, <1>5, <2>1, <2>2, <2>3 DEF HandledInv
<1>12. BoundaryInv'
  <2>1. Base' = client.at[n + 2]
    <3>1. (n + 1) + 1 = n + 2
      BY <1>3
    <3> QED BY <1>1, <1>5, <3>1 DEF Base
  <2>2. client.at[n + 2] = Base + Coming.headers + 2 + Len(post)
    BY <1>2, <1>3, <1>7, BodyTokens
  <2>3. Window(Base)'
    BY <1>1, <1>2, <2>1, <2>2 DEF Window
  <2>4. now' = Len(handled') /\ (force' <=> Len(handled') >= MaxKeepAlive)
    BY <1>1, <1>2, <1>3, <1>5
  <2> QED BY <2>3, <2>4 DEF BoundaryInv
<1>13. LineInv' /\ BodyInv'
  BY DEF LineInv, BodyInv
<1>14. ReplyInv'
  BY <1>1 DEF ServerInv, ReplyInv, Over
<1>15. ResponsesExact'
  BY <1>1 DEF ServerInv, ResponsesExact
<1> QED
  BY <1>10, <1>11, <1>12, <1>13, <1>14, <1>15 DEF ServerInv

(* The response of a handler.                                              *)
LEMMA AnswerStep ==
  ASSUME ServerInv, wpc \in {"function", "missing", "file"}, wpc' = "write_wait",
         NEW code \in {"200", "404"}, closing' \in BOOLEAN, Write(code, closing'),
         UNCHANGED <<conn, header, post, now, force, ok, handled>>
  PROVE  ServerInv'
<1> USE DEF conn
<1>1. wrote' = Append(wrote, [req |-> now, code |-> code, close |-> closing'])
  BY DEF Write
<1>2. \A k \in 1 .. Len(wrote) : ~wrote[k].close /\ wrote[k].req <= now /\ wrote[k].req < now
  BY DEF ServerInv, ReplyInv, Over
<1>3. ResponsesExact' /\ wrote' \in Seq(Replies)
  <2>1. PICK c \in BOOLEAN : c = closing'
    OBVIOUS
  <2>2. wrote' = Append(wrote, [req |-> now, code |-> code, close |-> c])
    BY <1>1, <2>1
  <2> QED BY <1>2, <2>2, WriteExact DEF ServerInv
<1>4. ServerTypes'
  BY <1>3 DEF ServerInv, ServerTypes, Serving
<1>5. HandledInv'
  BY DEF ServerInv, HandledInv, Sent
<1>6. BoundaryInv'
  <2>1. Window(Base) => Window(Base)'
    BY DEF Window, Base
  <2> QED BY <2>1 DEF ServerInv, BoundaryInv, Serving
<1>7. LineInv' /\ BodyInv'
  BY DEF LineInv, BodyInv
<1>8. ReplyInv'
  <2>1. wrote \in Seq(Replies) /\ now \in Nat
    BY DEF ServerInv, ServerTypes
  <2>2. PICK n \in Nat : n = Len(wrote)
    BY <2>1
  <2>3. /\ Len(wrote') = n + 1 /\ \A k \in 1 .. n : wrote'[k] = wrote[k]
        /\ wrote'[n + 1].req = now /\ wrote'[n + 1].close = closing'
    BY <1>1, <2>1, <2>2
  <2> SUFFICES ASSUME NEW k \in 1 .. n + 1
               PROVE  wrote'[k].req <= now /\ (wrote'[k].close => closing')
    BY <2>3 DEF ReplyInv
  <2>4. CASE k \in 1 .. n
    BY <1>2, <2>2, <2>3, <2>4
  <2>5. CASE k = n + 1
    BY <2>1, <2>3, <2>5
  <2> QED BY <2>2, <2>4, <2>5
<1> QED
  BY <1>3, <1>4, <1>5, <1>6, <1>7, <1>8 DEF ServerInv

(* The steps of the handlers.                                              *)
LEMMA HandlerSteps ==
  ASSUME ServerInv,
         \/ CallFunction \/ NotFound \/ CallReadFile
         \/ FunctionAnswers \/ NotFoundAnswers \/ FileAnswers
  PROVE  ServerInv'
<1>1. ASSUME CallFunction \/ NotFound \/ CallReadFile PROVE ServerInv'
  BY <1>1, EnterStep DEF CallFunction, NotFound, CallReadFile, Goto
<1>2. closing \in BOOLEAN
  BY DEF ServerInv, ServerTypes
<1>3. ASSUME FunctionAnswers PROVE ServerInv'
  BY <1>3, AnswerStep DEF FunctionAnswers, Goto
<1>4. ASSUME NotFoundAnswers PROVE ServerInv'
  <2>1. closing' \in BOOLEAN
    BY <1>2, <1>4 DEF NotFoundAnswers
  <2> QED BY <1>4, <2>1, AnswerStep DEF NotFoundAnswers, Goto
<1>5. ASSUME FileAnswers PROVE ServerInv'
  <2>1. closing' = closing /\ UNCHANGED <<conn, header, post, now, force, ok, handled>>
        /\ Write("200", closing')
    BY <1>5 DEF FileAnswers, sess
  <2> QED BY <1>2, <1>5, <2>1, AnswerStep DEF FileAnswers, Goto
<1> QED
  BY <1>1, <1>3, <1>4, <1>5

(* Every step of the server keeps the invariant.                           *)
LEMMA ServerStep == ASSUME ServerInv, [ServerNext]_svars PROVE ServerInv'
<1> DEFINE Moves == \/ StopSeen \/ EndOfFile \/ ErrorSent \/ FunctionSilent \/ WriteOk \/ WriteFails
                    \/ Decide \/ Stop \/ Rewritten \/ OthersServe \/ ReadFileStep
                    \/ UNCHANGED svars
           Handles == \/ CallFunction \/ NotFound \/ CallReadFile
                      \/ FunctionAnswers \/ NotFoundAnswers \/ FileAnswers
<1>1. CASE Moves
  BY <1>1, MoveSteps
<1>2. CASE Handles
  BY <1>2, HandlerSteps
<1>3. CASE Arrive \/ HangUp
  BY <1>3, WireSteps
<1>4. CASE LineTooLong \/ BadRequest \/ TooLarge \/ ReadFails
  BY <1>4, ErrorSteps
<1>5. CASE Accept \/ Shutdown \/ Dropped
  BY <1>5, AcceptStep, EndSteps
<1>6. CASE NextRequest
  BY <1>6, NextRequestStep
<1>7. CASE LineReceives
  BY <1>7, LineReceivesStep
<1>8. CASE HeaderLine
  BY <1>8, HeaderLineStep
<1>9. CASE Session
  BY <1>9, SessionStep
<1>10. CASE BodyReceives
  BY <1>10, BodyReceivesStep
<1> QED
  BY <1>1, <1>2, <1>3, <1>4, <1>5, <1>6, <1>7, <1>8, <1>9, <1>10
     DEF ServerNext, WorkerNext, Read, Serve

(* It holds in every state the server reaches.                             *)
LEMMA ServerInvariant == ServerSpec => []ServerInv
<1>1. ServerInv /\ [ServerNext]_svars => ServerInv'
  BY ServerStep
<1> QED
  BY <1>1, ServerStarts, PTL DEF ServerSpec

(* Keep-alive framing never slips (netutils.ecs:458-560, 687-719): the     *)
(* handlers of a connection see the first requests of its client, in       *)
(* order, each once and with its whole body, however the network cut the   *)
(* stream, whatever a body looks like, whenever the deadline or stop()     *)
(* comes, for every client, every limit and any number of requests.        *)
THEOREM ServerRequestsExact == ServerSpec => []RequestsExact
<1>1. ServerInv => RequestsExact
  <2> SUFFICES ASSUME ServerInv PROVE RequestsExact
    OBVIOUS
  <2>1. DOMAIN handled = 1 .. Len(handled) /\ handled = [i \in DOMAIN handled |-> handled[i]]
    BY DEF ServerInv, ServerTypes
  <2>2. \A i \in DOMAIN handled : handled[i] = Sent(i)
    BY <2>1 DEF ServerInv, HandledInv
  <2>3. handled = [i \in DOMAIN handled |-> Sent(i)]
    BY <2>1, <2>2
  <2> QED BY <2>3 DEF RequestsExact, ServerInv, HandledInv
<1> QED
  BY <1>1, ServerInvariant, PTL

(* The responses of a connection (netutils.ecs:682-718) are in the order   *)
(* of its requests, at most one handler's response for each, and nothing   *)
(* follows a response that announced the end.                              *)
THEOREM ServerResponsesExact == ServerSpec => []ResponsesExact
<1>1. ServerInv => ResponsesExact
  BY DEF ServerInv
<1> QED
  BY <1>1, ServerInvariant, PTL
=============================================================================

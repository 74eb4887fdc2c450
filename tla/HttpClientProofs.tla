-------------------------- MODULE HttpClientProofs --------------------------
(***************************************************************************)
(* What a client may rely on: http_request, for every set of responses,    *)
(* any limits and any number of endpoints and requests, and the trust in   *)
(* the peer of a TLS stream, for any number of sockets and sources of      *)
(* trust anchors.                                                          *)
(***************************************************************************)
EXTENDS HttpClient, TlsTrust, WellFoundedInduction, TLAPS

(***************************************************************************)
(* http_request: the inductive invariant.                                  *)
(***************************************************************************)
Starting == {"connect", "connecting", "secure", "send"}
Reading  == {"rest"} \cup Lines \cup Exacts

(* Every variable has its type, and no more arrives than is sent.          *)
BufferTypes ==
  /\ reading \in BOOLEAN /\ need \in Nat /\ interims \in Nat
  /\ pending \in Seq(TokenType) /\ sbuf \in Seq(TokenType)
  /\ out \in Seq(TokenType) /\ body \in Seq(TokenType)

ClientTypes ==
  /\ pc \in {"idle"} \cup Starting \cup Reading
  /\ left \in Nat /\ IsResponse(resp)
  /\ total \in Nat /\ arrived \in Nat /\ taken \in Nat
  /\ taken <= arrived /\ arrived <= total /\ total <= Len(resp.wire)
  /\ BufferTypes

(* A socket is shut down before the next attempt, and an attempt uses up   *)
(* an endpoint: the first one is told from those that follow a failed one. *)
SockInv ==
  /\ SocketsReleased
  /\ pc = "connect" => left <= Endpoints
  /\ pc = "connecting" => left < Endpoints

(* Until the request is sent, nothing is left of an earlier one.           *)
StartInv ==
  pc \in Starting =>
    /\ taken = 0 /\ pending = <<>> /\ ~reading /\ sbuf = <<>> /\ out = <<>> /\ body = <<>>
    /\ interims = 0

(* The tokens of s lie in t behind the first m.                            *)
Holds(s, t, m) == \A k \in 1 .. Len(s) : s[k] = t[m + k]

(* l tokens of w behind the first a are those of t behind the first q.     *)
Same(w, a, t, q, l) == \A j \in 1 .. l : w[a + j] = t[q + j]

(* The first u tokens were used; what was taken behind them is in pending, *)
(* and behind that in the buffer of the read under way.                    *)
At(u) ==
  /\ Holds(pending, resp.wire, u) /\ Holds(sbuf, resp.wire, u + Len(pending))
  /\ u + Len(pending) + Len(sbuf) = taken
  /\ ~reading => sbuf = <<>>

(* s is the first n bytes of the body.                                     *)
Got(s, n) == Len(s) = n /\ n <= Len(resp.body) /\ Holds(s, resp.body, 0)

(* What the first u tokens have become, wherever http_request stands.      *)
HeadInv(u) ==
  pc = "head" => out = <<>> /\ body = <<>> /\ interims <= resp.interim /\ u = 5 * interims

LengthInv(u) ==
  pc = "exact_body" =>
    /\ resp.framing = "length" /\ Got(out, Len(out)) /\ Len(out) + need = Len(resp.body)
    /\ u = HeadEnd(resp) + Len(out)

RestInv(u) ==
  pc = "rest" =>
    /\ resp.framing = "close" /\ Got(body, Len(body)) /\ pending = <<>>
    /\ u = HeadEnd(resp) + Len(body)

(* Before a size line; a garbled body has none.                            *)
SizeInv(u) ==
  pc = "size" =>
    /\ out = <<>>
    /\ \/ resp.framing = "garbled" /\ body = <<>> /\ u = HeadEnd(resp)
       \/ /\ resp.framing = "chunked"
          /\ \E c \in 0 .. Chunks(resp) : Got(body, resp.cut[c + 1]) /\ u = Mark(resp, c)

(* In chunk c, and behind it.                                              *)
ChunkInv(u) ==
  pc = "exact_chunk" =>
    /\ resp.framing = "chunked"
    /\ \E c \in 1 .. Chunks(resp) :
         /\ Got(body, resp.cut[c]) /\ Len(out) + need = ChunkLen(resp, c)
         /\ Holds(out, resp.body, resp.cut[c]) /\ u = Mark(resp, c - 1) + 3 + Len(out)

EndInv(u) ==
  pc = "exact_end" =>
    /\ resp.framing = "chunked"
    /\ \E c \in 1 .. Chunks(resp) :
         /\ Got(body, resp.cut[c + 1]) /\ Len(out) + need = 2
         /\ Holds(out, CRLF, 0) /\ u = Mark(resp, c) - 2 + Len(out)

TrailerInv(u) ==
  pc = "trailer" =>
    /\ resp.framing = "chunked" /\ out = <<>> /\ Got(body, Len(resp.body))
    /\ \/ u = Mark(resp, Chunks(resp)) + 3
       \/ resp.trailer /\ u = Mark(resp, Chunks(resp)) + 6

Phase(u) ==
  /\ HeadInv(u) /\ LengthInv(u) /\ RestInv(u) /\ SizeInv(u)
  /\ ChunkInv(u) /\ EndInv(u) /\ TrailerInv(u)

(* A read is under way only for what is missing.                           *)
ReadInv ==
  reading =>
    /\ pc \in Lines => ~Found(pending, Delim) /\ ~Found(sbuf, Delim)
    /\ pc \in Exacts => pending = <<>> /\ Len(sbuf) < need

ResultInv ==
  /\ pc # "idle" => result = NoResult
  /\ BodyExact /\ CompleteReturned

ClientInv ==
  /\ ClientTypes /\ SockInv /\ StartInv /\ ResultInv
  /\ pc \in Reading => ReadInv /\ \E u \in Nat : At(u) /\ Phase(u)

-----------------------------------------------------------------------------
(* Facts about sequences that hold a part of another one.                  *)
LEMMA HoldsMore ==
  ASSUME NEW s \in Seq(TokenType), NEW x \in Seq(TokenType), NEW t, NEW m \in Nat,
         Holds(s, t, m), Holds(x, t, m + Len(s))
  PROVE  Holds(s \o x, t, m)
<1>1. PICK n \in Nat : n = Len(s)
  OBVIOUS
<1>2. PICK l \in Nat : l = Len(x)
  OBVIOUS
<1>3. Len(s \o x) = n + l
  BY <1>1, <1>2
<1> SUFFICES ASSUME NEW k \in 1 .. n + l PROVE (s \o x)[k] = t[m + k]
  BY <1>3 DEF Holds
<1>4. CASE k \in 1 .. n
  BY <1>1, <1>4 DEF Holds
<1>5. CASE k \in n + 1 .. n + l
  <2>1. (s \o x)[k] = x[k - n] /\ k - n \in 1 .. l
    BY <1>1, <1>2, <1>5
  <2>2. x[k - n] = t[m + n + (k - n)]
    BY <1>1, <1>2, <2>1 DEF Holds
  <2>3. m + n + (k - n) = m + k
    BY <1>5
  <2> QED BY <2>1, <2>2, <2>3
<1>6. k \in 1 .. n \/ k \in n + 1 .. n + l
  BY <1>1, <1>2
<1> QED BY <1>4, <1>5, <1>6

LEMMA HoldsSlice ==
  ASSUME NEW t \in Seq(TokenType), NEW a \in Nat, NEW b \in Nat, a <= b, b <= Len(t)
  PROVE  /\ SubSeq(t, a + 1, b) \in Seq(TokenType) /\ Len(SubSeq(t, a + 1, b)) = b - a
         /\ Holds(SubSeq(t, a + 1, b), t, a)
<1>1. SubSeq(t, a + 1, b) \in Seq(TokenType)
  OBVIOUS
<1>2. Len(SubSeq(t, a + 1, b)) = b - a
  OBVIOUS
<1>3. \A k \in 1 .. b - a : SubSeq(t, a + 1, b)[k] = t[a + k]
  OBVIOUS
<1> QED BY <1>1, <1>2, <1>3 DEF Holds

LEMMA HoldsRest ==
  ASSUME NEW s \in Seq(TokenType), NEW t, NEW m \in Nat, NEW n \in Nat, n <= Len(s),
         Holds(s, t, m)
  PROVE  /\ Rest(s, n) \in Seq(TokenType) /\ Len(Rest(s, n)) = Len(s) - n
         /\ Holds(Rest(s, n), t, m + n)
<1>1. Rest(s, n) \in Seq(TokenType) /\ Len(Rest(s, n)) = Len(s) - n
      /\ \A k \in 1 .. Len(s) - n : Rest(s, n)[k] = s[n + k]
  BY HoldsSlice DEF Rest, Holds
<1>2. PICK l \in Nat : l = Len(s)
  OBVIOUS
<1>3. ASSUME NEW k \in 1 .. l - n PROVE Rest(s, n)[k] = t[m + n + k]
  <2>1. n + k \in 1 .. l /\ m + (n + k) = m + n + k
    OBVIOUS
  <2> QED BY <1>1, <1>2, <2>1 DEF Holds
<1> QED BY <1>1, <1>2, <1>3 DEF Holds

LEMMA HoldsFirst ==
  ASSUME NEW s \in Seq(TokenType), NEW t, NEW m \in Nat, NEW n \in Nat, n <= Len(s),
         Holds(s, t, m)
  PROVE  /\ SubSeq(s, 1, n) \in Seq(TokenType) /\ Len(SubSeq(s, 1, n)) = n
         /\ Holds(SubSeq(s, 1, n), t, m)
<1>1. SubSeq(s, 1, n) \in Seq(TokenType) /\ Len(SubSeq(s, 1, n)) = n
      /\ \A k \in 1 .. n : SubSeq(s, 1, n)[k] = s[k]
  <2>1. 0 + 1 = 1 /\ n - 0 = n /\ 0 <= n /\ \A k \in 1 .. n : 0 + k = k
    OBVIOUS
  <2> QED BY <2>1, HoldsSlice DEF Holds
<1> QED BY <1>1 DEF Holds

(* The first delimiter of a buffer that holds a line, and the line.        *)
LEMMA FirstLine ==
  ASSUME NEW s \in Seq(TokenType), NEW t, NEW m \in Nat, Holds(s, t, m),
         NEW d, NEW n \in Nat, Len(d) = n, DOMAIN d = 1 .. n, NEW l \in Nat, n <= l,
         Holds(d, t, m + (l - n)), \A i \in n .. l - 1 : ~Holds(d, t, m + (i - n)),
         Found(s, d)
  PROVE  l <= Len(s) /\ LineEnd(s, d) = l
<1>1. \A i \in FoundEnds(s, d) : i \in Nat /\ n <= i /\ i <= Len(s)
  BY DEF FoundEnds
<1>2. ASSUME NEW i \in FoundEnds(s, d) PROVE l <= i
  <2>0. i \in Nat /\ n <= i /\ i <= Len(s)
    BY <1>1, <1>2
  <2> SUFFICES ASSUME ~(l <= i) PROVE FALSE
    OBVIOUS
  <2>1. i \in n .. l - 1
    BY <2>0
  <2>2. ASSUME NEW k \in 1 .. n PROVE d[k] = t[m + (i - n) + k]
    <3>1. i - n + k \in 1 .. Len(s) /\ m + (i - n + k) = m + (i - n) + k
      BY <2>0
    <3>2. s[i - n + k] = d[k]
      BY <1>2 DEF FoundEnds
    <3> QED BY <3>1, <3>2 DEF Holds
  <2>3. Holds(d, t, m + (i - n))
    BY <2>2 DEF Holds
  <2> QED BY <2>1, <2>3
<1>3. l <= Len(s)
  <2>1. PICK i : i \in FoundEnds(s, d)
    BY DEF Found
  <2> QED BY <1>1, <1>2, <2>1
<1>4. l \in FoundEnds(s, d)
  <2>1. ASSUME NEW k \in 1 .. n PROVE s[l - n + k] = d[k]
    <3>1. l - n + k \in 1 .. Len(s) /\ m + (l - n + k) = m + (l - n) + k
      BY <1>3
    <3>2. d[k] = t[m + (l - n) + k]
      BY DEF Holds
    <3> QED BY <3>1, <3>2 DEF Holds
  <2> QED BY <1>3, <2>1 DEF FoundEnds
<1>5. \A x \in FoundEnds(s, d) : (\A y \in FoundEnds(s, d) : x <= y) => x = l
  BY <1>1, <1>2, <1>4
<1>6. \A y \in FoundEnds(s, d) : l <= y
  BY <1>2
<1> QED BY <1>3, <1>4, <1>5, <1>6 DEF LineEnd, Min

-----------------------------------------------------------------------------
(* What is known of a response.                                            *)
LEMMA ResponseTypes ==
  ASSUME NEW r, IsResponse(r)
  PROVE  /\ r.interim \in Nat /\ r.framing \in Framings /\ r.trailer \in BOOLEAN
         /\ r.body \in Seq({X, CR, LF}) /\ r.body \in Seq(TokenType) /\ Len(r.body) \in Nat
         /\ r.wire \in Seq(TokenType) /\ Len(r.wire) \in Nat
         /\ HeadEnd(r) \in Nat /\ HeadEnd(r) = 5 * r.interim + 5
<1>1. r.interim \in Nat /\ r.framing \in Framings /\ r.trailer \in BOOLEAN
      /\ r.body \in Seq({X, CR, LF}) /\ r.wire \in Seq(TokenType)
  BY DEF IsResponse
<1>2. {X, CR, LF} \subseteq TokenType
  BY DEF TokenType, Framings, X, CR, LF
<1>3. r.body \in Seq(TokenType)
  BY <1>1, <1>2
<1>4. HeadEnd(r) \in Nat /\ HeadEnd(r) = 5 * r.interim + 5
  BY <1>1 DEF HeadEnd
<1> QED BY <1>1, <1>3, <1>4

(* The block at the front once i interim blocks were read.                 *)
Front(r, i) == IF i < r.interim THEN Block("interim", 0) ELSE Final(r)

LEMMA HeadAt ==
  ASSUME NEW r, IsResponse(r), NEW i \in Nat, i <= r.interim
  PROVE  /\ r.wire[5 * i + 1] = Front(r, i) /\ Front(r, i) # CR
         /\ r.wire[5 * i + 2] = CR /\ r.wire[5 * i + 3] = LF
         /\ r.wire[5 * i + 4] = CR /\ r.wire[5 * i + 5] = LF
<1>1. r.interim \in Nat
  BY ResponseTypes
<1>2. Lies(<<Front(r, i), CR, LF, CR, LF>>, r, 5 * i)
  <2>1. CASE i = r.interim
    BY SMTT(30), <1>1, <2>1 DEF IsResponse, Front
  <2>2. CASE i < r.interim
    <3>1. i + 1 \in 1 .. r.interim /\ 5 * ((i + 1) - 1) = 5 * i
      BY <1>1, <2>2
    <3>2. Lies(<<Block("interim", 0), CR, LF, CR, LF>>, r, 5 * ((i + 1) - 1))
      BY <3>1 DEF IsResponse
    <3> QED BY <2>2, <3>1, <3>2 DEF Front
  <2> QED BY <1>1, <2>1, <2>2
<1>3. Front(r, i) # CR
  <2>1. Front(r, i)[1] # "CR"
    <3>1. r.framing # "CR"
      BY ResponseTypes DEF Framings
    <3> QED BY <3>1 DEF Front, Final, Block
  <2> QED BY <2>1 DEF CR
<1>4. PICK f : f = Front(r, i)
  OBVIOUS
<1>5. \A k \in DOMAIN <<f, CR, LF, CR, LF>> : r.wire[5 * i + k] = <<f, CR, LF, CR, LF>>[k]
  BY <1>2, <1>4 DEF Lies
<1>6. r.wire[5 * i + 1] = f /\ r.wire[5 * i + 2] = CR /\ r.wire[5 * i + 3] = LF
      /\ r.wire[5 * i + 4] = CR /\ r.wire[5 * i + 5] = LF
  BY <1>5
<1> QED BY <1>3, <1>4, <1>6

(* The size behind c chunks.                                               *)
NextSize(r, c) == IF c < Chunks(r) THEN ChunkLen(r, c + 1) ELSE 0

LEMMA Sums ==
  ASSUME NEW h \in Nat, NEW x \in Nat, NEW b \in Nat, NEW p \in Nat, NEW q \in Nat, x <= b, p <= q
  PROVE  h + x + p \in Nat /\ h <= h + x + p /\ h + x + p <= h + b + q /\ h + b + q \in Nat
  OBVIOUS

LEMMA ChunkCount == ASSUME NEW r, IsResponse(r), r.framing = "chunked" PROVE Chunks(r) \in Nat
  BY DEF IsResponse, IsChunked, Chunks

LEMMA ChunkBounds ==
  ASSUME NEW r, IsResponse(r), r.framing = "chunked", NEW c \in Nat, c <= Chunks(r)
  PROVE  /\ Chunks(r) \in Nat /\ r.cut[c + 1] \in Nat /\ r.cut[c + 1] <= Len(r.body)
         /\ Mark(r, c) \in Nat /\ Mark(r, c) = HeadEnd(r) + r.cut[c + 1] + 5 * c
         /\ HeadEnd(r) <= Mark(r, c) /\ Mark(r, c) + 5 <= Len(r.wire)
         /\ c = Chunks(r) => r.cut[c + 1] = Len(r.body)
         /\ r.cut[1] = 0
<1>1. /\ r.cut \in Seq(0 .. Len(r.body)) /\ r.cut # <<>> /\ r.cut[1] = 0
      /\ r.cut[Len(r.cut)] = Len(r.body)
      /\ Len(r.wire) = Mark(r, Chunks(r)) + (IF r.trailer THEN 8 ELSE 5)
  BY DEF IsResponse, IsChunked
<1>2. Len(r.cut) \in Nat \ {0} /\ Chunks(r) \in Nat /\ Chunks(r) + 1 = Len(r.cut)
  BY <1>1 DEF Chunks
<1>3. Len(r.body) \in Nat /\ HeadEnd(r) \in Nat
  BY ResponseTypes
<1>4. r.cut[c + 1] \in Nat /\ r.cut[c + 1] <= Len(r.body)
  <2>1. c + 1 \in 1 .. Len(r.cut)
    BY <1>2
  <2> QED BY <1>1, <1>3, <2>1
<1>5. Mark(r, c) = HeadEnd(r) + r.cut[c + 1] + 5 * c
  BY DEF Mark
<1>6. Mark(r, Chunks(r)) = HeadEnd(r) + Len(r.body) + 5 * Chunks(r)
  BY <1>1, <1>2 DEF Mark
<1>7. c = Chunks(r) => r.cut[c + 1] = Len(r.body)
  BY <1>1, <1>2
<1>8. PICK n \in Nat : n = Chunks(r)
  BY <1>2
<1>9. Mark(r, c) \in Nat /\ HeadEnd(r) <= Mark(r, c) /\ Mark(r, c) <= Mark(r, n)
      /\ Mark(r, n) \in Nat
  <2>1. Mark(r, n) = HeadEnd(r) + Len(r.body) + 5 * n /\ c <= n
    BY <1>6, <1>8
  <2>2. PICK h \in Nat : h = HeadEnd(r)
    BY <1>3
  <2>3. PICK x \in Nat : x = r.cut[c + 1]
    BY <1>4
  <2>4. PICK b \in Nat : b = Len(r.body)
    BY <1>3
  <2>5. x <= b /\ Mark(r, c) = h + x + 5 * c /\ Mark(r, n) = h + b + 5 * n
    BY <1>4, <1>5, <2>1, <2>2, <2>3, <2>4
  <2>6. PICK p \in Nat : p = 5 * c
    OBVIOUS
  <2>7. PICK q \in Nat : q = 5 * n
    BY <1>8
  <2>8. p <= q
    BY <1>8, <2>1, <2>6, <2>7
  <2>9. h + x + p \in Nat /\ h <= h + x + p /\ h + x + p <= h + b + q /\ h + b + q \in Nat
    BY <2>5, <2>8, Sums
  <2> QED BY <2>2, <2>5, <2>6, <2>7, <2>9
<1>10. Len(r.wire) = Mark(r, n) + 8 \/ Len(r.wire) = Mark(r, n) + 5
  BY <1>1, <1>8
<1>11. Mark(r, c) + 5 <= Len(r.wire)
  BY <1>9, <1>10
<1> QED BY <1>1, <1>2, <1>4, <1>5, <1>7, <1>9, <1>11

LEMMA SizeAt ==
  ASSUME NEW r, IsResponse(r), r.framing = "chunked", NEW c \in Nat, c <= Chunks(r)
  PROVE  /\ r.wire[Mark(r, c) + 1] = Size(NextSize(r, c)) /\ Size(NextSize(r, c)) # CR
         /\ r.wire[Mark(r, c) + 2] = CR /\ r.wire[Mark(r, c) + 3] = LF
<1>1. Chunks(r) \in Nat
  BY ChunkCount
<1>2. PICK z : z = NextSize(r, c)
  OBVIOUS
<1>3. Lies(<<Size(z), CR, LF>>, r, Mark(r, c))
  <2>1. CASE c = Chunks(r)
    <3>1. Lies(<<Size(0), CR, LF>>, r, Mark(r, c))
      BY <2>1 DEF IsResponse, IsChunked
    <3>2. z = 0
      BY <1>1, <1>2, <2>1 DEF NextSize
    <3> QED BY <3>1, <3>2
  <2>2. CASE c < Chunks(r)
    <3>1. c + 1 \in 1 .. Chunks(r) /\ (c + 1) - 1 = c
      BY <1>1, <2>2
    <3>2. Lies(<<Size(ChunkLen(r, c + 1)), CR, LF>>, r, Mark(r, (c + 1) - 1))
      BY <3>1 DEF IsResponse, IsChunked
    <3> QED BY <1>2, <2>2, <3>1, <3>2 DEF NextSize
  <2> QED BY <1>1, <2>1, <2>2
<1>4. PICK s : s = Size(z)
  OBVIOUS
<1>5. \A k \in DOMAIN <<s, CR, LF>> : r.wire[Mark(r, c) + k] = <<s, CR, LF>>[k]
  BY <1>3, <1>4 DEF Lies
<1>6. r.wire[Mark(r, c) + 1] = s /\ r.wire[Mark(r, c) + 2] = CR /\ r.wire[Mark(r, c) + 3] = LF
  BY <1>5
<1> QED BY <1>2, <1>4, <1>6 DEF Size, CR

LEMMA ChunkAt ==
  ASSUME NEW r, IsResponse(r), r.framing = "chunked", NEW c \in Nat, c < Chunks(r)
  PROVE  /\ ChunkLen(r, c + 1) \in Nat \ {0}
         /\ r.cut[c + 2] = r.cut[c + 1] + ChunkLen(r, c + 1)
         /\ Mark(r, c + 1) = Mark(r, c) + 5 + ChunkLen(r, c + 1)
         /\ Same(r.wire, Mark(r, c) + 3, r.body, r.cut[c + 1], ChunkLen(r, c + 1))
         /\ r.wire[Mark(r, c + 1) - 1] = CR /\ r.wire[Mark(r, c + 1)] = LF
<1>1. Chunks(r) \in Nat
  BY ChunkCount
<1>2. c + 1 \in 1 .. Chunks(r) /\ (c + 1) + 1 = c + 2 /\ (c + 1) - 1 = c
  BY <1>1
<1>3. /\ r.cut[c + 1] < r.cut[(c + 1) + 1]
      /\ \A k \in 1 .. ChunkLen(r, c + 1) :
           r.wire[Mark(r, (c + 1) - 1) + 3 + k] = r.body[r.cut[c + 1] + k]
      /\ Lies(CRLF, r, Mark(r, c + 1) - 2)
  BY <1>2 DEF IsResponse, IsChunked
<1>4. /\ r.cut[c + 1] \in Nat /\ Mark(r, c) = HeadEnd(r) + r.cut[c + 1] + 5 * c
      /\ HeadEnd(r) \in Nat
  <2>1. c <= Chunks(r)
    BY <1>1
  <2> QED BY <2>1, ChunkBounds, ResponseTypes
<1>5. /\ r.cut[c + 2] \in Nat /\ Mark(r, c + 1) = HeadEnd(r) + r.cut[c + 2] + 5 * (c + 1)
      /\ Mark(r, c + 1) \in Nat
  <2>1. c + 1 \in Nat /\ c + 1 <= Chunks(r)
    BY <1>2
  <2> QED BY <1>2, <2>1, ChunkBounds
<1>6. ChunkLen(r, c + 1) = r.cut[c + 2] - r.cut[c + 1]
  BY <1>2 DEF ChunkLen
<1>7. /\ ChunkLen(r, c + 1) \in Nat \ {0} /\ r.cut[c + 2] = r.cut[c + 1] + ChunkLen(r, c + 1)
      /\ Mark(r, c + 1) = Mark(r, c) + 5 + ChunkLen(r, c + 1)
  BY <1>2, <1>3, <1>4, <1>5, <1>6
<1>8. \A k \in DOMAIN <<CR, LF>> : r.wire[Mark(r, c + 1) - 2 + k] = <<CR, LF>>[k]
  BY <1>3 DEF Lies, CRLF
<1>9. r.wire[Mark(r, c + 1) - 2 + 1] = CR /\ r.wire[Mark(r, c + 1) - 2 + 2] = LF
  BY <1>8
<1>10. Mark(r, c + 1) - 2 + 1 = Mark(r, c + 1) - 1 /\ Mark(r, c + 1) - 2 + 2 = Mark(r, c + 1)
  BY <1>5
<1>11. Same(r.wire, Mark(r, c) + 3, r.body, r.cut[c + 1], ChunkLen(r, c + 1))
  BY <1>2, <1>3 DEF Same
<1> QED BY <1>7, <1>9, <1>10, <1>11

(* Behind the size line of the end: a trailer or none, and an empty line.  *)
LEMMA TrailerAt ==
  ASSUME NEW r, IsResponse(r), r.framing = "chunked", NEW m, m = Mark(r, Chunks(r))
  PROVE  /\ m \in Nat
         /\ ~r.trailer => /\ Len(r.wire) = m + 5
                          /\ r.wire[m + 4] = CR /\ r.wire[m + 5] = LF
         /\ r.trailer => /\ Len(r.wire) = m + 8 /\ r.wire[m + 4] = Trailer /\ Trailer # CR
                         /\ r.wire[m + 5] = CR /\ r.wire[m + 6] = LF
                         /\ r.wire[m + 7] = CR /\ r.wire[m + 8] = LF
<1>1. m \in Nat
  <2>1. Chunks(r) \in Nat
    BY ChunkCount
  <2> QED BY <2>1, ChunkBounds
<1>2. /\ Lies(IF r.trailer THEN <<Trailer, CR, LF, CR, LF>> ELSE CRLF, r, m + 3)
      /\ Len(r.wire) = m + (IF r.trailer THEN 8 ELSE 5)
  BY DEF IsResponse, IsChunked
<1>3. ASSUME ~r.trailer PROVE r.wire[m + 4] = CR /\ r.wire[m + 5] = LF
  <2>1. \A k \in DOMAIN <<CR, LF>> : r.wire[m + 3 + k] = <<CR, LF>>[k]
    BY <1>2, <1>3 DEF Lies, CRLF
  <2>2. r.wire[m + 3 + 1] = CR /\ r.wire[m + 3 + 2] = LF
    BY <2>1
  <2>3. m + 3 + 1 = m + 4 /\ m + 3 + 2 = m + 5
    BY <1>1
  <2> QED BY <2>2, <2>3
<1>4. ASSUME r.trailer
      PROVE  /\ r.wire[m + 4] = Trailer /\ r.wire[m + 5] = CR /\ r.wire[m + 6] = LF
             /\ r.wire[m + 7] = CR /\ r.wire[m + 8] = LF
  <2>1. \A k \in DOMAIN <<Trailer, CR, LF, CR, LF>> :
          r.wire[m + 3 + k] = <<Trailer, CR, LF, CR, LF>>[k]
    BY <1>2, <1>4 DEF Lies
  <2>2. /\ r.wire[m + 3 + 1] = Trailer /\ r.wire[m + 3 + 2] = CR /\ r.wire[m + 3 + 3] = LF
        /\ r.wire[m + 3 + 4] = CR /\ r.wire[m + 3 + 5] = LF
    BY <2>1
  <2>3. m + 3 + 1 = m + 4 /\ m + 3 + 2 = m + 5 /\ m + 3 + 3 = m + 6 /\ m + 3 + 4 = m + 7
        /\ m + 3 + 5 = m + 8
    BY <1>1
  <2> QED BY <2>2, <2>3
<1>5. Trailer # CR
  BY DEF Trailer, CR
<1>6. Len(r.wire) = IF r.trailer THEN m + 8 ELSE m + 5
  BY <1>2
<1> QED BY <1>1, <1>3, <1>4, <1>5, <1>6

(* A body that is not in chunks.                                           *)
LEMMA PlainAt ==
  ASSUME NEW r, IsResponse(r), r.framing # "chunked"
  PROVE  /\ Len(r.wire) = HeadEnd(r) + Len(r.body)
         /\ Holds(r.body, r.wire, HeadEnd(r))
<1>1. Lies(r.body, r, HeadEnd(r)) /\ Len(r.wire) = HeadEnd(r) + Len(r.body)
  BY DEF IsResponse
<1>2. DOMAIN r.body = 1 .. Len(r.body)
  BY ResponseTypes
<1> QED BY <1>1, <1>2 DEF Lies, Holds
-----------------------------------------------------------------------------
(* What a read has got once n more tokens were taken.                      *)
LEMMA GotMore ==
  ASSUME ClientTypes, NEW u \in Nat, At(u), NEW n \in Nat, taken + n <= arrived,
         NEW got, got = sbuf \o SubSeq(resp.wire, taken + 1, taken + n)
  PROVE  /\ got \in Seq(TokenType) /\ Len(got) = Len(sbuf) + n
         /\ Holds(got, resp.wire, u + Len(pending))
         /\ u + Len(pending) + Len(got) = taken + n
<1>1. /\ taken \in Nat /\ arrived \in Nat /\ total \in Nat /\ arrived <= total
      /\ total <= Len(resp.wire) /\ sbuf \in Seq(TokenType) /\ pending \in Seq(TokenType)
      /\ IsResponse(resp)
  BY DEF ClientTypes, BufferTypes
<1>2. resp.wire \in Seq(TokenType) /\ Len(resp.wire) \in Nat
  BY <1>1, ResponseTypes
<1>3. PICK b \in Nat : b = taken + n
  BY <1>1
<1>4. taken <= b /\ b <= Len(resp.wire) /\ b - taken = n
  BY <1>1, <1>2, <1>3
<1>5. PICK x : x = SubSeq(resp.wire, taken + 1, taken + n)
  OBVIOUS
<1>6. x \in Seq(TokenType) /\ Len(x) = n /\ Holds(x, resp.wire, taken)
  BY <1>1, <1>2, <1>3, <1>4, <1>5, HoldsSlice
<1>7. PICK m \in Nat : m = u + Len(pending)
  BY <1>1
<1>8. Holds(sbuf, resp.wire, m) /\ m + Len(sbuf) = taken
  BY <1>7 DEF At
<1>9. Holds(sbuf \o x, resp.wire, m)
  BY <1>1, <1>6, <1>8, HoldsMore
<1>10. got \in Seq(TokenType) /\ Len(got) = Len(sbuf) + n
  BY <1>1, <1>5, <1>6
<1>11. m + (Len(sbuf) + n) = taken + n
  <2>1. PICK s \in Nat : s = Len(sbuf)
    BY <1>1
  <2>2. m + s = taken
    BY <1>8, <2>1
  <2>3. m + (s + n) = (m + s) + n
    OBVIOUS
  <2> QED BY <2>1, <2>2, <2>3
<1> QED BY <1>5, <1>7, <1>9, <1>10, <1>11

(* They go to the buffer of the read, or with what it held to pending.     *)
LEMMA AtReceives ==
  ASSUME ClientTypes, NEW u \in Nat, At(u), NEW n \in Nat, taken + n <= arrived, reading,
         taken' = taken + n, sbuf' = sbuf \o SubSeq(resp.wire, taken + 1, taken + n),
         UNCHANGED <<resp, pending, reading>>
  PROVE  At(u)'
<1>1. Holds(sbuf', resp.wire, u + Len(pending)) /\ u + Len(pending) + Len(sbuf') = taken'
  BY GotMore
<1> QED BY <1>1 DEF At

LEMMA AtFlush ==
  ASSUME ClientTypes, NEW u \in Nat, At(u), NEW n \in Nat, taken + n <= arrived, taken' = taken + n,
         pending' = pending \o (sbuf \o SubSeq(resp.wire, taken + 1, taken + n)),
         sbuf' = <<>>, UNCHANGED resp
  PROVE  At(u)' /\ pending' \in Seq(TokenType)
<1>1. PICK got : got = sbuf \o SubSeq(resp.wire, taken + 1, taken + n)
  OBVIOUS
<1>2. /\ got \in Seq(TokenType) /\ Holds(got, resp.wire, u + Len(pending))
      /\ u + Len(pending) + Len(got) = taken'
  BY <1>1, GotMore
<1>3. pending \in Seq(TokenType) /\ Holds(pending, resp.wire, u)
  BY DEF ClientTypes, BufferTypes, At
<1>4. Holds(pending', resp.wire, u)
  BY <1>1, <1>2, <1>3, HoldsMore
<1>5. pending' \in Seq(TokenType) /\ Len(pending') = Len(pending) + Len(got)
  BY <1>1, <1>2, <1>3
<1>6. Len(sbuf') = 0
  OBVIOUS
<1>7. Holds(sbuf', resp.wire, u + Len(pending'))
  BY <1>6 DEF Holds
<1>8. u + (Len(pending) + Len(got)) + 0 = taken'
  BY <1>2, <1>3
<1> QED BY <1>4, <1>5, <1>6, <1>7, <1>8 DEF At

(* The first n tokens of pending are used.                                 *)
LEMMA AtUse ==
  ASSUME ClientTypes, NEW u \in Nat, At(u), ~reading, NEW n \in Nat, n <= Len(pending),
         pending' = Rest(pending, n), UNCHANGED <<resp, taken, reading, sbuf>>
  PROVE  At(u + n)' /\ pending' \in Seq(TokenType) /\ u + n \in Nat
<1>1. pending \in Seq(TokenType) /\ Holds(pending, resp.wire, u) /\ sbuf = <<>>
      /\ u + Len(pending) + Len(sbuf) = taken
  BY DEF ClientTypes, BufferTypes, At
<1>2. pending' \in Seq(TokenType) /\ Len(pending') = Len(pending) - n
      /\ Holds(pending', resp.wire, u + n)
  BY <1>1, HoldsRest
<1>3. Len(sbuf) = 0 /\ Len(pending) \in Nat
  BY <1>1
<1>4. Holds(sbuf, resp.wire, u + n + Len(pending'))
  BY <1>3 DEF Holds
<1>5. u + n + (Len(pending) - n) + Len(sbuf) = taken
  BY <1>1, <1>3
<1> QED BY <1>1, <1>2, <1>4, <1>5 DEF At

-----------------------------------------------------------------------------
(* The first line of what is pending.                                      *)
LEMMA BlankLine ==
  ASSUME ClientTypes, NEW u \in Nat, At(u), Found(pending, Blank),
         resp.wire[u + 1] # CR, resp.wire[u + 2] = CR, resp.wire[u + 3] = LF,
         resp.wire[u + 4] = CR, resp.wire[u + 5] = LF
  PROVE  5 <= Len(pending) /\ LineEnd(pending, Blank) = 5
<1>1. pending \in Seq(TokenType) /\ Holds(pending, resp.wire, u)
  BY DEF ClientTypes, BufferTypes, At
<1>2. Len(Blank) = 4 /\ DOMAIN Blank = 1 .. 4
      /\ Blank[1] = CR /\ Blank[2] = LF /\ Blank[3] = CR /\ Blank[4] = LF
  BY DEF Blank
<1>3. PICK n \in Nat : n = 4
  OBVIOUS
<1>4. PICK l \in Nat : l = 5
  OBVIOUS
<1>5. Holds(Blank, resp.wire, u + (l - n))
  BY <1>2, <1>3, <1>4 DEF Holds
<1>6. \A i \in n .. l - 1 : ~Holds(Blank, resp.wire, u + (i - n))
  BY <1>2, <1>3, <1>4 DEF Holds
<1>7. Len(Blank) = n /\ DOMAIN Blank = 1 .. n /\ n <= l
  BY <1>2, <1>3, <1>4
<1>8. l <= Len(pending) /\ LineEnd(pending, Blank) = l
  BY <1>1, <1>5, <1>6, <1>7, FirstLine
<1> QED BY <1>4, <1>8

LEMMA TokenLine ==
  ASSUME ClientTypes, NEW u \in Nat, At(u), Found(pending, CRLF),
         resp.wire[u + 1] # CR, resp.wire[u + 2] = CR, resp.wire[u + 3] = LF
  PROVE  3 <= Len(pending) /\ LineEnd(pending, CRLF) = 3
<1>1. pending \in Seq(TokenType) /\ Holds(pending, resp.wire, u)
  BY DEF ClientTypes, BufferTypes, At
<1>2. Len(CRLF) = 2 /\ DOMAIN CRLF = 1 .. 2 /\ CRLF[1] = CR /\ CRLF[2] = LF
  BY DEF CRLF
<1>3. PICK n \in Nat : n = 2
  OBVIOUS
<1>4. PICK l \in Nat : l = 3
  OBVIOUS
<1>5. Holds(CRLF, resp.wire, u + (l - n))
  BY <1>2, <1>3, <1>4 DEF Holds
<1>6. \A i \in n .. l - 1 : ~Holds(CRLF, resp.wire, u + (i - n))
  BY <1>2, <1>3, <1>4 DEF Holds
<1>7. Len(CRLF) = n /\ DOMAIN CRLF = 1 .. n /\ n <= l
  BY <1>2, <1>3, <1>4
<1>8. l <= Len(pending) /\ LineEnd(pending, CRLF) = l
  BY <1>1, <1>5, <1>6, <1>7, FirstLine
<1> QED BY <1>4, <1>8

LEMMA EmptyLine ==
  ASSUME ClientTypes, NEW u \in Nat, At(u), Found(pending, CRLF),
         resp.wire[u + 1] = CR, resp.wire[u + 2] = LF
  PROVE  2 <= Len(pending) /\ LineEnd(pending, CRLF) = 2
<1>1. pending \in Seq(TokenType) /\ Holds(pending, resp.wire, u)
  BY DEF ClientTypes, BufferTypes, At
<1>2. Len(CRLF) = 2 /\ DOMAIN CRLF = 1 .. 2 /\ CRLF[1] = CR /\ CRLF[2] = LF
  BY DEF CRLF
<1>3. PICK n \in Nat : n = 2
  OBVIOUS
<1>4. PICK l \in Nat : l = 2
  OBVIOUS
<1>5. Holds(CRLF, resp.wire, u + (l - n))
  BY <1>2, <1>3, <1>4 DEF Holds
<1>6. \A i \in n .. l - 1 : ~Holds(CRLF, resp.wire, u + (i - n))
  BY <1>2, <1>3, <1>4 DEF Holds
<1>7. Len(CRLF) = n /\ DOMAIN CRLF = 1 .. n /\ n <= l
  BY <1>2, <1>3, <1>4
<1>8. l <= Len(pending) /\ LineEnd(pending, CRLF) = l
  BY <1>1, <1>5, <1>6, <1>7, FirstLine
<1> QED BY <1>4, <1>8

(* What read_until_limited returns, and what it leaves.                    *)
LEMMA TakesLine ==
  ASSUME ClientTypes, NEW u \in Nat, At(u), NEW l \in Nat, l <= Len(pending),
         LineEnd(pending, Delim) = l, NEW n \in Nat, Len(Delim) = n, n <= l
  PROVE  /\ Len(Line) = l
         /\ Len(Content) = l - n /\ \A k \in 1 .. l - n : Content[k] = resp.wire[u + k]
<1>1. pending \in Seq(TokenType) /\ Holds(pending, resp.wire, u)
  BY DEF ClientTypes, BufferTypes, At
<1>2. Line \in Seq(TokenType) /\ Len(Line) = l /\ Holds(Line, resp.wire, u)
  BY <1>1, HoldsFirst DEF Line
<1>3. PICK m \in Nat : m = l - n
  OBVIOUS
<1>4. m <= Len(Line) /\ Content = SubSeq(Line, 1, m)
  BY <1>2, <1>3 DEF Content
<1>5. Len(Content) = m /\ Holds(Content, resp.wire, u)
  BY <1>2, <1>4, HoldsFirst
<1> QED BY <1>2, <1>3, <1>5 DEF Holds

(* A delimiter that was taken and is found neither in pending nor in the   *)
(* bytes of the read lies across the two.                                  *)
LEMMA CutBetween ==
  ASSUME ClientTypes, NEW u \in Nat, At(u), NEW d \in {CRLF, Blank},
         NEW n \in Nat, Len(d) = n, DOMAIN d = 1 .. n, NEW e \in Nat, u + n <= e, e <= taken,
         Holds(d, resp.wire, e - n),
         ~Found(pending, d), ~Found(sbuf, d)
  PROVE  CutDelimiter
<1>0. \A k \in 1 .. n : resp.wire[e - n + k] = d[k]
  BY DEF Holds
<1>1. pending \in Seq(TokenType) /\ sbuf \in Seq(TokenType) /\ taken \in Nat
  BY DEF ClientTypes, BufferTypes
<1>2. PICK p \in Nat : p = Len(pending)
  BY <1>1
<1>3. PICK s \in Nat : s = Len(sbuf)
  BY <1>1
<1>4. /\ \A k \in 1 .. p : pending[k] = resp.wire[u + k]
      /\ \A k \in 1 .. s : sbuf[k] = resp.wire[u + p + k]
      /\ u + p + s = taken
  BY <1>2, <1>3 DEF At, Holds
<1>5. e > u + p
  <2> SUFFICES ASSUME e <= u + p PROVE FALSE
    BY <1>2
  <2>1. e - u \in n .. p
    BY <1>2
  <2>2. ASSUME NEW k \in 1 .. n PROVE pending[e - u - n + k] = d[k]
    <3>1. e - u - n + k \in 1 .. p /\ u + (e - u - n + k) = e - n + k
      BY <1>2, <2>1
    <3> QED BY <1>0, <1>4, <3>1
  <2>3. e - u \in FoundEnds(pending, d)
    BY <1>2, <2>1, <2>2 DEF FoundEnds
  <2> QED BY <2>3 DEF Found
<1>6. e - n < u + p
  <2> SUFFICES ASSUME e - n >= u + p PROVE FALSE
    BY <1>2
  <2>1. e - (u + p) \in n .. s
    BY <1>1, <1>2, <1>3, <1>4
  <2>2. ASSUME NEW k \in 1 .. n PROVE sbuf[e - (u + p) - n + k] = d[k]
    <3>1. e - (u + p) - n + k \in 1 .. s /\ u + p + (e - (u + p) - n + k) = e - n + k
      BY <1>2, <1>3, <2>1
    <3> QED BY <1>0, <1>4, <3>1
  <2>3. e - (u + p) \in FoundEnds(sbuf, d)
    BY <1>3, <2>1, <2>2 DEF FoundEnds
  <2> QED BY <2>3 DEF Found
<1>7. PICK m \in Nat : m = u + p - (e - n)
  <2>1. u + p - (e - n) \in Nat
    BY <1>2, <1>6
  <2> QED BY <2>1
<1>8. m \in 1 .. n - 1 /\ m <= p /\ p - m \in Nat
  BY <1>2, <1>5, <1>6, <1>7
<1>9. /\ Rest(pending, p - m) \in Seq(TokenType) /\ Len(Rest(pending, p - m)) = m
      /\ \A k \in 1 .. m : Rest(pending, p - m)[k] = pending[p - m + k]
  <2>1. p - m <= Len(pending) /\ Holds(pending, pending, 0) /\ p - (p - m) = m
    BY <1>2, <1>8 DEF Holds
  <2>2. /\ Rest(pending, p - m) \in Seq(TokenType) /\ Len(Rest(pending, p - m)) = p - (p - m)
        /\ Holds(Rest(pending, p - m), pending, 0 + (p - m))
    BY <1>1, <1>2, <1>8, <2>1, HoldsRest
  <2>3. 0 + (p - m) = p - m
    BY <1>8
  <2> QED BY <2>1, <2>2, <2>3 DEF Holds
<1>10. /\ d \in Seq({CR, LF}) /\ SubSeq(d, 1, m) \in Seq({CR, LF}) /\ Len(SubSeq(d, 1, m)) = m
       /\ \A k \in 1 .. m : SubSeq(d, 1, m)[k] = d[k]
  <2>1. CRLF \in Seq({CR, LF})
    BY DEF CRLF
  <2>2. Blank \in Seq({CR, LF})
    BY DEF Blank
  <2>3. d \in Seq({CR, LF})
    BY <2>1, <2>2
  <2> QED BY <1>8, <2>3
<1>11. ASSUME NEW k \in 1 .. m PROVE Rest(pending, p - m)[k] = SubSeq(d, 1, m)[k]
  <2>1. p - m + k \in 1 .. p /\ u + (p - m + k) = e - n + k /\ k \in 1 .. n
    BY <1>2, <1>7, <1>8
  <2> QED BY <1>0, <1>4, <1>9, <1>10, <2>1
<1>12. Rest(pending, Len(pending) - m) = SubSeq(d, 1, m)
  <2>1. PICK x : x = Rest(pending, p - m)
    OBVIOUS
  <2>2. PICK y : y = SubSeq(d, 1, m)
    OBVIOUS
  <2>3. x = [k \in 1 .. m |-> x[k]]
    BY <1>9, <2>1
  <2>4. y = [k \in 1 .. m |-> y[k]]
    BY <1>10, <2>2
  <2>5. \A k \in 1 .. m : x[k] = y[k]
    BY <1>11, <2>1, <2>2
  <2>6. x = y
    BY <2>3, <2>4, <2>5
  <2> QED BY <1>2, <2>1, <2>2, <2>6
<1> QED BY <1>2, <1>8, <1>12 DEF CutDelimiter
-----------------------------------------------------------------------------
(* The body and the end of a request that did not succeed, or did not      *)
(* fail for the end of the connection.                                     *)
LEMMA NotOk == ~result.ok => BodyExact
  BY DEF BodyExact

LEMMA NotEof == result.why # "eof" => CompleteReturned
  BY DEF CompleteReturned

LEMMA NoResultYet == result = NoResult => BodyExact /\ CompleteReturned
  BY DEF BodyExact, CompleteReturned, NoResult

(* A step that ends a request.                                             *)
LEMMA ReturnStep ==
  ASSUME ClientInv, NEW res, Return(res), BufferTypes',
         taken' \in Nat, taken' <= arrived, BodyExact', CompleteReturned'
  PROVE  ClientInv'
<1>1. /\ pc' = "idle" /\ sock' # "open" /\ UNCHANGED <<left, resp, total, arrived>>
  BY DEF Return, CloseSocket, wire
<1>2. ClientTypes'
  BY <1>1 DEF ClientInv, ClientTypes
<1>3. SockInv'
  BY <1>1 DEF SockInv, SocketsReleased
<1>4. StartInv' /\ ResultInv' /\ pc' \notin Reading
  BY <1>1 DEF StartInv, ResultInv, Starting, Reading, Lines, Exacts
<1> QED BY <1>2, <1>3, <1>4 DEF ClientInv

LEMMA FailStep ==
  ASSUME ClientInv, NEW why, why # "eof", Fail(why), BufferTypes',
         taken' \in Nat, taken' <= arrived
  PROVE  ClientInv'
<1>1. result' = [ok |-> FALSE, body |-> <<>>, why |-> why]
  BY DEF Fail, Return
<1>2. ~(result'.ok) /\ result'.why # "eof"
  BY <1>1
<1>3. ~(result.ok)' => BodyExact'
  BY NotOk, PTL
<1>4. (result.why # "eof")' => CompleteReturned'
  BY NotEof, PTL
<1> QED BY <1>2, <1>3, <1>4, ReturnStep DEF Fail

LEMMA SucceedStep ==
  ASSUME ClientInv, NEW b, Succeed(b), BufferTypes',
         taken' \in Nat, taken' <= arrived, BodyExact'
  PROVE  ClientInv'
<1>1. result' = [ok |-> TRUE, body |-> b, why |-> "none"]
  BY DEF Succeed, Return
<1>2. result'.why # "eof"
  BY <1>1
<1>3. (result.why # "eof")' => CompleteReturned'
  BY NotEof, PTL
<1> QED BY <1>2, <1>3, ReturnStep DEF Succeed

(* A step from one place where it reads to another.                        *)
LEMMA GoOn ==
  ASSUME ClientInv, pc \in Reading, pc' \in Reading, UNCHANGED <<left, sock, wire, result, requests>>,
         BufferTypes', taken' \in Nat, taken' <= arrived, ReadInv',
         NEW u \in Nat, At(u)', Phase(u)'
  PROVE  ClientInv'
<1>1. pc \notin {"idle", "connect"} \cup Starting /\ pc' \notin {"idle", "connect"} \cup Starting
  BY DEF Reading, Starting, Lines, Exacts
<1>2. ClientTypes'
  BY DEF ClientInv, ClientTypes, wire
<1>3. SockInv' /\ StartInv'
  BY <1>1 DEF ClientInv, SockInv, SocketsReleased, StartInv, Starting
<1>4. result' = NoResult
  BY <1>1 DEF ClientInv, ResultInv
<1>5. ResultInv'
  <2>1. (result = NoResult)' => (BodyExact /\ CompleteReturned)'
    BY NoResultYet, PTL
  <2> QED BY <1>4, <2>1 DEF ResultInv
<1> QED BY <1>2, <1>3, <1>5 DEF ClientInv

(* What the phase says stays true while nothing is used.                   *)
LEMMA PhaseFrame ==
  ASSUME NEW u, Phase(u), UNCHANGED <<pc, resp, interims, out, body, need>>,
         pc = "rest" => pending' = pending
  PROVE  Phase(u)'
<1>1. HeadInv(u)' /\ LengthInv(u)' /\ RestInv(u)' /\ TrailerInv(u)'
  BY DEF Phase, HeadInv, LengthInv, RestInv, TrailerInv, Got
<1>2. SizeInv(u)'
  BY DEF Phase, SizeInv, Got
<1>3. ChunkInv(u)'
  BY DEF Phase, ChunkInv, Got
<1>4. EndInv(u)'
  BY DEF Phase, EndInv, Got
<1> QED BY <1>1, <1>2, <1>3, <1>4 DEF Phase

(* The server sends more.                                                  *)
LEMMA ArriveStep == ASSUME ClientInv, Arrive PROVE ClientInv'
<1>1. /\ pc \notin {"idle"} \cup Starting /\ arrived' \in arrived + 1 .. total
      /\ UNCHANGED <<pc, left, sock, resp, total, reader, result, requests>>
  BY DEF Arrive, Starting
<1>2. pc \in Reading
  BY <1>1 DEF ClientInv, ClientTypes
<1>3. ClientTypes'
  <2>1. arrived' \in Nat /\ arrived' <= total /\ taken <= arrived'
    BY <1>1 DEF ClientInv, ClientTypes
  <2> QED BY <1>1, <2>1 DEF ClientInv, ClientTypes, BufferTypes, reader
<1>4. SockInv' /\ StartInv'
  BY <1>1 DEF ClientInv, SockInv, SocketsReleased, StartInv
<1>5. ResultInv'
  <2>1. (result = NoResult)' => (BodyExact /\ CompleteReturned)'
    BY NoResultYet, PTL
  <2> QED BY <1>1, <2>1 DEF ClientInv, ResultInv
<1>6. ReadInv'
  BY <1>1, <1>2 DEF ClientInv, ReadInv, reader, Delim
<1>7. PICK u \in Nat : At(u) /\ Phase(u)
  BY <1>2 DEF ClientInv
<1>8. At(u)'
  BY <1>1, <1>7 DEF At, reader
<1>9. Phase(u)'
  BY <1>1, <1>7, PhaseFrame DEF reader
<1> QED BY <1>3, <1>4, <1>5, <1>6, <1>7, <1>8, <1>9 DEF ClientInv

(* The steps up to the request's being sent.                               *)
LEMMA NoTokens == <<>> \in Seq(TokenType) /\ Len(<<>>) = 0
  OBVIOUS

LEMMA InitStep == Init => ClientInv
<1> SUFFICES ASSUME Init PROVE ClientInv
  OBVIOUS
<1>1. IsResponse(resp) /\ Len(resp.wire) \in Nat
  BY ClientAssumption, ResponseTypes DEF Init
<1>2. ClientTypes
  <2>1. BufferTypes
    <3>1. pending = <<>> /\ sbuf = <<>> /\ out = <<>> /\ body = <<>> /\ need = 0 /\ interims = 0
          /\ reading = FALSE
      BY DEF Init
    <3> QED BY <3>1, NoTokens DEF BufferTypes
  <2> QED BY <1>1, <2>1 DEF Init, ClientTypes
<1>3. SockInv /\ StartInv /\ pc \notin Reading
  BY DEF Init, SockInv, SocketsReleased, StartInv, Starting, Reading, Lines, Exacts
<1>4. ResultInv
  BY NoResultYet DEF Init, ResultInv
<1> QED BY <1>2, <1>3, <1>4 DEF ClientInv

LEMMA RequestStep == ASSUME ClientInv, Request PROVE ClientInv'
<1>1. IsResponse(resp') /\ Len(resp'.wire) \in Nat
  BY ClientAssumption, ResponseTypes DEF Request
<1>2. ClientTypes'
  <2>1. BufferTypes'
    <3>1. pending' = <<>> /\ sbuf' = <<>> /\ out' = <<>> /\ body' = <<>> /\ need' = 0
          /\ interims' = 0 /\ reading' = FALSE
      BY DEF Request
    <3> QED BY <3>1, NoTokens DEF BufferTypes
  <2>2. total' \in Nat /\ total' <= Len(resp'.wire) /\ arrived' = 0 /\ taken' = 0
    BY <1>1 DEF Request
  <2>3. left' \in Nat /\ pc' \in Starting
    BY ClientAssumption DEF Request, Starting
  <2> QED BY <1>1, <2>1, <2>2, <2>3 DEF ClientTypes
<1>3. SockInv'
  <2>1. pc' = "connect" /\ left' = Endpoints /\ Endpoints \in Nat
    BY ClientAssumption DEF Request
  <2>2. sock' \notin {"open", "stuck"}
    BY DEF Request, CloseSocket, ClientInv, SockInv, SocketsReleased
  <2> QED BY <2>1, <2>2 DEF SockInv, SocketsReleased
<1>5. StartInv' /\ pc' \notin Reading
  BY DEF Request, ClientInv, StartInv, Starting, Reading, Lines, Exacts
<1>4. ResultInv'
  <2>1. (result = NoResult)' => (BodyExact /\ CompleteReturned)'
    BY NoResultYet, PTL
  <2> QED BY <2>1 DEF Request, ResultInv
<1> QED BY <1>2, <1>3, <1>4, <1>5 DEF ClientInv

LEMMA ConnectSteps ==
  ASSUME ClientInv, TryEndpoint \/ ConnectOk \/ ConnectFails \/ SecureOk
  PROVE  ClientInv'
<1>1. /\ pc \in Starting /\ pc' \in Starting /\ left' \in Nat
      /\ UNCHANGED <<resp, total, arrived, reader, result>>
  BY DEF ClientInv, ClientTypes, TryEndpoint, ConnectOk, ConnectFails, SecureOk, Goto, Starting, wire
<1>2. ClientTypes'
  BY <1>1 DEF ClientInv, ClientTypes, BufferTypes, reader
<1>3. SockInv'
  <2>1. left \in Nat /\ Endpoints \in Nat /\ SockInv
    BY ClientAssumption DEF ClientInv, ClientTypes
  <2>2. CASE TryEndpoint
    BY <2>1, <2>2 DEF SockInv, SocketsReleased, TryEndpoint
  <2>3. CASE ConnectFails
    <3>1. pc = "connecting" /\ pc' = "connect" /\ left' = left /\ sock' # "open"
      BY <2>3 DEF ConnectFails, CloseSocket
    <3> QED BY <2>1, <3>1 DEF SockInv, SocketsReleased
  <2>4. CASE ConnectOk \/ SecureOk
    BY <2>4 DEF SockInv, SocketsReleased, ConnectOk, SecureOk, Goto
  <2> QED BY <2>2, <2>3, <2>4
<1>4. StartInv' /\ pc' \notin Reading
  BY <1>1 DEF ClientInv, StartInv, reader, Starting, Reading, Lines, Exacts
<1>5. ResultInv'
  <2>1. (result = NoResult)' => (BodyExact /\ CompleteReturned)'
    BY NoResultYet, PTL
  <2> QED BY <1>1, <2>1 DEF ClientInv, ResultInv, Starting
<1> QED BY <1>2, <1>3, <1>4, <1>5 DEF ClientInv

LEMMA UnreachableStep == ASSUME ClientInv, Unreachable PROVE ClientInv'
<1>1. /\ pc = "connect" /\ pc' = "idle" /\ result' = [NoResult EXCEPT !.why = "connect"]
      /\ UNCHANGED <<left, sock, resp, total, arrived, reader>>
  BY DEF Unreachable, wire
<1>2. ClientTypes'
  BY <1>1 DEF ClientInv, ClientTypes, BufferTypes, reader
<1>3. SockInv' /\ StartInv' /\ pc' \notin Reading
  BY <1>1 DEF ClientInv, SockInv, SocketsReleased, StartInv, Starting, Reading, Lines, Exacts
<1>4. ~(result.ok)' /\ (result.why # "eof")'
  BY <1>1 DEF NoResult
<1>5. ~(result.ok)' => BodyExact'
  BY NotOk, PTL
<1>6. (result.why # "eof")' => CompleteReturned'
  BY NotEof, PTL
<1> QED BY <1>1, <1>2, <1>3, <1>4, <1>5, <1>6 DEF ClientInv, ResultInv

(* close() between two requests touches nothing but the socket.            *)
LEMMA CloseCalledStep == ASSUME ClientInv, CloseCalled PROVE ClientInv'
<1>1. /\ pc = "idle" /\ sock' # "open"
      /\ UNCHANGED <<pc, left, resp, total, arrived, reader, result>>
  BY DEF CloseCalled, CloseSocket, wire
<1>2. ClientTypes' /\ StartInv' /\ pc' \notin Reading
  BY <1>1 DEF ClientInv, ClientTypes, BufferTypes, StartInv, Starting, Reading, Lines, Exacts, reader
<1>3. SockInv'
  BY <1>1 DEF SockInv, SocketsReleased
<1>4. ResultInv'
  BY <1>1 DEF ClientInv, ResultInv, BodyExact, CompleteReturned, CutDelimiter, reader
<1> QED BY <1>2, <1>3, <1>4 DEF ClientInv

LEMMA SendSteps == ASSUME ClientInv, ResolveFails \/ SecureFails \/ SendFails \/ SendOk PROVE ClientInv'
<1>1. BufferTypes /\ taken \in Nat /\ taken <= arrived
  BY DEF ClientInv, ClientTypes
<1>2. CASE ResolveFails \/ SecureFails \/ SendFails
  <2>1. UNCHANGED reader
    BY <1>2 DEF ResolveFails, SecureFails, SendFails
  <2>2. BufferTypes' /\ taken' \in Nat /\ taken' <= arrived
    BY <1>1, <2>1 DEF BufferTypes, reader
  <2> QED BY <1>2, <2>2, FailStep DEF ResolveFails, SecureFails, SendFails
<1>3. CASE SendOk
  <2>1. /\ pc = "send" /\ pc' = "head"
        /\ UNCHANGED <<left, sock, resp, total, arrived, result, reader>>
    BY <1>3 DEF SendOk, Goto, wire
  <2>2. StartInv /\ IsResponse(resp)
    BY DEF ClientInv, ClientTypes
  <2>3. ClientTypes'
    BY <2>1 DEF ClientInv, ClientTypes, BufferTypes, reader, Reading, Lines
  <2>4. SockInv' /\ StartInv'
    BY <2>1 DEF ClientInv, SockInv, SocketsReleased, StartInv, Starting
  <2>5. ResultInv'
    <3>1. (result = NoResult)' => (BodyExact /\ CompleteReturned)'
      BY NoResultYet, PTL
    <3> QED BY <2>1, <3>1 DEF ClientInv, ResultInv
  <2>6. ReadInv'
    BY <2>1, <2>2 DEF StartInv, Starting, ReadInv, reader
  <2>7. At(0)'
    BY <2>1, <2>2 DEF StartInv, Starting, At, Holds, reader
  <2>8. Phase(0)'
    <3>1. 0 <= resp.interim
      BY <2>2, ResponseTypes
    <3> QED
      BY <2>1, <2>2, <3>1 DEF StartInv, Starting, Phase, HeadInv, LengthInv, RestInv, SizeInv,
         ChunkInv, EndInv, TrailerInv, reader
  <2> QED BY <2>3, <2>4, <2>5, <2>6, <2>7, <2>8 DEF ClientInv
<1> QED BY <1>2, <1>3
-----------------------------------------------------------------------------
(* The delimiters, and the smaller of two numbers.                         *)
LEMMA DelimLen ==
  /\ Len(CRLF) = 2 /\ DOMAIN CRLF = 1 .. 2 /\ CRLF[1] = CR /\ CRLF[2] = LF
  /\ Len(Blank) = 4 /\ DOMAIN Blank = 1 .. 4
  /\ Blank[1] = CR /\ Blank[2] = LF /\ Blank[3] = CR /\ Blank[4] = LF
  BY DEF CRLF, Blank

LEMMA NothingFound == ASSUME NEW d \in {CRLF, Blank} PROVE ~Found(<<>>, d)
<1>1. Len(d) \in {2, 4}
  BY DelimLen
<1>2. Len(<<>>) = 0
  OBVIOUS
<1>3. FoundEnds(<<>>, d) = {}
  BY <1>1, <1>2 DEF FoundEnds
<1> QED BY <1>3 DEF Found

LEMMA MinTwo ==
  ASSUME NEW a \in Int, NEW b \in Int
  PROVE  Min({a, b}) \in Int /\ Min({a, b}) <= a /\ Min({a, b}) <= b /\ Min({a, b}) \in {a, b}
<1>1. \E x \in {a, b} : \A y \in {a, b} : x <= y
  OBVIOUS
<1>2. Min({a, b}) \in {a, b} /\ \A y \in {a, b} : Min({a, b}) <= y
  BY <1>1 DEF Min
<1> QED BY <1>2

(* A read starts where there is nothing to use.                            *)
LEMMA StartSteps == ASSUME ClientInv, StartReadUntil \/ StartRead PROVE ClientInv'
<1>1. /\ pc \in Reading /\ ~reading /\ reading' = TRUE /\ sbuf' = <<>>
      /\ pc \in Lines => ~Found(pending, Delim)
      /\ pc \in Exacts => need > 0 /\ pending = <<>>
      /\ UNCHANGED <<pc, left, sock, wire, taken, pending, out, need, body, interims, trailers,
                     result, requests>>
  BY DEF StartReadUntil, StartRead, Goto, Reading, Lines, Exacts
<1>2. ClientTypes /\ BufferTypes /\ taken \in Nat /\ taken <= arrived
  BY DEF ClientInv, ClientTypes
<1>3. BufferTypes' /\ taken' \in Nat /\ taken' <= arrived
  BY <1>1, <1>2, NoTokens DEF BufferTypes
<1>4. PICK u \in Nat : At(u) /\ Phase(u)
  BY <1>1 DEF ClientInv
<1>5. At(u)'
  BY <1>1, <1>4 DEF At, wire
<1>6. Phase(u)'
  BY <1>1, <1>4, PhaseFrame DEF wire
<1>7. ReadInv'
  <2>1. Delim \in {CRLF, Blank}
    BY DEF Delim
  <2>2. ~Found(sbuf', Delim)
    BY <1>1, <2>1, NothingFound
  <2>3. Len(sbuf') = 0 /\ need \in Nat
    BY <1>1, <1>2 DEF BufferTypes
  <2>4. Delim' = Delim
    BY <1>1 DEF Delim
  <2> QED BY <1>1, <2>2, <2>3, <2>4 DEF ReadInv
<1>8. pc' \in Reading /\ UNCHANGED <<left, sock, wire, result, requests>>
  BY <1>1
<1> QED BY <1>1, <1>3, <1>4, <1>5, <1>6, <1>7, <1>8, GoOn

(* A read of a line gets more, or all it wants.                            *)
LEMMA UntilReceivesStep == ASSUME ClientInv, UntilReceives PROVE ClientInv'
<1>1. ClientTypes /\ BufferTypes /\ taken \in Nat /\ arrived \in Nat /\ ReadInv
      /\ pc \in Lines /\ pc \in Reading /\ reading /\ arrived > taken /\ taken' = arrived
      /\ UNCHANGED <<out, need, body, interims, trailers>>
  BY DEF ClientInv, ClientTypes, UntilReceives, Reading
<1>2. PICK n \in Nat : n = arrived - taken
  BY <1>1
<1>3. taken + n = arrived /\ taken' = taken + n /\ taken + n <= arrived
  BY <1>1, <1>2
<1>4. PICK u \in Nat : At(u) /\ Phase(u)
  BY <1>1 DEF ClientInv
<1>5. PICK got : got = sbuf \o SubSeq(resp.wire, taken + 1, taken + n)
  OBVIOUS
<1>6. got \in Seq(TokenType)
  BY <1>1, <1>3, <1>4, <1>5, GotMore
<1>7. CASE ~Found(got, Delim)
  <2>1. /\ sbuf' = got /\ pc' = pc /\ UNCHANGED <<left, sock, wire, result, requests, pending, reading>>
    BY <1>3, <1>5, <1>7 DEF UntilReceives, Goto
  <2>2. At(u)'
    BY <1>1, <1>3, <1>4, <1>5, <2>1, AtReceives DEF wire
  <2>3. Phase(u)'
    BY <1>1, <1>4, <2>1, PhaseFrame DEF wire
  <2>4. BufferTypes'
    BY <1>1, <1>6, <2>1 DEF BufferTypes
  <2>5. Delim' = Delim
    BY <2>1 DEF Delim
  <2>6. ReadInv'
    BY <1>1, <1>7, <2>1, <2>5 DEF ReadInv, Lines, Exacts
  <2>7. pc' \in Reading /\ taken' \in Nat /\ taken' <= arrived
    BY <1>1, <2>1
  <2> QED BY <1>1, <2>1, <2>2, <2>3, <2>4, <2>6, <2>7, GoOn
<1>8. CASE Found(got, Delim)
  <2>1. /\ pending' = pending \o got /\ reading' = FALSE /\ sbuf' = <<>>
        /\ Fail("limit") \/ Goto(pc)
    BY <1>3, <1>5, <1>8 DEF UntilReceives
  <2>2. resp' = resp
    BY <2>1 DEF Fail, Return, Goto, wire
  <2>3. At(u)' /\ pending' \in Seq(TokenType)
    BY <1>1, <1>3, <1>4, <1>5, <2>1, <2>2, AtFlush
  <2>4. BufferTypes' /\ taken' \in Nat /\ taken' <= arrived
    <3>1. sbuf' \in Seq(TokenType) /\ reading' \in BOOLEAN
      BY <2>1, NoTokens
    <3> QED BY <1>1, <2>3, <3>1 DEF BufferTypes
  <2>5. CASE Fail("limit")
    BY <2>4, <2>5, FailStep
  <2>6. CASE Goto(pc)
    <3>1. pc' = pc /\ UNCHANGED <<left, sock, wire, result, requests>>
      BY <2>6 DEF Goto
    <3>2. Phase(u)'
      BY <1>1, <1>4, <2>2, <3>1, PhaseFrame DEF Lines
    <3>3. ReadInv' /\ pc' \in Reading
      BY <1>1, <2>1, <3>1 DEF ReadInv
    <3> QED BY <1>1, <2>3, <2>4, <3>1, <3>2, <3>3, GoOn
  <2> QED BY <2>1, <2>5, <2>6
<1> QED BY <1>7, <1>8

(* What is looked for is in the rest of the response.                      *)
LEMMA LineComes ==
  ASSUME ClientTypes, NEW u \in Nat, Phase(u), pc \in Lines, resp.framing # "garbled",
         NEW n \in Nat, n = Len(Delim)
  PROVE  \E e \in Nat : u + n <= e /\ e <= Len(resp.wire) /\ Holds(Delim, resp.wire, e - n)
<1>1. IsResponse(resp) /\ interims \in Nat
  BY DEF ClientTypes, BufferTypes
<1>2. Len(resp.wire) \in Nat /\ resp.interim \in Nat /\ HeadEnd(resp) = 5 * resp.interim + 5
      /\ HeadEnd(resp) \in Nat /\ Len(resp.body) \in Nat /\ resp.trailer \in BOOLEAN
  BY <1>1, ResponseTypes
<1>3. CASE pc = "head"
  <2>1. interims <= resp.interim /\ u = 5 * interims /\ Delim = Blank /\ n = 4
    BY <1>3, DelimLen DEF Phase, HeadInv, Delim
  <2>2. HeadEnd(resp) <= Len(resp.wire)
    <3>1. CASE resp.framing = "chunked"
      <4>1. Chunks(resp) \in Nat
        BY <1>1, <3>1, ChunkCount
      <4>2. HeadEnd(resp) <= Mark(resp, Chunks(resp)) /\ Mark(resp, Chunks(resp)) \in Nat
            /\ Mark(resp, Chunks(resp)) + 5 <= Len(resp.wire)
        BY <1>1, <3>1, <4>1, ChunkBounds
      <4> QED BY <1>2, <4>2
    <3>2. CASE resp.framing # "chunked"
      BY SMTT(30), <1>1, <1>2, <3>2, PlainAt
    <3> QED BY <3>1, <3>2
  <2>3. PICK e \in Nat : e = u + 5
    OBVIOUS
  <2>4. u + 4 <= e /\ e <= Len(resp.wire) /\ e - 4 = u + 1
    BY <1>1, <1>2, <2>1, <2>2, <2>3
  <2>5. /\ resp.wire[u + 2] = CR /\ resp.wire[u + 3] = LF
        /\ resp.wire[u + 4] = CR /\ resp.wire[u + 5] = LF
    BY <1>1, <2>1, HeadAt
  <2>6. Holds(Blank, resp.wire, u + 1)
    BY <2>5, DelimLen DEF Holds
  <2> QED BY <2>1, <2>3, <2>4, <2>6
<1>4. ASSUME pc # "head", NEW q \in Nat, u <= q, q + 2 <= Len(resp.wire),
             resp.wire[q + 1] = CR, resp.wire[q + 2] = LF
      PROVE  \E e \in Nat : u + n <= e /\ e <= Len(resp.wire) /\ Holds(Delim, resp.wire, e - n)
  <2>1. Delim = CRLF /\ n = 2
    BY <1>4, DelimLen DEF Delim
  <2>2. Holds(CRLF, resp.wire, q)
    BY <1>4, DelimLen DEF Holds
  <2>3. PICK e \in Nat : e = q + 2
    BY <1>4
  <2>4. u + 2 <= e /\ e <= Len(resp.wire) /\ e - 2 = q
    BY <1>4, <2>3
  <2> QED BY <2>1, <2>2, <2>3, <2>4
<1>5. CASE pc = "size"
  <2>1. PICK c \in 0 .. Chunks(resp) : u = Mark(resp, c) /\ resp.framing = "chunked"
    BY <1>5 DEF Phase, SizeInv
  <2>2. Chunks(resp) \in Nat
    BY <1>1, <2>1, ChunkCount
  <2>3. c \in Nat /\ c <= Chunks(resp)
    BY <2>1, <2>2
  <2>4. resp.wire[u + 2] = CR /\ resp.wire[u + 3] = LF /\ u + 5 <= Len(resp.wire)
    BY <1>1, <2>1, <2>3, SizeAt, ChunkBounds
  <2>5. u + 1 \in Nat /\ u <= u + 1 /\ (u + 1) + 2 <= Len(resp.wire)
        /\ (u + 1) + 1 = u + 2 /\ (u + 1) + 2 = u + 3
    BY SMTT(30), <1>2, <2>4
  <2> QED BY <1>4, <1>5, <2>4, <2>5
<1>6. CASE pc = "trailer"
  <2>1. PICK m : m = Mark(resp, Chunks(resp))
    OBVIOUS
  <2>2. resp.framing = "chunked" /\ (u = m + 3 \/ (resp.trailer /\ u = m + 6))
    BY <1>6, <2>1 DEF Phase, TrailerInv
  <2>3. /\ m \in Nat
        /\ ~resp.trailer => /\ Len(resp.wire) = m + 5
                            /\ resp.wire[m + 4] = CR /\ resp.wire[m + 5] = LF
        /\ resp.trailer => /\ Len(resp.wire) = m + 8
                           /\ resp.wire[m + 7] = CR /\ resp.wire[m + 8] = LF
    BY <1>1, <2>1, <2>2, TrailerAt
  <2>4. CASE ~resp.trailer
    <3>1. m + 3 \in Nat /\ u <= m + 3 /\ (m + 3) + 2 <= Len(resp.wire)
          /\ (m + 3) + 1 = m + 4 /\ (m + 3) + 2 = m + 5
      BY <2>2, <2>3, <2>4
    <3> QED BY <1>4, <1>6, <2>3, <2>4, <3>1
  <2>5. CASE resp.trailer
    <3>1. m + 6 \in Nat /\ u <= m + 6 /\ (m + 6) + 2 <= Len(resp.wire)
          /\ (m + 6) + 1 = m + 7 /\ (m + 6) + 2 = m + 8
      BY <2>2, <2>3, <2>5
    <3> QED BY <1>4, <1>6, <2>3, <2>5, <3>1
  <2> QED BY <2>4, <2>5
<1> QED BY <1>3, <1>5, <1>6 DEF Lines

(* The end of the connection, an error or the deadline.                    *)
LEMMA UntilFailsStep == ASSUME ClientInv, UntilFails PROVE ClientInv'
<1>1. PICK why \in {"eof", "error"} :
        /\ pc \in Lines /\ ReadEnds(why) /\ Fail(why)
        /\ UNCHANGED <<taken, pending, sbuf, out, need, body, interims, trailers>>
  BY DEF UntilFails
<1>2. ClientTypes /\ BufferTypes /\ taken \in Nat /\ taken <= arrived
  BY DEF ClientInv, ClientTypes
<1>3. BufferTypes' /\ taken' \in Nat /\ taken' <= arrived
  BY <1>1, <1>2 DEF BufferTypes, ReadEnds, Lines
<1>4. CASE why # "eof"
  BY <1>1, <1>3, <1>4, FailStep
<1>5. CASE why = "eof"
  <2>1. reading /\ taken = total
    BY <1>1, <1>5 DEF ReadEnds
  <2>2. result' = [ok |-> FALSE, body |-> <<>>, why |-> "eof"] /\ UNCHANGED <<resp, total, pending>>
    BY <1>1, <1>5 DEF Fail, Return, wire
  <2>3. BodyExact'
    <3>1. ~(result.ok)' => BodyExact'
      BY NotOk, PTL
    <3> QED BY <2>2, <3>1
  <2>4. ASSUME total = Len(resp.wire), resp.framing # "garbled" PROVE CutDelimiter
    <3>1. pc \in Reading
      BY <1>1 DEF Reading
    <3>2. PICK u \in Nat : At(u) /\ Phase(u)
      BY <3>1 DEF ClientInv
    <3>3. ~Found(pending, Delim) /\ ~Found(sbuf, Delim)
      BY <1>1, <2>1, <3>1 DEF ClientInv, ReadInv
    <3>4. PICK d : d = Delim
      OBVIOUS
    <3>5. d \in {CRLF, Blank}
      BY <3>4 DEF Delim
    <3>6. PICK n \in Nat : n = Len(d) /\ DOMAIN d = 1 .. n
      BY <3>5, DelimLen
    <3>7. PICK e \in Nat : u + n <= e /\ e <= Len(resp.wire) /\ Holds(d, resp.wire, e - n)
      BY <1>1, <1>2, <2>4, <3>2, <3>4, <3>6, LineComes
    <3> QED BY <1>2, <2>1, <2>4, <3>2, <3>3, <3>4, <3>5, <3>6, <3>7, CutBetween
  <2>5. CutDelimiter => CutDelimiter'
    BY <2>2 DEF CutDelimiter
  <2>6. CompleteReturned'
    BY <2>2, <2>4, <2>5 DEF CompleteReturned
  <2> QED BY <1>1, <1>3, <2>3, <2>6, ReturnStep DEF Fail
<1> QED BY <1>4, <1>5

LEMMA LineTooLongStep == ASSUME ClientInv, LineTooLong PROVE ClientInv'
<1>1. pc \in Lines /\ Fail("limit") /\ UNCHANGED reader
  BY DEF LineTooLong
<1>2. BufferTypes /\ taken \in Nat /\ taken <= arrived
  BY DEF ClientInv, ClientTypes
<1>3. BufferTypes' /\ taken' \in Nat /\ taken' <= arrived
  BY <1>1, <1>2 DEF BufferTypes, reader, Lines
<1> QED BY <1>1, <1>3, FailStep
-----------------------------------------------------------------------------
(* read_exact.  A part of w that lies in t too: what holds one holds the   *)
(* other.                                                                  *)
LEMMA Through ==
  ASSUME NEW x \in Seq(TokenType), NEW t, NEW w, NEW a \in Nat, NEW b \in Nat, NEW q \in Nat,
         NEW l \in Nat, Holds(x, w, a + b), Same(w, a, t, q, l), b + Len(x) <= l
  PROVE  Holds(x, t, q + b)
<1>1. PICK n \in Nat : n = Len(x)
  OBVIOUS
<1>2. ASSUME NEW k \in 1 .. n PROVE x[k] = t[q + b + k]
  <2>1. b + k \in 1 .. l /\ a + b + k = a + (b + k) /\ q + b + k = q + (b + k)
    BY <1>1
  <2>2. x[k] = w[a + b + k]
    BY <1>1 DEF Holds
  <2> QED BY <2>1, <2>2 DEF Same
<1> QED BY <1>1, <1>2 DEF Holds

(* Sums that the positions need.                                           *)
LEMMA GrowSums ==
  ASSUME NEW h \in Nat, NEW o \in Nat, NEW n \in Nat, NEW m \in Nat, NEW l \in Nat,
         o + m = l, n <= m
  PROVE  /\ o + n <= l /\ (o + n) + (m - n) = l /\ (h + o) + n = h + (o + n)
         /\ (h + o) + m = h + l
  OBVIOUS

(* What is missing is in the rest of the response.                         *)
LEMMA ExactComes ==
  ASSUME ClientTypes, NEW u \in Nat, Phase(u), pc \in Exacts
  PROVE  u + need <= Len(resp.wire)
<1>1. IsResponse(resp) /\ need \in Nat /\ Len(out) \in Nat
  BY DEF ClientTypes, BufferTypes
<1>2. Len(resp.wire) \in Nat /\ HeadEnd(resp) \in Nat /\ Len(resp.body) \in Nat
  BY <1>1, ResponseTypes
<1>3. CASE pc = "exact_body"
  <2>1. /\ resp.framing = "length" /\ Len(out) + need = Len(resp.body)
        /\ u = HeadEnd(resp) + Len(out)
    BY <1>3 DEF Phase, LengthInv
  <2>2. Len(resp.wire) = HeadEnd(resp) + Len(resp.body)
    BY <1>1, <2>1, PlainAt
  <2> QED BY <1>1, <1>2, <2>1, <2>2
<1>4. ASSUME NEW c \in 1 .. Chunks(resp), resp.framing = "chunked"
      PROVE  /\ ChunkLen(resp, c) \in Nat /\ Mark(resp, c - 1) \in Nat
             /\ Mark(resp, c) = Mark(resp, c - 1) + 5 + ChunkLen(resp, c)
             /\ Mark(resp, c) <= Len(resp.wire)
  <2>1. Chunks(resp) \in Nat
    BY <1>1, <1>4, ChunkCount
  <2>2. PICK b \in Nat : b = c - 1
    BY <1>4, <2>1
  <2>3. b + 1 = c /\ b < Chunks(resp) /\ b <= Chunks(resp) /\ c \in Nat /\ c <= Chunks(resp)
    BY <1>4, <2>1, <2>2
  <2>4. ChunkLen(resp, c) \in Nat /\ Mark(resp, c) = Mark(resp, b) + 5 + ChunkLen(resp, c)
    BY <1>1, <1>4, <2>3, ChunkAt
  <2>5. Mark(resp, b) \in Nat /\ Mark(resp, c) \in Nat /\ Mark(resp, c) + 5 <= Len(resp.wire)
    BY <1>1, <1>4, <2>3, ChunkBounds
  <2>6. Mark(resp, c) <= Len(resp.wire)
    BY <1>2, <2>5
  <2> QED BY <2>2, <2>4, <2>5, <2>6
<1>5. CASE pc = "exact_chunk"
  <2>1. PICK c \in 1 .. Chunks(resp) :
          /\ resp.framing = "chunked" /\ Len(out) + need = ChunkLen(resp, c)
          /\ u = Mark(resp, c - 1) + 3 + Len(out)
    BY <1>5 DEF Phase, ChunkInv
  <2>2. PICK h \in Nat : h = Mark(resp, c - 1) + 3
    BY <1>4, <2>1
  <2>3. PICK l \in Nat : l = ChunkLen(resp, c)
    BY <1>4, <2>1
  <2>4. h + l <= Len(resp.wire)
    <3>1. PICK m \in Nat : m = Mark(resp, c - 1)
      BY <1>4, <2>1
    <3>2. PICK w \in Nat : w = Len(resp.wire)
      BY <1>2
    <3>3. m + 5 + l <= w /\ h = m + 3
      BY <1>4, <2>1, <2>2, <2>3, <3>1, <3>2
    <3>4. (m + 3) + l <= w
      BY <3>3
    <3> QED BY <3>2, <3>3, <3>4
  <2>5. (h + Len(out)) + need = h + l
    BY <1>1, <2>1, <2>2, <2>3, GrowSums
  <2> QED BY <2>1, <2>2, <2>4, <2>5
<1>6. CASE pc = "exact_end"
  <2>1. PICK c \in 1 .. Chunks(resp) :
          /\ resp.framing = "chunked" /\ Len(out) + need = 2
          /\ u = Mark(resp, c) - 2 + Len(out)
    BY <1>6 DEF Phase, EndInv
  <2>2. PICK h \in Nat : h + 2 = Mark(resp, c) /\ h = Mark(resp, c) - 2
    <3>1. Mark(resp, c) - 2 \in Nat /\ (Mark(resp, c) - 2) + 2 = Mark(resp, c)
      BY <1>4, <2>1
    <3> QED BY <3>1
  <2>3. (h + Len(out)) + need = h + 2
    BY <1>1, <2>1, <2>2, GrowSums
  <2>4. h + 2 <= Len(resp.wire)
    BY <1>4, <2>1, <2>2
  <2> QED BY <2>1, <2>2, <2>3, <2>4
<1> QED BY <1>3, <1>5, <1>6 DEF Exacts

(* read_exact appends the next tokens of the response.                     *)
LEMMA OutGrows ==
  ASSUME ClientTypes, NEW u \in Nat, Phase(u), pc \in Exacts,
         NEW x \in Seq(TokenType), Len(x) <= need, Holds(x, resp.wire, u),
         out' = out \o x, need' = need - Len(x), UNCHANGED <<pc, resp, body, interims>>
  PROVE  Phase(u + Len(x))' /\ out' \in Seq(TokenType) /\ need' \in Nat
<1>1. IsResponse(resp) /\ need \in Nat /\ out \in Seq(TokenType)
  BY DEF ClientTypes, BufferTypes
<1>2. PICK o \in Nat : o = Len(out)
  BY <1>1
<1>3. PICK n \in Nat : n = Len(x)
  OBVIOUS
<1>4. /\ out' \in Seq(TokenType) /\ Len(out') = o + n /\ n <= need /\ need' = need - n
      /\ need' \in Nat
  BY <1>1, <1>2, <1>3
<1>5. HeadEnd(resp) \in Nat /\ Len(resp.body) \in Nat
  BY <1>1, ResponseTypes
<1>6. CASE pc = "exact_body"
  <2>1. /\ resp.framing = "length" /\ Holds(out, resp.body, 0) /\ o + need = Len(resp.body)
        /\ u = HeadEnd(resp) + o
    BY <1>2, <1>6 DEF Phase, LengthInv, Got
  <2>2. Holds(resp.body, resp.wire, HeadEnd(resp))
    BY <1>1, <2>1, PlainAt
  <2>3. Same(resp.wire, HeadEnd(resp), resp.body, 0, Len(resp.body))
    <3>1. \A j \in 1 .. Len(resp.body) : 0 + j = j
      BY <1>5
    <3> QED BY <2>2, <3>1 DEF Holds, Same
  <2>4. o + n <= Len(resp.body) /\ (o + n) + need' = Len(resp.body)
        /\ u + n = HeadEnd(resp) + (o + n)
    <3>1. PICK b \in Nat : b = Len(resp.body)
      BY <1>5
    <3>2. PICK h \in Nat : h = HeadEnd(resp)
      BY <1>5
    <3>3. PICK e \in Nat : e = need
      BY <1>1
    <3>4. o + e = b /\ n <= e
      BY <1>4, <2>1, <3>1, <3>3
    <3>5. o + n <= b /\ (o + n) + (e - n) = b /\ (h + o) + n = h + (o + n)
      BY <3>4
    <3> QED BY <1>4, <2>1, <3>1, <3>2, <3>3, <3>5
  <2>5. Holds(x, resp.body, 0 + o)
    <3>1. Holds(x, resp.wire, HeadEnd(resp) + o) /\ o + Len(x) <= Len(resp.body)
      BY <1>3, <2>1, <2>4
    <3> QED BY <1>5, <2>3, <3>1, Through
  <2>6. Holds(out', resp.body, 0)
    BY <1>1, <1>2, <2>1, <2>5, HoldsMore
  <2>7. LengthInv(u + n)'
    BY <1>4, <2>1, <2>4, <2>6 DEF LengthInv, Got
  <2> QED BY <1>3, <1>4, <1>6, <2>7 DEF Phase, HeadInv, RestInv, SizeInv, ChunkInv, EndInv, TrailerInv
<1>7. ASSUME NEW c \in 1 .. Chunks(resp), resp.framing = "chunked"
      PROVE  /\ ChunkLen(resp, c) \in Nat /\ Mark(resp, c - 1) \in Nat /\ resp.cut[c] \in Nat
             /\ Mark(resp, c) = Mark(resp, c - 1) + 5 + ChunkLen(resp, c)
             /\ Same(resp.wire, Mark(resp, c - 1) + 3, resp.body, resp.cut[c], ChunkLen(resp, c))
             /\ resp.wire[Mark(resp, c) - 1] = CR /\ resp.wire[Mark(resp, c)] = LF
  <2>1. Chunks(resp) \in Nat
    BY <1>1, <1>7, ChunkCount
  <2>2. PICK b \in Nat : b = c - 1
    BY <1>7, <2>1
  <2>3. b + 1 = c /\ b < Chunks(resp) /\ b <= Chunks(resp)
    BY <1>7, <2>1, <2>2
  <2>4. /\ ChunkLen(resp, c) \in Nat /\ Mark(resp, c) = Mark(resp, b) + 5 + ChunkLen(resp, c)
        /\ Same(resp.wire, Mark(resp, b) + 3, resp.body, resp.cut[c], ChunkLen(resp, c))
        /\ resp.wire[Mark(resp, c) - 1] = CR /\ resp.wire[Mark(resp, c)] = LF
    BY <1>1, <1>7, <2>3, ChunkAt
  <2>5. Mark(resp, b) \in Nat /\ resp.cut[c] \in Nat
    BY <1>1, <1>7, <2>3, ChunkBounds
  <2> QED BY <2>2, <2>4, <2>5
<1>8. CASE pc = "exact_chunk"
  <2>1. PICK c \in 1 .. Chunks(resp) :
          /\ resp.framing = "chunked" /\ Got(body, resp.cut[c]) /\ o + need = ChunkLen(resp, c)
          /\ Holds(out, resp.body, resp.cut[c]) /\ u = Mark(resp, c - 1) + 3 + o
    BY <1>2, <1>8 DEF Phase, ChunkInv
  <2>2. PICK m \in Nat : m = Mark(resp, c - 1) + 3
    BY <1>7, <2>1
  <2>3. Same(resp.wire, m, resp.body, resp.cut[c], ChunkLen(resp, c))
    BY <1>7, <2>1, <2>2
  <2>4. ChunkLen(resp, c) \in Nat /\ resp.cut[c] \in Nat /\ u = m + o
    BY <1>7, <2>1, <2>2
  <2>5. o + n <= ChunkLen(resp, c) /\ (o + n) + need' = ChunkLen(resp, c) /\ u + n = m + (o + n)
    <3>1. PICK l \in Nat : l = ChunkLen(resp, c)
      BY <2>4
    <3>2. PICK e \in Nat : e = need
      BY <1>1
    <3>3. o + e = l /\ n <= e
      BY <1>4, <2>1, <3>1, <3>2
    <3>4. o + n <= l /\ (o + n) + (e - n) = l /\ (m + o) + n = m + (o + n)
      BY <3>3
    <3> QED BY <1>4, <2>4, <3>1, <3>2, <3>4
  <2>6. Holds(x, resp.body, resp.cut[c] + o)
    <3>1. Holds(x, resp.wire, m + o) /\ o + Len(x) <= ChunkLen(resp, c)
      BY <1>3, <2>4, <2>5
    <3> QED BY <2>3, <2>4, <3>1, Through
  <2>7. Holds(out', resp.body, resp.cut[c])
    BY <1>1, <1>2, <2>1, <2>4, <2>6, HoldsMore
  <2>8. ChunkInv(u + n)'
    <3>1. Got(body, resp.cut[c])'
      BY <2>1 DEF Got
    <3>2. (u + n = Mark(resp, c - 1) + 3 + Len(out))'
      BY <1>4, <2>2, <2>5
    <3> QED BY <1>4, <2>1, <2>5, <2>7, <3>1, <3>2 DEF ChunkInv
  <2> QED BY <1>3, <1>4, <1>8, <2>8 DEF Phase, HeadInv, RestInv, SizeInv, LengthInv, EndInv, TrailerInv
<1>9. CASE pc = "exact_end"
  <2>1. PICK c \in 1 .. Chunks(resp) :
          /\ resp.framing = "chunked" /\ Got(body, resp.cut[c + 1]) /\ o + need = 2
          /\ Holds(out, CRLF, 0) /\ u = Mark(resp, c) - 2 + o
    BY <1>2, <1>9 DEF Phase, EndInv
  <2>2. /\ Mark(resp, c) = Mark(resp, c - 1) + 5 + ChunkLen(resp, c) /\ Mark(resp, c - 1) \in Nat
        /\ ChunkLen(resp, c) \in Nat
    BY <1>7, <2>1
  <2>3. PICK m \in Nat : m = Mark(resp, c) - 2 /\ m + 1 = Mark(resp, c) - 1 /\ m + 2 = Mark(resp, c)
    <3>1. Mark(resp, c) - 2 \in Nat /\ (Mark(resp, c) - 2) + 1 = Mark(resp, c) - 1
          /\ (Mark(resp, c) - 2) + 2 = Mark(resp, c)
      BY <2>2
    <3> QED BY <3>1
  <2>4. m + 1 = Mark(resp, c) - 1 /\ m + 2 = Mark(resp, c) /\ u = m + o
    BY <2>1, <2>3
  <2>5. Same(resp.wire, m, CRLF, 0, 2)
    <3>1. resp.wire[m + 1] = CR /\ resp.wire[m + 2] = LF
      BY <1>7, <2>1, <2>4
    <3> QED BY <3>1, DelimLen DEF Same
  <2>6. o + n <= 2 /\ (o + n) + need' = 2 /\ u + n = m + (o + n)
    BY SMTT(30), <1>1, <1>4, <2>1, <2>4, GrowSums
  <2>7. Holds(x, CRLF, 0 + o)
    <3>1. Holds(x, resp.wire, m + o) /\ o + Len(x) <= 2
      BY <1>3, <2>4, <2>6
    <3> QED BY <2>5, <3>1, Through
  <2>8. Holds(out', CRLF, 0)
    BY <1>1, <1>2, <2>1, <2>7, HoldsMore
  <2>9. EndInv(u + n)'
    <3>1. Got(body, resp.cut[c + 1])'
      BY <2>1 DEF Got
    <3>2. (u + n = Mark(resp, c) - 2 + Len(out))'
      BY <1>4, <2>3, <2>6
    <3> QED BY <1>4, <2>1, <2>6, <2>8, <3>1, <3>2 DEF EndInv
  <2> QED BY <1>3, <1>4, <1>9, <2>9 DEF Phase, HeadInv, RestInv, SizeInv, LengthInv, ChunkInv, TrailerInv
<1> QED BY <1>6, <1>8, <1>9 DEF Exacts
-----------------------------------------------------------------------------
(* A buffer that holds the front of a body.                                *)
LEMMA IsFront ==
  ASSUME NEW s \in Seq(TokenType), NEW t \in Seq(TokenType), Holds(s, t, 0), NEW n \in Nat,
         n = Len(s), n <= Len(t)
  PROVE  s = SubSeq(t, 1, n) /\ (n = Len(t) => s = t)
<1>1. \A k \in 1 .. n : s[k] = t[k]
  <2>1. \A k \in 1 .. n : 0 + k = k
    OBVIOUS
  <2> QED BY <2>1 DEF Holds
<1>2. s = [k \in 1 .. n |-> s[k]]
  OBVIOUS
<1>3. s = SubSeq(t, 1, n)
  <2>1. PICK x : x = SubSeq(t, 1, n)
    OBVIOUS
  <2>2. x \in Seq(TokenType) /\ Len(x) = n /\ \A k \in 1 .. n : x[k] = t[k]
    BY <2>1
  <2>3. x = [k \in 1 .. n |-> x[k]]
    BY <2>2
  <2> QED BY <1>1, <1>2, <2>1, <2>2, <2>3
<1>4. ASSUME n = Len(t) PROVE s = t
  <2>1. t = [k \in 1 .. n |-> t[k]]
    BY <1>4
  <2> QED BY <1>1, <1>2, <2>1
<1> QED BY <1>3, <1>4

(* What makes a result exact.                                              *)
LEMMA ExactWhole == resp.framing \in {"length", "chunked"} /\ result.body = resp.body => BodyExact
  BY DEF BodyExact

LEMMA ExactFront ==
  (resp.framing = "close" /\ \E n \in 0 .. Len(resp.body) : result.body = SubSeq(resp.body, 1, n))
    => BodyExact
  BY DEF BodyExact

LEMMA ExactNone == resp.framing = "bodyless" /\ result.body = <<>> => BodyExact
  BY DEF BodyExact

(* read_exact uses what is pending.                                        *)
LEMMA TakePendingStep == ASSUME ClientInv, TakePending PROVE ClientInv'
<1>1. ClientTypes /\ BufferTypes /\ taken \in Nat /\ taken <= arrived /\ need \in Nat
      /\ pending \in Seq(TokenType) /\ Len(pending) \in Nat
  BY DEF ClientInv, ClientTypes, BufferTypes
<1>2. PICK n : n = Min({need, Len(pending)})
  OBVIOUS
<1>3. n \in Nat /\ n <= need /\ n <= Len(pending)
  <2>1. need \in Int /\ Len(pending) \in Int
    BY <1>1
  <2>2. n <= need /\ n <= Len(pending) /\ n \in {need, Len(pending)}
    BY <1>2, <2>1, MinTwo
  <2> QED BY <1>1, <2>2
<1>4. /\ pc \in Exacts /\ pc \in Reading /\ ~reading
      /\ out' = out \o SubSeq(pending, 1, n) /\ pending' = Rest(pending, n) /\ need' = need - n
      /\ pc' = pc /\ UNCHANGED <<left, sock, wire, result, requests>>
      /\ UNCHANGED <<taken, reading, sbuf, body, interims, trailers>>
  BY <1>2 DEF TakePending, Goto, Reading
<1>5. PICK u \in Nat : At(u) /\ Phase(u)
  BY <1>4 DEF ClientInv
<1>6. PICK x : x = SubSeq(pending, 1, n)
  OBVIOUS
<1>7. x \in Seq(TokenType) /\ Len(x) = n /\ Holds(x, resp.wire, u)
  BY <1>1, <1>3, <1>5, <1>6, HoldsFirst DEF At
<1>8. Phase(u + n)' /\ out' \in Seq(TokenType) /\ need' \in Nat
  <2>1. UNCHANGED <<pc, resp, body, interims>>
    BY <1>4 DEF wire
  <2>2. Len(x) <= need /\ out' = out \o x /\ need' = need - Len(x)
    BY <1>3, <1>4, <1>6, <1>7
  <2>3. Phase(u + Len(x))' /\ out' \in Seq(TokenType) /\ need' \in Nat
    BY <1>1, <1>4, <1>5, <1>7, <2>1, <2>2, OutGrows
  <2>4. u + Len(x) = u + n
    BY <1>7
  <2> QED BY <1>7, <2>3
<1>9. At(u + n)' /\ pending' \in Seq(TokenType) /\ u + n \in Nat
  BY <1>1, <1>3, <1>4, <1>5, AtUse DEF wire
<1>10. BufferTypes' /\ taken' \in Nat /\ taken' <= arrived
  BY <1>1, <1>4, <1>8, <1>9 DEF BufferTypes
<1>11. ReadInv' /\ pc' \in Reading
  BY <1>4 DEF ReadInv
<1>12. PICK v \in Nat : v = u + n
  BY <1>9
<1>13. At(v)' /\ Phase(v)'
  BY <1>8, <1>9, <1>12
<1> QED BY <1>4, <1>10, <1>11, <1>12, <1>13, GoOn

(* The end of the connection inside what read_exact waits for.             *)
LEMMA ExactFailsStep == ASSUME ClientInv, ExactFails PROVE ClientInv'
<1>1. PICK why \in {"eof", "error"} :
        /\ pc \in Exacts /\ ReadEnds(why) /\ Fail(why)
        /\ UNCHANGED <<taken, pending, sbuf, out, need, body, interims, trailers>>
  BY DEF ExactFails
<1>2. ClientTypes /\ BufferTypes /\ taken \in Nat /\ taken <= arrived /\ need \in Nat
      /\ Len(sbuf) \in Nat
  BY DEF ClientInv, ClientTypes, BufferTypes
<1>3. BufferTypes' /\ taken' \in Nat /\ taken' <= arrived
  BY <1>1, <1>2 DEF BufferTypes, ReadEnds, Exacts
<1>4. CASE why # "eof"
  BY <1>1, <1>3, <1>4, FailStep
<1>5. CASE why = "eof"
  <2>1. reading /\ taken = total
    BY <1>1, <1>5 DEF ReadEnds
  <2>2. result' = [ok |-> FALSE, body |-> <<>>, why |-> "eof"] /\ UNCHANGED <<resp, total, pending>>
    BY <1>1, <1>5 DEF Fail, Return, wire
  <2>3. BodyExact'
    <3>1. ~(result.ok)' => BodyExact'
      BY NotOk, PTL
    <3> QED BY <2>2, <3>1
  <2>4. total # Len(resp.wire)
    <3>1. pc \in Reading
      BY <1>1 DEF Reading
    <3>2. PICK u \in Nat : At(u) /\ Phase(u)
      BY <3>1 DEF ClientInv
    <3>3. pending = <<>> /\ Len(sbuf) < need
      BY <1>1, <2>1, <3>1 DEF ClientInv, ReadInv
    <3>4. Len(pending) = 0
      BY <3>3
    <3>5. u + 0 + Len(sbuf) = taken
      BY <3>2, <3>4 DEF At
    <3>6. u + need <= Len(resp.wire)
      BY <1>1, <1>2, <3>2, ExactComes
    <3>7. PICK s \in Nat : s = Len(sbuf)
      BY <1>2
    <3>8. u + s < u + need
      BY <1>2, <3>3, <3>7
    <3>9. u + s = taken
      BY <3>5, <3>7
    <3> QED BY <1>2, <2>1, <3>6, <3>8, <3>9
  <2>5. CompleteReturned'
    BY <2>2, <2>4 DEF CompleteReturned
  <2> QED BY <1>1, <1>3, <2>3, <2>5, ReturnStep DEF Fail
<1> QED BY <1>4, <1>5

(* A body of a given length is complete.                                   *)
LEMMA ExactBodyStep == ASSUME ClientInv, ExactBody PROVE ClientInv'
<1>1. pc = "exact_body" /\ need = 0 /\ Succeed(out) /\ UNCHANGED reader
  BY DEF ExactBody
<1>2. ClientTypes /\ BufferTypes /\ taken \in Nat /\ taken <= arrived /\ out \in Seq(TokenType)
      /\ IsResponse(resp)
  BY DEF ClientInv, ClientTypes, BufferTypes
<1>3. BufferTypes' /\ taken' \in Nat /\ taken' <= arrived
  BY <1>1, <1>2 DEF BufferTypes, reader
<1>4. PICK u \in Nat : At(u) /\ Phase(u)
  BY <1>1 DEF ClientInv, Reading, Exacts
<1>5. resp.framing = "length" /\ Holds(out, resp.body, 0) /\ Len(out) + 0 = Len(resp.body)
  BY <1>1, <1>4 DEF Phase, LengthInv, Got
<1>6. resp.body \in Seq(TokenType)
  BY <1>2, ResponseTypes
<1>7. out = resp.body
  <2>1. PICK n \in Nat : n = Len(out)
    BY <1>2
  <2>2. n = Len(resp.body) /\ n <= Len(resp.body)
    BY <1>5, <2>1
  <2> QED BY <1>2, <1>5, <1>6, <2>1, <2>2, IsFront
<1>8. BodyExact'
  <2>1. (resp.framing \in {"length", "chunked"} /\ result.body = resp.body)' => BodyExact'
    BY ExactWhole, PTL
  <2>2. result' = [ok |-> TRUE, body |-> out, why |-> "none"] /\ resp' = resp
    BY <1>1 DEF Succeed, Return, wire
  <2> QED BY <1>5, <1>7, <2>1, <2>2
<1> QED BY <1>1, <1>3, <1>8, SucceedStep

(* A chunk is complete, and the two bytes behind it.                       *)
LEMMA ExactChunkStep == ASSUME ClientInv, ExactChunk PROVE ClientInv'
<1>1. /\ pc = "exact_chunk" /\ need = 0 /\ pc' = "exact_end" /\ body' = body \o out /\ out' = <<>>
      /\ need' = Len(CRLF) /\ UNCHANGED <<left, sock, wire, result, requests>>
      /\ UNCHANGED <<taken, pending, reading, sbuf, interims, trailers>>
  BY DEF ExactChunk, Goto
<1>2. ClientTypes /\ BufferTypes /\ taken \in Nat /\ taken <= arrived /\ out \in Seq(TokenType)
      /\ body \in Seq(TokenType) /\ IsResponse(resp)
  BY DEF ClientInv, ClientTypes, BufferTypes
<1>3. pc \in Reading /\ pc' \in Reading
  BY <1>1 DEF Reading, Exacts
<1>4. PICK u \in Nat : At(u) /\ Phase(u)
  BY <1>3 DEF ClientInv
<1>5. body' \in Seq(TokenType) /\ Len(body') = Len(body) + Len(out) /\ need' = 2
  BY <1>1, <1>2, DelimLen
<1>6. BufferTypes' /\ taken' \in Nat /\ taken' <= arrived
  BY <1>1, <1>2, <1>5, NoTokens DEF BufferTypes
<1>7. At(u)'
  BY <1>1, <1>4 DEF At, wire
<1>8. ReadInv'
  <2>1. ReadInv
    BY <1>3 DEF ClientInv
  <2>2. ~reading
    BY <1>1, <1>2, <2>1 DEF ReadInv, Exacts, BufferTypes
  <2> QED BY <1>1, <2>2 DEF ReadInv
<1>9. PICK c \in 1 .. Chunks(resp) :
        /\ resp.framing = "chunked" /\ Got(body, resp.cut[c]) /\ Len(out) + 0 = ChunkLen(resp, c)
        /\ Holds(out, resp.body, resp.cut[c]) /\ u = Mark(resp, c - 1) + 3 + Len(out)
  BY <1>1, <1>4 DEF Phase, ChunkInv
<1>10. Chunks(resp) \in Nat
  BY <1>2, <1>9, ChunkCount
<1>11. PICK b \in Nat : b = c - 1
  BY <1>9, <1>10
<1>12. b + 1 = c /\ b + 2 = c + 1 /\ b < Chunks(resp) /\ b <= Chunks(resp) /\ c \in Nat /\ c <= Chunks(resp)
  BY <1>9, <1>10, <1>11
<1>13. /\ ChunkLen(resp, c) \in Nat /\ resp.cut[c + 1] = resp.cut[c] + ChunkLen(resp, c)
       /\ Mark(resp, c) = Mark(resp, b) + 5 + ChunkLen(resp, c)
  BY <1>2, <1>9, <1>12, ChunkAt
<1>14. resp.cut[c] \in Nat /\ Mark(resp, b) \in Nat
  BY <1>2, <1>9, <1>12, ChunkBounds
<1>15. resp.cut[c + 1] <= Len(resp.body) /\ resp.cut[c + 1] \in Nat
  BY <1>2, <1>9, <1>12, ChunkBounds
<1>16. Len(body) = resp.cut[c] /\ Holds(body, resp.body, 0) /\ Len(out) = ChunkLen(resp, c)
  BY <1>2, <1>9 DEF Got
<1>17. Got(body, resp.cut[c + 1])'
  <2>1. 0 + Len(body) = resp.cut[c]
    BY <1>14, <1>16
  <2>2. Holds(out, resp.body, 0 + Len(body))
    BY <1>9, <2>1
  <2>3. Holds(body', resp.body, 0)
    BY <1>1, <1>2, <1>16, <2>2, HoldsMore
  <2>4. Len(body') = resp.cut[c + 1]
    BY <1>5, <1>13, <1>16
  <2> QED BY <1>1, <1>15, <2>3, <2>4 DEF Got, wire
<1>18. u = Mark(resp, c) - 2 + 0
  <2>1. u = Mark(resp, b) + 3 + ChunkLen(resp, c)
    BY <1>9, <1>11, <1>16
  <2>2. PICK m \in Nat : m = Mark(resp, b)
    BY <1>14
  <2>3. PICK l \in Nat : l = ChunkLen(resp, c)
    BY <1>13
  <2>4. m + 3 + l = (m + 5 + l) - 2 + 0
    OBVIOUS
  <2> QED BY <1>13, <2>1, <2>2, <2>3, <2>4
<1>19. EndInv(u)'
  <2>1. Len(out') = 0 /\ Holds(out', CRLF, 0) /\ Len(out') + need' = 2
    BY <1>1, <1>5 DEF Holds
  <2>2. (u = Mark(resp, c) - 2 + Len(out))'
    BY <1>1, <1>18, <2>1 DEF wire
  <2>3. resp' = resp
    BY <1>1 DEF wire
  <2> QED BY <1>9, <1>17, <2>1, <2>2, <2>3 DEF EndInv
<1>20. Phase(u)'
  BY <1>1, <1>19 DEF Phase, HeadInv, RestInv, SizeInv, LengthInv, ChunkInv, TrailerInv
<1> QED BY <1>1, <1>3, <1>6, <1>7, <1>8, <1>20, GoOn

LEMMA ExactEndStep == ASSUME ClientInv, ExactEnd PROVE ClientInv'
<1>1. /\ pc = "exact_end" /\ need = 0 /\ out' = <<>>
      /\ Goto("size") \/ Fail("invalid")
      /\ UNCHANGED <<taken, pending, reading, sbuf, need, body, interims, trailers>>
  BY DEF ExactEnd
<1>2. ClientTypes /\ BufferTypes /\ taken \in Nat /\ taken <= arrived /\ out \in Seq(TokenType)
      /\ IsResponse(resp)
  BY DEF ClientInv, ClientTypes, BufferTypes
<1>3. BufferTypes' /\ taken' \in Nat /\ taken' <= arrived
  BY <1>1, <1>2, NoTokens DEF BufferTypes
<1>4. CASE Fail("invalid")
  BY <1>1, <1>3, <1>4, FailStep
<1>5. CASE Goto("size")
  <2>1. pc' = "size" /\ UNCHANGED <<left, sock, wire, result, requests>>
    BY <1>5 DEF Goto
  <2>2. pc \in Reading /\ pc' \in Reading
    BY <1>1, <2>1 DEF Reading, Exacts, Lines
  <2>3. PICK u \in Nat : At(u) /\ Phase(u)
    BY <2>2 DEF ClientInv
  <2>4. At(u)'
    BY <1>1, <2>1, <2>3 DEF At, wire
  <2>5. ReadInv'
    <3>1. ReadInv
      BY <2>2 DEF ClientInv
    <3>2. ~reading
      BY <1>1, <1>2, <3>1 DEF ReadInv, Exacts, BufferTypes
    <3> QED BY <1>1, <3>2 DEF ReadInv
  <2>6. PICK c \in 1 .. Chunks(resp) :
          /\ resp.framing = "chunked" /\ Got(body, resp.cut[c + 1]) /\ Len(out) + 0 = 2
          /\ u = Mark(resp, c) - 2 + Len(out)
    BY <1>1, <2>3 DEF Phase, EndInv
  <2>7. Chunks(resp) \in Nat
    BY <1>2, <2>6, ChunkCount
  <2>8. c \in 0 .. Chunks(resp) /\ c \in Nat /\ c <= Chunks(resp)
    BY <2>6, <2>7
  <2>9. u = Mark(resp, c)
    <3>1. PICK m \in Nat : m = Mark(resp, c)
      BY <1>2, <2>6, <2>8, ChunkBounds
    <3>2. Len(out) = 2
      BY <1>2, <2>6
    <3>3. m - 2 + 2 = m
      BY <3>1
    <3> QED BY <2>6, <3>1, <3>2, <3>3
  <2>10. SizeInv(u)'
    <3>1. resp' = resp /\ body' = body
      BY <1>1, <2>1 DEF wire
    <3>2. Got(body, resp.cut[c + 1])'
      BY <2>6, <3>1 DEF Got
    <3> QED BY <1>1, <2>6, <2>8, <2>9, <3>1, <3>2 DEF SizeInv
  <2>11. Phase(u)'
    BY <2>1, <2>10 DEF Phase, HeadInv, RestInv, EndInv, LengthInv, ChunkInv, TrailerInv
  <2> QED BY <1>3, <2>1, <2>2, <2>3, <2>4, <2>5, <2>11, GoOn
<1> QED BY <1>1, <1>4, <1>5
-----------------------------------------------------------------------------
(* A body without a length takes the next tokens of the response.          *)
LEMMA RestGrows ==
  ASSUME ClientTypes, NEW u \in Nat, Phase(u), pc = "rest", NEW x \in Seq(TokenType),
         Holds(x, resp.wire, u), u + Len(x) <= Len(resp.wire)
  PROVE  /\ body \o x \in Seq(TokenType) /\ Holds(body \o x, resp.body, 0)
         /\ Len(body \o x) \in Nat /\ Len(body \o x) <= Len(resp.body)
         /\ u + Len(x) = HeadEnd(resp) + Len(body \o x)
<1>1. IsResponse(resp) /\ body \in Seq(TokenType)
  BY DEF ClientTypes, BufferTypes
<1>2. PICK b \in Nat : b = Len(body)
  BY <1>1
<1>3. PICK n \in Nat : n = Len(x)
  OBVIOUS
<1>4. PICK h \in Nat : h = HeadEnd(resp)
  BY <1>1, ResponseTypes
<1>5. PICK l \in Nat : l = Len(resp.body)
  BY <1>1, ResponseTypes
<1>6. resp.framing = "close" /\ Holds(body, resp.body, 0) /\ u = h + b
  BY <1>2, <1>4 DEF Phase, RestInv, Got
<1>7. Len(resp.wire) = h + l /\ Holds(resp.body, resp.wire, h)
  BY <1>1, <1>4, <1>5, <1>6, PlainAt
<1>8. (h + b) + n <= h + l
  BY <1>3, <1>6, <1>7
<1>9. b + n <= l /\ (h + b) + n = h + (b + n)
  BY <1>8
<1>10. Same(resp.wire, h, resp.body, 0, l)
  <2>1. \A j \in 1 .. l : 0 + j = j
    OBVIOUS
  <2> QED BY <1>5, <1>7, <2>1 DEF Holds, Same
<1>11. Holds(x, resp.body, 0 + b)
  <2>1. Holds(x, resp.wire, h + b) /\ b + Len(x) <= l
    BY <1>3, <1>6, <1>9
  <2> QED BY <1>10, <2>1, Through
<1>12. Holds(body \o x, resp.body, 0)
  BY <1>1, <1>2, <1>6, <1>11, HoldsMore
<1>13. body \o x \in Seq(TokenType) /\ Len(body \o x) = b + n
  BY <1>1, <1>2, <1>3
<1> QED BY <1>3, <1>4, <1>5, <1>6, <1>9, <1>12, <1>13

(* What is asked for with one read.                                        *)
LEMMA StepSize == ASSUME ClientTypes PROVE Step \in Int /\ (pc # "rest" => Step <= need)
<1>1. need \in Int /\ ReadChunk \in Int
  BY ClientAssumption DEF ClientTypes, BufferTypes
<1>2. CASE pc = "rest"
  BY <1>1, <1>2 DEF Step
<1>3. CASE pc # "rest"
  BY <1>1, <1>3, MinTwo DEF Step
<1> QED BY <1>2, <1>3

LEMMA ReadReceivesStep == ASSUME ClientInv, ReadReceives PROVE ClientInv'
<1>1. /\ ClientTypes /\ BufferTypes /\ taken \in Nat /\ arrived \in Nat /\ taken <= arrived
      /\ total \in Nat /\ arrived <= total /\ total <= Len(resp.wire) /\ IsResponse(resp)
      /\ sbuf \in Seq(TokenType) /\ pending \in Seq(TokenType) /\ need \in Nat
  BY DEF ClientInv, ClientTypes, BufferTypes
<1>2. PICK n : n = Min({arrived - taken, Step - Len(sbuf)})
  OBVIOUS
<1>3. /\ pc \in Exacts \cup {"rest"} /\ reading /\ n > 0 /\ taken' = taken + n
      /\ UNCHANGED <<pending, interims, trailers>>
  BY <1>2 DEF ReadReceives
<1>4. n \in Int /\ n <= arrived - taken /\ n <= Step - Len(sbuf)
  <2>1. arrived - taken \in Int /\ Step - Len(sbuf) \in Int
    BY <1>1, StepSize
  <2> QED BY <1>2, <2>1, MinTwo
<1>5. n \in Nat /\ taken + n <= arrived /\ Len(sbuf) + n <= Step /\ taken + n \in Nat
  <2>1. Len(sbuf) \in Nat /\ Step \in Int
    BY <1>1, StepSize
  <2> QED BY <1>1, <1>3, <1>4, <2>1
<1>6. PICK got : got = sbuf \o SubSeq(resp.wire, taken + 1, taken + n)
  OBVIOUS
<1>7. pc \in Reading
  BY <1>3 DEF Reading, Exacts
<1>8. PICK u \in Nat : At(u) /\ Phase(u)
  BY <1>7 DEF ClientInv
<1>9. pending = <<>> /\ Len(pending) = 0
  <2>1. ReadInv
    BY <1>7 DEF ClientInv
  <2>2. pending = <<>>
    BY <1>3, <1>8, <2>1 DEF ReadInv, Phase, RestInv
  <2> QED BY <2>2
<1>10. /\ got \in Seq(TokenType) /\ Len(got) = Len(sbuf) + n /\ Holds(got, resp.wire, u)
       /\ u + Len(got) = taken + n
  <2>1. /\ got \in Seq(TokenType) /\ Len(got) = Len(sbuf) + n
        /\ Holds(got, resp.wire, u + Len(pending)) /\ u + Len(pending) + Len(got) = taken + n
    <3>1. ClientTypes /\ At(u) /\ n \in Nat /\ taken + n <= arrived
      BY <1>1, <1>5, <1>8
    <3> QED BY <1>6, <3>1, GotMore
  <2>2. u + Len(pending) = u
    BY <1>9
  <2> QED BY <2>1, <2>2
<1>11. pc # "rest" => Len(got) <= need
  <2>1. Len(got) \in Nat /\ Len(got) <= Step /\ Step \in Int /\ (pc # "rest" => Step <= need)
    BY <1>1, <1>5, <1>10, StepSize
  <2> QED BY <1>1, <2>1
<1>12. taken' \in Nat /\ taken' <= arrived
  BY <1>3, <1>5
<1>13. CASE Len(got) < Step
  <2>1. /\ sbuf' = got /\ pc' = pc /\ UNCHANGED <<left, sock, wire, result, requests>>
        /\ UNCHANGED <<reading, out, need, body>>
    BY <1>2, <1>6, <1>13 DEF ReadReceives, Goto
  <2>2. At(u)'
    BY <1>1, <1>3, <1>5, <1>6, <1>8, <2>1, AtReceives DEF wire
  <2>3. Phase(u)'
    BY <1>3, <1>8, <2>1, PhaseFrame DEF wire
  <2>4. BufferTypes'
    BY <1>1, <1>3, <1>10, <2>1 DEF BufferTypes
  <2>5. ReadInv'
    <3>1. pc \in Exacts => Len(got) < need
      <4>1. Len(got) \in Nat /\ Step \in Int /\ (pc # "rest" => Step <= need)
        BY <1>1, <1>10, StepSize
      <4>2. pc \in Exacts => pc # "rest"
        BY DEF Exacts
      <4> QED BY <1>1, <1>13, <4>1, <4>2
    <3> QED BY <1>3, <1>9, <2>1, <3>1 DEF ReadInv, Lines, Exacts
  <2> QED BY <1>7, <1>8, <1>12, <2>1, <2>2, <2>3, <2>4, <2>5, GoOn
<1>14. CASE ~(Len(got) < Step)
  <2>1. reading' = FALSE /\ sbuf' = <<>>
    BY <1>2, <1>6, <1>14 DEF ReadReceives
  <2>2. PICK v \in Nat : v = taken'
    BY <1>12
  <2>3. At(v)'
    <3>1. Len(sbuf') = 0 /\ pending' = pending
      BY <1>3, <2>1
    <3>2. v + Len(pending') + Len(sbuf') = taken'
      <4>1. v + 0 + 0 = v
        OBVIOUS
      <4> QED BY <1>9, <2>2, <3>1, <4>1
    <3> QED BY <1>9, <2>1, <3>1, <3>2 DEF At, Holds
  <2>4. ReadInv'
    BY <2>1 DEF ReadInv
  <2>5. sbuf' \in Seq(TokenType) /\ reading' \in BOOLEAN
    BY <2>1, NoTokens
  <2>6. u + Len(got) = v
    BY <1>3, <1>10, <2>2
  <2>7. CASE pc \in Exacts
    <3>1. /\ out' = out \o got /\ need' = need - Len(got) /\ pc' = pc /\ UNCHANGED body
          /\ UNCHANGED <<left, sock, wire, result, requests>>
      BY <1>2, <1>6, <1>14, <2>7 DEF ReadReceives, Goto, Exacts
    <3>2. Len(got) <= need
      BY <1>11, <2>7 DEF Exacts
    <3>3. Phase(u + Len(got))' /\ out' \in Seq(TokenType) /\ need' \in Nat
      BY <1>1, <1>3, <1>8, <1>10, <2>7, <3>1, <3>2, OutGrows DEF wire
    <3>4. BufferTypes'
      BY <1>1, <1>3, <2>5, <3>1, <3>3 DEF BufferTypes
    <3>5. Phase(v)'
      BY <2>6, <3>3
    <3> QED BY <1>7, <1>12, <2>2, <2>3, <2>4, <3>1, <3>4, <3>5, GoOn
  <2>8. CASE pc = "rest"
    <3>1. /\ UNCHANGED <<out, need>>
          /\ \/ Fail("limit") /\ UNCHANGED body
             \/ Goto(pc) /\ body' = body \o got
      BY <1>2, <1>6, <1>14, <2>8 DEF ReadReceives
    <3>2. u + Len(got) <= Len(resp.wire)
      <4>1. Len(resp.wire) \in Nat
        BY <1>1, ResponseTypes
      <4> QED BY <1>1, <1>5, <1>10, <4>1
    <3>3. /\ body \o got \in Seq(TokenType) /\ Holds(body \o got, resp.body, 0)
          /\ Len(body \o got) <= Len(resp.body)
          /\ u + Len(got) = HeadEnd(resp) + Len(body \o got)
      BY <1>1, <1>8, <1>10, <2>8, <3>2, RestGrows
    <3>4. BufferTypes'
      BY <1>1, <1>3, <2>5, <3>1, <3>3 DEF BufferTypes
    <3>5. CASE Fail("limit")
      BY <1>7, <1>12, <3>4, <3>5, FailStep
    <3>6. CASE Goto(pc) /\ body' = body \o got
      <4>1. pc' = pc /\ UNCHANGED <<left, sock, wire, result, requests>>
        BY <3>6 DEF Goto
      <4>2. RestInv(v)'
        <5>1. resp' = resp /\ pending' = <<>>
          BY <1>3, <1>9, <4>1 DEF wire
        <5>2. resp.framing = "close"
          BY <1>8, <2>8 DEF Phase, RestInv
        <5> QED BY <2>6, <3>3, <3>6, <5>1, <5>2 DEF RestInv, Got
      <4>3. Phase(v)'
        BY <2>8, <4>1, <4>2 DEF Phase, HeadInv, SizeInv, EndInv, LengthInv, ChunkInv, TrailerInv
      <4> QED BY <1>7, <1>12, <2>2, <2>3, <2>4, <3>4, <4>1, <4>3, GoOn
    <3> QED BY <3>1, <3>5, <3>6
  <2> QED BY <1>3, <2>7, <2>8
<1> QED BY <1>13, <1>14

(* The end of a body without a length.                                     *)
LEMMA RestEndsStep == ASSUME ClientInv, RestEnds PROVE ClientInv'
<1>1. PICK why \in {"eof", "error"} :
        /\ pc = "rest" /\ ReadEnds(why)
        /\ \E got \in {sbuf} \cup (IF why = "error" THEN {<<>>} ELSE {}) :
             body' = body \o got /\ Succeed(body \o got)
        /\ UNCHANGED <<taken, pending, sbuf, out, need, interims, trailers>>
  BY DEF RestEnds
<1>2. PICK got \in {sbuf, <<>>} : body' = body \o got /\ Succeed(body \o got)
  BY <1>1
<1>3. /\ ClientTypes /\ BufferTypes /\ taken \in Nat /\ arrived \in Nat /\ taken <= arrived
      /\ total \in Nat /\ arrived <= total /\ total <= Len(resp.wire) /\ IsResponse(resp)
      /\ sbuf \in Seq(TokenType)
  BY DEF ClientInv, ClientTypes, BufferTypes
<1>4. PICK u \in Nat : At(u) /\ Phase(u)
  BY <1>1 DEF ClientInv, Reading
<1>5. Holds(sbuf, resp.wire, u) /\ u + Len(sbuf) = taken /\ resp.framing = "close"
  <2>1. Len(pending) = 0 /\ resp.framing = "close"
    BY <1>1, <1>4 DEF Phase, RestInv
  <2>2. u + Len(pending) = u
    BY <2>1
  <2> QED BY <1>4, <2>1, <2>2 DEF At
<1>6. got \in Seq(TokenType) /\ Holds(got, resp.wire, u) /\ u + Len(got) <= Len(resp.wire)
  <2>1. Len(resp.wire) \in Nat /\ Len(sbuf) \in Nat
    BY <1>3, ResponseTypes
  <2>2. CASE got = sbuf
    BY <1>3, <1>5, <2>1, <2>2
  <2>3. CASE got = <<>>
    <3>1. Len(got) = 0 /\ got \in Seq(TokenType)
      BY <2>3, NoTokens
    <3>2. u <= Len(resp.wire)
      BY <1>3, <1>5, <2>1
    <3> QED BY <3>1, <3>2 DEF Holds
  <2> QED BY <2>2, <2>3
<1>7. PICK b : b = body \o got
  OBVIOUS
<1>8. b \in Seq(TokenType) /\ Holds(b, resp.body, 0) /\ Len(b) \in Nat /\ Len(b) <= Len(resp.body)
  BY <1>1, <1>3, <1>4, <1>6, <1>7, RestGrows
<1>9. BodyExact'
  <2>1. (resp.framing = "close" /\ \E n \in 0 .. Len(resp.body) : result.body = SubSeq(resp.body, 1, n))'
          => BodyExact'
    BY ExactFront, PTL
  <2>2. result' = [ok |-> TRUE, body |-> b, why |-> "none"] /\ resp' = resp
    BY <1>2, <1>7 DEF Succeed, Return, wire
  <2>3. resp.body \in Seq(TokenType) /\ Len(resp.body) \in Nat
    BY <1>3, ResponseTypes
  <2>4. PICK n \in Nat : n = Len(b)
    BY <1>8
  <2>5. b = SubSeq(resp.body, 1, n) /\ n \in 0 .. Len(resp.body)
    BY <1>8, <2>3, <2>4, IsFront
  <2>6. result'.body = SubSeq(resp'.body, 1, n) /\ n \in 0 .. Len(resp'.body)
    BY <2>2, <2>5
  <2> QED BY <1>5, <2>1, <2>2, <2>6
<1>10. BufferTypes' /\ taken' \in Nat /\ taken' <= arrived
  BY <1>1, <1>2, <1>3, <1>7, <1>8 DEF BufferTypes, ReadEnds
<1>11. Succeed(b)
  BY <1>2, <1>7
<1> QED BY <1>9, <1>10, <1>11, SucceedStep
-----------------------------------------------------------------------------
(* The first of the places where a delimiter ends.                         *)
LEMMA LineEndFound ==
  ASSUME NEW s \in Seq(TokenType), NEW d \in {CRLF, Blank}, Found(s, d)
  PROVE  LineEnd(s, d) \in Nat /\ Len(d) <= LineEnd(s, d) /\ LineEnd(s, d) <= Len(s)
<1> DEFINE E == FoundEnds(s, d)
           R == OpToRel(<, Nat)
<1>1. Len(d) \in Nat
  BY DelimLen
<1>2. E \subseteq Nat /\ E # {} /\ \A i \in E : Len(d) <= i /\ i <= Len(s)
  BY <1>1 DEF FoundEnds, Found
<1>3. IsWellFoundedOn(R, Nat)
  BY NatLessThanWellFounded
<1> HIDE DEF E, R
<1>4. PICK x \in E : \A y \in E : ~(<<y, x>> \in R)
  BY <1>2, <1>3, WFMin
<1>5. \A y \in E : x <= y
  <2> SUFFICES ASSUME NEW y \in E, ~(x <= y) PROVE FALSE
    OBVIOUS
  <2>1. x \in Nat /\ y \in Nat /\ y < x
    BY <1>2, <1>4
  <2>2. <<y, x>> \in R
    BY <2>1 DEF R, OpToRel
  <2> QED BY <1>4, <2>2
<1>6. Min(E) \in E
  BY <1>4, <1>5 DEF Min
<1> QED BY <1>2, <1>6 DEF E, LineEnd

(* Whatever line is cut off, pending stays a sequence of tokens.           *)
LEMMA LineTypes ==
  ASSUME ClientTypes, Found(pending, Delim)
  PROVE  /\ Len(Line) \in Nat /\ Len(Line) = LineEnd(pending, Delim) /\ Len(Line) <= Len(pending)
         /\ Rest(pending, Len(Line)) \in Seq(TokenType)
<1>1. pending \in Seq(TokenType) /\ Delim \in {CRLF, Blank}
  BY DEF ClientTypes, BufferTypes, Delim
<1>2. PICK l \in Nat : l = LineEnd(pending, Delim) /\ l <= Len(pending)
  BY <1>1, LineEndFound
<1>3. Holds(pending, pending, 0)
  BY <1>1 DEF Holds
<1>4. Len(Line) = l
  BY <1>1, <1>2, <1>3, HoldsFirst DEF Line
<1>5. Rest(pending, l) \in Seq(TokenType)
  BY <1>1, <1>2, <1>3, HoldsRest
<1> QED BY <1>2, <1>4, <1>5

LEMMA GetsLineTypes ==
  ASSUME ClientInv, NEW label, GetsLine(label), label \in Lines
  PROVE  /\ ClientTypes /\ BufferTypes /\ IsResponse(resp) /\ pc = label /\ ~reading
         /\ pending' \in Seq(TokenType) /\ taken' \in Nat /\ taken' <= arrived
         /\ pc \in Reading
<1>1. ClientTypes /\ BufferTypes /\ IsResponse(resp) /\ taken \in Nat /\ taken <= arrived
  BY DEF ClientInv, ClientTypes
<1>2. pc = label /\ ~reading /\ Found(pending, Delim) /\ pending' = Rest(pending, Len(Line))
      /\ taken' = taken
  BY DEF GetsLine
<1>3. pending' \in Seq(TokenType)
  BY <1>1, <1>2, LineTypes
<1> QED BY <1>1, <1>2, <1>3 DEF Lines, Reading

(* The header block that is read, and where it ends.                       *)
LEMMA HeadLine ==
  ASSUME ClientInv, pc = "head", ~reading, Found(pending, Delim)
  PROVE  /\ interims \in Nat /\ 5 * interims \in Nat /\ interims <= resp.interim
         /\ resp.interim \in Nat /\ out = <<>> /\ body = <<>>
         /\ At(5 * interims) /\ 5 <= Len(pending) /\ Len(Line) = 5
         /\ Parsed = Front(resp, interims)
<1>1. ClientTypes /\ IsResponse(resp) /\ interims \in Nat
  BY DEF ClientInv, ClientTypes, BufferTypes
<1>2. PICK u \in Nat : At(u) /\ Phase(u)
  BY DEF ClientInv, Reading, Lines
<1>3. u = 5 * interims /\ interims <= resp.interim /\ out = <<>> /\ body = <<>>
  BY <1>2 DEF Phase, HeadInv
<1>4. /\ resp.wire[u + 1] = Front(resp, interims) /\ Front(resp, interims) # CR
      /\ resp.wire[u + 2] = CR /\ resp.wire[u + 3] = LF
      /\ resp.wire[u + 4] = CR /\ resp.wire[u + 5] = LF
  BY <1>1, <1>3, HeadAt
<1>5. Delim = Blank /\ Len(Delim) = 4
  BY DelimLen DEF Delim
<1>6. 5 <= Len(pending) /\ LineEnd(pending, Delim) = 5
  BY <1>1, <1>2, <1>4, <1>5, BlankLine
<1>7. PICK l \in Nat : l = 5
  OBVIOUS
<1>8. PICK n \in Nat : n = 4
  OBVIOUS
<1>9. Len(Line) = l /\ Len(Content) = l - n /\ \A k \in 1 .. l - n : Content[k] = resp.wire[u + k]
  <2>1. l <= Len(pending) /\ LineEnd(pending, Delim) = l /\ Len(Delim) = n /\ n <= l
    BY <1>5, <1>6, <1>7, <1>8
  <2>2. ClientTypes /\ At(u)
    BY <1>1, <1>2
  <2> QED BY <2>1, <2>2, TakesLine
<1>10. Len(Line) = 5 /\ Len(Content) = 1 /\ Content[1] = Front(resp, interims)
  BY <1>4, <1>7, <1>8, <1>9
<1>11. resp.interim \in Nat
  BY <1>1, ResponseTypes
<1> QED BY <1>1, <1>2, <1>3, <1>6, <1>10, <1>11 DEF Parsed

(* The block says which response it is.                                    *)
LEMMA FrontKinds ==
  ASSUME NEW r, IsResponse(r), NEW i \in Nat, i <= r.interim
  PROVE  /\ Front(r, i)[1] = "interim" => i < r.interim
         /\ Front(r, i)[1] # "interim" =>
              /\ i = r.interim /\ 5 * i + 5 = HeadEnd(r)
              /\ Front(r, i)[1] = IF r.framing = "garbled" THEN "chunked" ELSE r.framing
              /\ Front(r, i)[2] = IF r.framing = "length" THEN Len(r.body) ELSE 0
<1>1. r.interim \in Nat /\ r.framing \in Framings /\ HeadEnd(r) = 5 * r.interim + 5
  BY ResponseTypes
<1>2. CASE i < r.interim
  BY <1>2 DEF Front, Block
<1>3. CASE i = r.interim
  <2>1. /\ Front(r, i)[1] = IF r.framing = "garbled" THEN "chunked" ELSE r.framing
        /\ Front(r, i)[2] = IF r.framing = "length" THEN Len(r.body) ELSE 0
    BY <1>1, <1>3 DEF Front, Final, Block
  <2>2. Front(r, i)[1] # "interim"
    BY <1>1, <2>1 DEF Framings
  <2> QED BY <1>1, <1>3, <2>1, <2>2
<1> QED BY <1>1, <1>2, <1>3

(* The position behind the block.                                          *)
LEMMA AfterHead ==
  ASSUME ClientInv, GetsLine("head"), resp' = resp, NEW v \in Nat, v = 5 * interims + 5
  PROVE  At(v)'
<1>1. pc = "head" /\ ~reading /\ Found(pending, Delim) /\ pending' = Rest(pending, Len(Line))
      /\ UNCHANGED <<taken, reading, sbuf>> /\ ClientTypes
  BY DEF GetsLine, ClientInv
<1>2. PICK u \in Nat : u = 5 * interims
  BY <1>1, HeadLine
<1>3. At(u) /\ 5 <= Len(pending) /\ Len(Line) = 5
  BY <1>1, <1>2, HeadLine
<1>4. PICK n \in Nat : n = 5
  OBVIOUS
<1>5. At(u + n)' /\ u + n \in Nat
  BY <1>1, <1>3, <1>4, AtUse
<1> QED BY <1>2, <1>4, <1>5
-----------------------------------------------------------------------------
(* The header blocks.                                                      *)
LEMMA HeaderInterimStep == ASSUME ClientInv, HeaderInterim PROVE ClientInv'
<1>1. /\ GetsLine("head") /\ Parsed[1] = "interim" /\ interims' = interims + 1
      /\ Fail("interim") \/ Goto("head")
      /\ UNCHANGED <<taken, reading, sbuf, out, need, body, trailers>>
  BY DEF HeaderInterim, GetsLine
<1>2. /\ ClientTypes /\ BufferTypes /\ IsResponse(resp) /\ pc = "head" /\ ~reading
      /\ pending' \in Seq(TokenType) /\ taken' \in Nat /\ taken' <= arrived
      /\ pc \in Reading
  BY <1>1, GetsLineTypes DEF Lines
<1>3. /\ interims \in Nat /\ interims <= resp.interim /\ resp.interim \in Nat
      /\ out = <<>> /\ body = <<>> /\ Parsed = Front(resp, interims)
  BY <1>1, <1>2, HeadLine DEF GetsLine
<1>4. interims < resp.interim
  BY <1>1, <1>2, <1>3, FrontKinds
<1>5. BufferTypes'
  BY <1>1, <1>2, <1>3 DEF BufferTypes
<1>6. CASE Fail("interim")
  BY <1>2, <1>5, <1>6, FailStep
<1>7. CASE Goto("head")
  <2>1. pc' = "head" /\ UNCHANGED <<left, sock, wire, result, requests>> /\ resp' = resp
    BY <1>7 DEF Goto, wire
  <2>2. PICK v \in Nat : v = 5 * interims + 5
    BY <1>3
  <2>3. At(v)'
    BY <1>1, <2>1, <2>2, AfterHead
  <2>4. v = 5 * (interims + 1) /\ interims + 1 <= resp.interim
    BY <1>3, <1>4, <2>2
  <2>5. HeadInv(v)'
    BY <1>1, <1>3, <2>1, <2>4 DEF HeadInv
  <2>6. Phase(v)'
    BY <2>1, <2>5 DEF Phase, RestInv, SizeInv, EndInv, LengthInv, ChunkInv, TrailerInv
  <2>7. ReadInv' /\ pc' \in Reading
    BY <1>1, <1>2, <2>1 DEF ReadInv, Reading, Lines
  <2> QED BY <1>2, <1>5, <2>1, <2>2, <2>3, <2>6, <2>7, GoOn
<1> QED BY <1>1, <1>6, <1>7

LEMMA HeaderRefusedStep == ASSUME ClientInv, HeaderRefused PROVE ClientInv'
<1>1. /\ GetsLine("head") /\ Fail("invalid")
      /\ UNCHANGED <<taken, reading, sbuf, out, need, body, interims, trailers>>
  BY DEF HeaderRefused, GetsLine
<1>2. /\ BufferTypes /\ pending' \in Seq(TokenType) /\ taken' \in Nat /\ taken' <= arrived
  BY <1>1, GetsLineTypes DEF Lines
<1>3. BufferTypes'
  BY <1>1, <1>2 DEF BufferTypes
<1> QED BY <1>1, <1>2, <1>3, FailStep

LEMMA HeaderNoBodyStep == ASSUME ClientInv, HeaderNoBody PROVE ClientInv'
<1>1. /\ GetsLine("head") /\ (Parsed[1] = "bodyless" \/ Parsed = Block("length", 0))
      /\ Succeed(<<>>)
      /\ UNCHANGED <<taken, reading, sbuf, out, need, body, interims, trailers>>
  BY DEF HeaderNoBody, GetsLine
<1>2. /\ BufferTypes /\ pending' \in Seq(TokenType) /\ taken' \in Nat /\ taken' <= arrived
      /\ IsResponse(resp) /\ pc = "head" /\ ~reading
  BY <1>1, GetsLineTypes DEF Lines
<1>3. BufferTypes'
  BY <1>1, <1>2 DEF BufferTypes
<1>4. /\ interims \in Nat /\ interims <= resp.interim /\ Parsed = Front(resp, interims)
  BY <1>1, <1>2, HeadLine DEF GetsLine
<1>5. result' = [ok |-> TRUE, body |-> <<>>, why |-> "none"] /\ resp' = resp
  BY <1>1 DEF Succeed, Return, wire
<1>6. resp.framing \in Framings /\ resp.body \in Seq(TokenType)
  BY <1>2, ResponseTypes
<1>7. BodyExact'
  <2>1. CASE Parsed[1] = "bodyless"
    <3>1. resp.framing = "bodyless"
      BY <1>2, <1>4, <1>6, <2>1, FrontKinds
    <3>2. (resp.framing = "bodyless" /\ result.body = <<>>)' => BodyExact'
      BY ExactNone, PTL
    <3> QED BY <1>5, <3>1, <3>2
  <2>2. CASE Parsed = Block("length", 0)
    <3>1. Parsed[1] = "length" /\ Parsed[2] = 0
      BY <2>2 DEF Block
    <3>2. resp.framing = "length"
      BY <1>2, <1>4, <1>6, <3>1, FrontKinds
    <3>3. Len(resp.body) = 0
      BY <1>2, <1>4, <3>1, <3>2, FrontKinds
    <3>4. resp.body = <<>>
      BY <1>6, <3>3
    <3>5. (resp.framing \in {"length", "chunked"} /\ result.body = resp.body)' => BodyExact'
      BY ExactWhole, PTL
    <3> QED BY <1>5, <3>2, <3>4, <3>5
  <2> QED BY <1>1, <2>1, <2>2
<1> QED BY <1>1, <1>2, <1>3, <1>7, SucceedStep

LEMMA HeaderBodySteps == ASSUME ClientInv, HeaderLength \/ HeaderChunked PROVE ClientInv'
<1>1. /\ GetsLine("head") /\ pc' \in {"exact_body", "size"}
      /\ UNCHANGED <<left, sock, wire, result, requests>>
      /\ UNCHANGED <<taken, reading, sbuf, out, body, interims, trailers>>
  BY DEF HeaderLength, HeaderChunked, GetsLine, Goto
<1>2. /\ BufferTypes /\ pending' \in Seq(TokenType) /\ taken' \in Nat /\ taken' <= arrived
      /\ pc \in Reading /\ IsResponse(resp) /\ pc = "head" /\ ~reading
  BY <1>1, GetsLineTypes DEF Lines
<1>3. /\ interims \in Nat /\ interims <= resp.interim /\ Parsed = Front(resp, interims)
      /\ out = <<>> /\ body = <<>>
  BY <1>1, <1>2, HeadLine DEF GetsLine
<1>4. resp' = resp /\ resp.framing \in Framings /\ Len(resp.body) \in Nat /\ HeadEnd(resp) \in Nat
  BY <1>1, <1>2, ResponseTypes DEF wire
<1>5. Parsed[1] # "interim"
  BY DEF HeaderLength, HeaderChunked
<1>6. 5 * interims + 5 = HeadEnd(resp)
  BY <1>2, <1>3, <1>5, FrontKinds
<1>7. PICK v \in Nat : v = HeadEnd(resp)
  BY <1>4
<1>8. At(v)'
  BY <1>1, <1>4, <1>6, <1>7, AfterHead
<1>9. ReadInv' /\ pc' \in Reading
  BY <1>1, <1>2 DEF ReadInv, Reading, Lines, Exacts
<1>10. Len(out') = 0 /\ Len(body') = 0
  BY <1>1, <1>3
<1>11. CASE HeaderLength
  <2>1. Parsed[1] = "length" /\ need' = Parsed[2] /\ pc' = "exact_body"
    BY <1>11 DEF HeaderLength, Goto
  <2>2. resp.framing = "length"
    BY <1>2, <1>3, <1>4, <2>1, FrontKinds
  <2>3. need' = Len(resp.body)
    BY <1>2, <1>3, <2>1, <2>2, FrontKinds
  <2>4. BufferTypes'
    BY <1>1, <1>2, <1>4, <2>3 DEF BufferTypes
  <2>5. LengthInv(v)'
    <3>1. 0 + need' = Len(resp.body) /\ v + 0 = v /\ 0 <= Len(resp.body)
      BY <1>4, <2>3
    <3>2. Holds(out', resp.body, 0)
      BY <1>10 DEF Holds
    <3> QED BY <1>4, <1>7, <1>10, <2>2, <3>1, <3>2 DEF LengthInv, Got
  <2>6. Phase(v)'
    BY <2>1, <2>5 DEF Phase, HeadInv, RestInv, SizeInv, EndInv, ChunkInv, TrailerInv
  <2> QED BY <1>1, <1>2, <1>7, <1>8, <1>9, <2>4, <2>6, GoOn
<1>12. CASE HeaderChunked
  <2>1. Parsed[1] = "chunked" /\ need' = need /\ pc' = "size"
    BY <1>12 DEF HeaderChunked, Goto
  <2>2. BufferTypes'
    BY <1>1, <1>2, <2>1 DEF BufferTypes
  <2>3. resp.framing \in {"chunked", "garbled"}
    BY <1>2, <1>3, <1>4, <2>1, FrontKinds
  <2>4. SizeInv(v)'
    <3>1. CASE resp.framing = "garbled"
      BY <1>1, <1>3, <1>4, <1>7, <3>1 DEF SizeInv
    <3>2. CASE resp.framing = "chunked"
      <4>1. Chunks(resp) \in Nat
        BY <1>2, <3>2, ChunkCount
      <4>2. PICK c \in Nat : c = 0
        OBVIOUS
      <4>3. c <= Chunks(resp) /\ c \in 0 .. Chunks(resp)
        BY <4>1, <4>2
      <4>4. resp.cut[c + 1] = 0 /\ Mark(resp, c) = HeadEnd(resp) + 0 + 5 * c
        <5>1. c + 1 = 1
          BY <4>2
        <5> QED BY <1>2, <3>2, <4>3, <5>1, ChunkBounds
      <4>5. v = Mark(resp, c)
        BY <1>7, <4>2, <4>4
      <4>6. Got(body, resp.cut[c + 1])'
        <5>1. Holds(body', resp.body, 0) /\ 0 <= Len(resp.body)
          BY <1>4, <1>10 DEF Holds
        <5> QED BY <1>4, <1>10, <4>4, <5>1 DEF Got
      <4> QED BY <1>1, <1>3, <1>4, <3>2, <4>3, <4>5, <4>6 DEF SizeInv
    <3> QED BY <2>3, <3>1, <3>2
  <2>5. Phase(v)'
    BY <2>1, <2>4 DEF Phase, HeadInv, RestInv, LengthInv, EndInv, ChunkInv, TrailerInv
  <2> QED BY <1>1, <1>2, <1>7, <1>8, <1>9, <2>2, <2>5, GoOn
<1> QED BY <1>11, <1>12

LEMMA HeaderCloseStep == ASSUME ClientInv, HeaderClose PROVE ClientInv'
<1>1. /\ pc = "head" /\ ~reading /\ Found(pending, Delim) /\ Parsed[1] = "close"
      /\ body' = Rest(pending, Len(Line)) /\ pending' = <<>> /\ pc' = "rest"
      /\ UNCHANGED <<left, sock, wire, result, requests>>
      /\ UNCHANGED <<taken, reading, sbuf, out, need, interims, trailers>>
  BY DEF HeaderClose, Goto
<1>2. /\ ClientTypes /\ BufferTypes /\ IsResponse(resp) /\ pending \in Seq(TokenType)
      /\ taken \in Nat /\ arrived \in Nat /\ taken <= arrived /\ total \in Nat
      /\ arrived <= total /\ total <= Len(resp.wire)
  BY DEF ClientInv, ClientTypes, BufferTypes
<1>3. /\ interims \in Nat /\ interims <= resp.interim /\ Parsed = Front(resp, interims)
      /\ At(5 * interims) /\ 5 <= Len(pending) /\ Len(Line) = 5
  BY <1>1, HeadLine
<1>4. resp.framing \in Framings /\ Len(resp.body) \in Nat /\ HeadEnd(resp) \in Nat
      /\ Len(resp.wire) \in Nat
  BY <1>2, ResponseTypes
<1>5. resp.framing = "close" /\ 5 * interims + 5 = HeadEnd(resp)
  BY <1>1, <1>2, <1>3, <1>4, FrontKinds
<1>6. PICK u \in Nat : u = 5 * interims
  BY <1>3
<1>7. PICK h \in Nat : h = HeadEnd(resp)
  BY <1>4
<1>8. PICK n \in Nat : n = 5
  OBVIOUS
<1>9. /\ body' \in Seq(TokenType) /\ Len(body') = Len(pending) - n
      /\ Holds(body', resp.wire, u + n)
  BY <1>1, <1>2, <1>3, <1>6, <1>8, HoldsRest DEF At
<1>10. u + n = h
  BY <1>5, <1>6, <1>7, <1>8
<1>11. u + Len(pending) + 0 = taken /\ sbuf = <<>>
  BY <1>1, <1>3, <1>6 DEF At
<1>12. PICK b \in Nat : b = Len(body')
  BY <1>9
<1>13. h + b = taken
  <2>1. PICK p \in Nat : p = Len(pending)
    BY <1>2
  <2>2. b = p - n /\ u + p + 0 = taken
    BY <1>9, <1>11, <1>12, <2>1
  <2>3. u + n + (p - n) = u + p + 0
    BY <1>6, <1>8, <2>1
  <2> QED BY <1>10, <2>2, <2>3
<1>14. /\ Len(resp.wire) = h + Len(resp.body) /\ Same(resp.wire, h, resp.body, 0, Len(resp.body))
  <2>1. Len(resp.wire) = h + Len(resp.body) /\ Holds(resp.body, resp.wire, h)
    BY <1>2, <1>5, <1>7, PlainAt
  <2>2. \A j \in 1 .. Len(resp.body) : 0 + j = j
    BY <1>4
  <2> QED BY <2>1, <2>2 DEF Holds, Same
<1>15. b <= Len(resp.body)
  <2>1. PICK l \in Nat : l = Len(resp.body)
    BY <1>4
  <2>2. h + b <= h + l
    BY <1>2, <1>4, <1>13, <1>14, <2>1
  <2>3. b <= l
    BY <2>2
  <2> QED BY <2>1, <2>3
<1>16. Holds(body', resp.body, 0)
  <2>1. Holds(body', resp.wire, h + 0) /\ 0 + Len(body') <= Len(resp.body)
    <3>1. h + 0 = h /\ 0 + b = b
      OBVIOUS
    <3> QED BY <1>9, <1>10, <1>12, <1>15, <3>1
  <2>2. Holds(body', resp.body, 0 + 0)
    BY <1>4, <1>9, <1>14, <2>1, Through
  <2> QED BY <2>2
<1>17. PICK v \in Nat : v = h + b
  OBVIOUS
<1>18. At(v)'
  <2>1. Len(pending') = 0 /\ Len(sbuf') = 0
    BY <1>1, <1>11
  <2>2. v + 0 + 0 = taken'
    BY <1>1, <1>13, <1>17
  <2> QED BY <1>1, <1>11, <2>1, <2>2 DEF At, Holds
<1>19. RestInv(v)'
  <2>1. resp' = resp
    BY <1>1 DEF wire
  <2>2. Got(body, Len(body))'
    BY <1>12, <1>15, <1>16, <2>1 DEF Got
  <2> QED BY <1>1, <1>5, <1>7, <1>12, <1>17, <2>1, <2>2 DEF RestInv
<1>20. Phase(v)'
  BY <1>1, <1>19 DEF Phase, HeadInv, SizeInv, LengthInv, EndInv, ChunkInv, TrailerInv
<1>21. BufferTypes' /\ taken' \in Nat /\ taken' <= arrived
  BY <1>1, <1>2, <1>9, NoTokens DEF BufferTypes
<1>22. ReadInv' /\ pc' \in Reading /\ pc \in Reading
  BY <1>1 DEF ReadInv, Reading, Lines
<1> QED BY <1>1, <1>17, <1>18, <1>20, <1>21, <1>22, GoOn
-----------------------------------------------------------------------------
(* A line with one token, an empty line, and the position behind a line.   *)
LEMMA OneToken ==
  ASSUME ClientTypes, NEW u \in Nat, At(u), pc # "head", Found(pending, Delim),
         resp.wire[u + 1] # CR, resp.wire[u + 2] = CR, resp.wire[u + 3] = LF
  PROVE  /\ 3 <= Len(pending) /\ Len(Line) = 3
         /\ Len(Content) = 1 /\ Content[1] = resp.wire[u + 1]
<1>1. Delim = CRLF /\ Len(Delim) = 2
  BY DelimLen DEF Delim
<1>2. 3 <= Len(pending) /\ LineEnd(pending, Delim) = 3
  BY <1>1, TokenLine
<1>3. PICK l \in Nat : l = 3
  OBVIOUS
<1>4. PICK n \in Nat : n = 2
  OBVIOUS
<1>5. l <= Len(pending) /\ LineEnd(pending, Delim) = l /\ Len(Delim) = n /\ n <= l
  BY <1>1, <1>2, <1>3, <1>4
<1>6. Len(Line) = l /\ Len(Content) = l - n /\ \A k \in 1 .. l - n : Content[k] = resp.wire[u + k]
  BY <1>5, TakesLine
<1> QED BY <1>2, <1>3, <1>4, <1>6

LEMMA NoToken ==
  ASSUME ClientTypes, NEW u \in Nat, At(u), pc # "head", Found(pending, Delim),
         resp.wire[u + 1] = CR, resp.wire[u + 2] = LF
  PROVE  2 <= Len(pending) /\ Len(Line) = 2 /\ Content = <<>>
<1>1. Delim = CRLF /\ Len(Delim) = 2
  BY DelimLen DEF Delim
<1>2. 2 <= Len(pending) /\ LineEnd(pending, Delim) = 2
  BY <1>1, EmptyLine
<1>3. PICK l \in Nat : l = 2
  OBVIOUS
<1>4. l <= Len(pending) /\ LineEnd(pending, Delim) = l /\ Len(Delim) = l /\ l <= l
  BY <1>1, <1>2, <1>3
<1>5. Len(Line) = l
  BY <1>4, TakesLine
<1>6. Content = SubSeq(Line, 1, 0)
  BY <1>1, <1>3, <1>5 DEF Content
<1>7. Line \in Seq(TokenType)
  <2>1. pending \in Seq(TokenType) /\ Holds(pending, resp.wire, u)
    BY DEF ClientTypes, BufferTypes, At
  <2> QED BY <1>4, <2>1, HoldsFirst DEF Line
<1>8. SubSeq(Line, 1, 0) = <<>>
  BY <1>7
<1> QED BY <1>2, <1>3, <1>5, <1>6, <1>8

LEMMA AfterLine ==
  ASSUME ClientTypes, NEW u \in Nat, At(u), NEW label, GetsLine(label), resp' = resp,
         NEW n \in Nat, Len(Line) = n, n <= Len(pending), NEW v \in Nat, v = u + n
  PROVE  At(v)'
<1>1. ~reading /\ pending' = Rest(pending, n) /\ UNCHANGED <<taken, reading, sbuf>>
  BY DEF GetsLine
<1>2. At(u + n)' /\ u + n \in Nat
  BY <1>1, AtUse
<1> QED BY <1>2
-----------------------------------------------------------------------------
(* The size lines.                                                         *)
LEMMA SizeInvalidStep == ASSUME ClientInv, SizeInvalid PROVE ClientInv'
<1>1. /\ GetsLine("size") /\ Fail("invalid")
      /\ UNCHANGED <<taken, reading, sbuf, out, need, body, interims, trailers>>
  BY DEF SizeInvalid, GetsLine
<1>2. /\ BufferTypes /\ pending' \in Seq(TokenType) /\ taken' \in Nat /\ taken' <= arrived
  BY <1>1, GetsLineTypes DEF Lines
<1>3. BufferTypes'
  BY <1>1, <1>2 DEF BufferTypes
<1> QED BY <1>1, <1>2, <1>3, FailStep

(* A garbled body has no size line.                                        *)
LEMMA GarbledSize ==
  ASSUME ClientInv, GetsLine("size"), Len(Content) = 1, Content[1][1] = "size"
  PROVE  resp.framing # "garbled"
<1> SUFFICES ASSUME resp.framing = "garbled" PROVE FALSE
  OBVIOUS
<1>1. /\ ClientTypes /\ IsResponse(resp) /\ pc = "size" /\ ~reading /\ pc \in Reading
      /\ Found(pending, Delim)
  BY GetsLineTypes DEF Lines, GetsLine
<1>2. PICK u \in Nat : At(u) /\ Phase(u)
  BY <1>1 DEF ClientInv
<1>3. u = HeadEnd(resp)
  BY <1>1, <1>2 DEF Phase, SizeInv
<1>4. pending \in Seq(TokenType) /\ Delim = CRLF /\ Len(Delim) = 2
  BY <1>1, DelimLen DEF ClientTypes, BufferTypes, Delim
<1>5. PICK l \in Nat : l = LineEnd(pending, Delim) /\ Len(Delim) <= l /\ l <= Len(pending)
  BY <1>1, <1>4, LineEndFound
<1>6. PICK n \in Nat : n = 2
  OBVIOUS
<1>7. l <= Len(pending) /\ LineEnd(pending, Delim) = l /\ Len(Delim) = n /\ n <= l
  BY <1>4, <1>5, <1>6
<1>8. Len(Content) = l - n /\ \A k \in 1 .. l - n : Content[k] = resp.wire[u + k]
  BY <1>1, <1>2, <1>7, TakesLine
<1>9. l - n = 1
  BY <1>8
<1>10. Content[1] = resp.wire[u + 1]
  BY <1>8, <1>9
<1>11. 1 <= Len(pending)
  BY <1>4, <1>7, <1>9
<1>12. /\ Len(resp.wire) = u + Len(resp.body) /\ Holds(resp.body, resp.wire, u)
       /\ Len(resp.body) \in Nat /\ resp.body \in Seq({X, CR, LF})
  BY <1>1, <1>3, PlainAt, ResponseTypes
<1>13. 1 <= Len(resp.body)
  <2>1. u + Len(pending) + 0 = taken
    <3>1. sbuf = <<>> /\ u + Len(pending) + Len(sbuf) = taken
      BY <1>1, <1>2 DEF At
    <3> QED BY <3>1
  <2>2. taken \in Nat /\ arrived \in Nat /\ total \in Nat /\ taken <= arrived /\ arrived <= total
        /\ total <= Len(resp.wire)
    BY <1>1 DEF ClientTypes
  <2>3. PICK p \in Nat : p = Len(pending)
    BY <1>4
  <2>4. PICK b \in Nat : b = Len(resp.body)
    BY <1>12
  <2>5. u + p + 0 <= u + b
    BY <1>12, <2>1, <2>2, <2>3, <2>4
  <2>6. 1 <= p
    BY <1>11, <2>3
  <2>7. 1 <= b
    BY <2>5, <2>6
  <2> QED BY <2>4, <2>7
<1>14. resp.body[1] = resp.wire[u + 1] /\ resp.body[1] \in {X, CR, LF}
  BY <1>12, <1>13 DEF Holds
<1>15. resp.body[1][1] # "size"
  BY <1>14 DEF X, CR, LF
<1> QED BY <1>10, <1>14, <1>15

LEMMA SizeLineStep == ASSUME ClientInv, SizeLine PROVE ClientInv'
<1>1. /\ GetsLine("size") /\ Len(Content) = 1 /\ Content[1][1] = "size"
      /\ UNCHANGED <<taken, reading, sbuf, out, body, interims, trailers>>
  BY DEF SizeLine, GetsLine
<1>2. \/ need' = 0 /\ Fail("limit")
      \/ need' = 0 /\ Content[1][2] = 0 /\ Goto("trailer")
      \/ need' = Content[1][2] /\ Content[1][2] # 0 /\ Goto("exact_chunk")
  BY DEF SizeLine
<1>3. /\ ClientTypes /\ BufferTypes /\ pending' \in Seq(TokenType) /\ taken' \in Nat
      /\ taken' <= arrived /\ pc \in Reading /\ pc = "size"
      /\ IsResponse(resp) /\ ~reading /\ Found(pending, Delim)
  BY <1>1, GetsLineTypes DEF Lines, GetsLine
<1>4. resp.framing # "garbled"
  BY <1>1, GarbledSize
<1>5. PICK u \in Nat : At(u) /\ Phase(u)
  BY <1>3 DEF ClientInv
<1>6. out = <<>> /\ resp.framing = "chunked"
      /\ \E c \in 0 .. Chunks(resp) : Got(body, resp.cut[c + 1]) /\ u = Mark(resp, c)
  BY <1>3, <1>4, <1>5 DEF Phase, SizeInv
<1>7. PICK c \in 0 .. Chunks(resp) : Got(body, resp.cut[c + 1]) /\ u = Mark(resp, c)
  BY <1>6
<1>8. Chunks(resp) \in Nat
  BY <1>3, <1>6, ChunkCount
<1>9. c \in Nat /\ c <= Chunks(resp)
  BY <1>7, <1>8
<1>10. /\ resp.wire[u + 1] = Size(NextSize(resp, c)) /\ Size(NextSize(resp, c)) # CR
       /\ resp.wire[u + 2] = CR /\ resp.wire[u + 3] = LF
  BY <1>3, <1>6, <1>7, <1>9, SizeAt
<1>11. 3 <= Len(pending) /\ Len(Line) = 3 /\ Content[1] = Size(NextSize(resp, c))
  BY <1>3, <1>5, <1>10, OneToken
<1>12. Content[1][2] = NextSize(resp, c)
  BY <1>11 DEF Size
<1>13. PICK v \in Nat : v = u + 3
  OBVIOUS
<1>14. c < Chunks(resp) => ChunkLen(resp, c + 1) \in Nat \ {0}
  BY <1>3, <1>6, <1>9, ChunkAt
<1>15. NextSize(resp, c) \in Nat /\ (c < Chunks(resp) <=> NextSize(resp, c) # 0)
  BY <1>14 DEF NextSize
<1>16. BufferTypes'
  <2>1. need' \in Nat
    BY <1>2, <1>12, <1>15
  <2> QED BY <1>1, <1>3, <2>1 DEF BufferTypes
<1>17. CASE need' = 0 /\ Fail("limit")
  BY <1>3, <1>16, <1>17, FailStep
<1>18. ASSUME pc' \in {"trailer", "exact_chunk"}, UNCHANGED <<left, sock, wire, result, requests>>
       PROVE  resp' = resp /\ At(v)' /\ ReadInv' /\ pc' \in Reading
  <2>1. resp' = resp
    BY <1>18 DEF wire
  <2>2. PICK n \in Nat : n = 3
    OBVIOUS
  <2>3. Len(Line) = n /\ n <= Len(pending) /\ v = u + n
    BY <1>11, <1>13, <2>2
  <2>4. At(v)'
    BY <1>1, <1>3, <1>5, <1>13, <2>1, <2>3, AfterLine
  <2>5. ReadInv' /\ pc' \in Reading
    BY <1>1, <1>3, <1>18 DEF ReadInv, Reading, Lines, Exacts
  <2> QED BY <2>1, <2>4, <2>5
<1>19. CASE need' = 0 /\ Content[1][2] = 0 /\ Goto("trailer")
  <2>1. pc' = "trailer" /\ UNCHANGED <<left, sock, wire, result, requests>>
    BY <1>19 DEF Goto
  <2>2. resp' = resp /\ At(v)' /\ ReadInv' /\ pc' \in Reading
    BY <1>18, <2>1
  <2>3. c = Chunks(resp)
    BY <1>8, <1>9, <1>12, <1>15, <1>19
  <2>4. resp.cut[c + 1] = Len(resp.body)
    BY <1>3, <1>6, <1>9, <2>3, ChunkBounds
  <2>5. Got(body, Len(resp.body))'
    BY <1>1, <1>7, <2>2, <2>4 DEF Got
  <2>6. v = Mark(resp, Chunks(resp)) + 3
    BY <1>7, <1>13, <2>3
  <2>7. TrailerInv(v)'
    BY <1>1, <1>6, <2>2, <2>5, <2>6 DEF TrailerInv
  <2>8. Phase(v)'
    BY <2>1, <2>7 DEF Phase, HeadInv, RestInv, EndInv, LengthInv, ChunkInv, SizeInv
  <2> QED BY <1>3, <1>13, <1>16, <2>1, <2>2, <2>8, GoOn
<1>20. CASE need' = Content[1][2] /\ Content[1][2] # 0 /\ Goto("exact_chunk")
  <2>1. pc' = "exact_chunk" /\ UNCHANGED <<left, sock, wire, result, requests>>
    BY <1>20 DEF Goto
  <2>2. resp' = resp /\ At(v)' /\ ReadInv' /\ pc' \in Reading
    BY <1>18, <2>1
  <2>3. c < Chunks(resp) /\ need' = NextSize(resp, c)
    BY <1>12, <1>15, <1>20
  <2>4. need' = ChunkLen(resp, c + 1) /\ ChunkLen(resp, c + 1) \in Nat
    BY <1>14, <2>3 DEF NextSize
  <2>5. PICK d \in 1 .. Chunks(resp) : d = c + 1 /\ d - 1 = c
    BY <1>8, <1>9, <2>3
  <2>6. Len(out') = 0 /\ Holds(out', resp.body, resp.cut[d]) /\ Len(out') + need' = ChunkLen(resp, d)
    <3>1. Len(out') = 0
      BY <1>1, <1>6
    <3>2. 0 + need' = ChunkLen(resp, d)
      BY <2>4, <2>5
    <3> QED BY <3>1, <3>2 DEF Holds
  <2>7. Got(body, resp.cut[d])'
    BY <1>1, <1>7, <2>2, <2>5 DEF Got
  <2>8. v = Mark(resp, d - 1) + 3 + Len(out')
    <3>1. u + 3 + 0 = u + 3
      BY <1>5
    <3> QED BY <1>7, <1>13, <2>5, <2>6, <3>1
  <2>9. ChunkInv(v)'
    BY <1>6, <2>2, <2>6, <2>7, <2>8 DEF ChunkInv
  <2>10. Phase(v)'
    BY <2>1, <2>9 DEF Phase, HeadInv, RestInv, EndInv, LengthInv, TrailerInv, SizeInv
  <2> QED BY <1>3, <1>13, <1>16, <2>1, <2>2, <2>10, GoOn
<1> QED BY <1>2, <1>17, <1>19, <1>20

(* The trailers and the empty line behind them.                            *)
LEMMA TrailerLineStep == ASSUME ClientInv, TrailerLine PROVE ClientInv'
<1>1. /\ GetsLine("trailer")
      /\ UNCHANGED <<taken, reading, sbuf, out, need, body, interims>>
      /\ Fail("limit") \/ (Content = <<>> /\ Succeed(body)) \/ (Content # <<>> /\ Goto("trailer"))
  BY DEF TrailerLine, GetsLine
<1>2. /\ ClientTypes /\ BufferTypes /\ pending' \in Seq(TokenType) /\ taken' \in Nat
      /\ taken' <= arrived /\ pc \in Reading /\ pc = "trailer"
      /\ IsResponse(resp) /\ ~reading /\ Found(pending, Delim)
  BY <1>1, GetsLineTypes DEF Lines, GetsLine
<1>3. BufferTypes'
  BY <1>1, <1>2 DEF BufferTypes
<1>4. CASE Fail("limit")
  BY <1>2, <1>3, <1>4, FailStep
<1>5. PICK u \in Nat : At(u) /\ Phase(u)
  BY <1>2 DEF ClientInv
<1>6. PICK m : m = Mark(resp, Chunks(resp))
  OBVIOUS
<1>7. /\ resp.framing = "chunked" /\ out = <<>> /\ Got(body, Len(resp.body))
      /\ u = m + 3 \/ (resp.trailer /\ u = m + 6)
  BY <1>2, <1>5, <1>6 DEF Phase, TrailerInv
<1>8. CASE Content = <<>> /\ Succeed(body)
  <2>1. result' = [ok |-> TRUE, body |-> body, why |-> "none"] /\ resp' = resp
    BY <1>8 DEF Succeed, Return, wire
  <2>2. body \in Seq(TokenType) /\ resp.body \in Seq(TokenType) /\ Len(resp.body) \in Nat
    BY <1>2, ResponseTypes DEF BufferTypes
  <2>3. Holds(body, resp.body, 0) /\ Len(body) = Len(resp.body)
    BY <1>7 DEF Got
  <2>4. PICK n \in Nat : n = Len(resp.body)
    BY <2>2
  <2>5. n = Len(body) /\ n <= Len(resp.body)
    BY <2>3, <2>4
  <2>6. body = resp.body
    BY <2>2, <2>3, <2>4, <2>5, IsFront
  <2>7. (resp.framing \in {"length", "chunked"} /\ result.body = resp.body)' => BodyExact'
    BY ExactWhole, PTL
  <2>8. BodyExact'
    BY <1>7, <2>1, <2>6, <2>7
  <2> QED BY <1>2, <1>3, <1>8, <2>8, SucceedStep
<1>9. CASE Content # <<>> /\ Goto("trailer")
  <2>1. pc' = "trailer" /\ UNCHANGED <<left, sock, wire, result, requests>> /\ resp' = resp
    BY <1>9 DEF Goto, wire
  <2>2. /\ m \in Nat
        /\ ~resp.trailer => resp.wire[m + 4] = CR /\ resp.wire[m + 5] = LF
        /\ resp.trailer => /\ resp.wire[m + 4] = Trailer /\ Trailer # CR
                           /\ resp.wire[m + 5] = CR /\ resp.wire[m + 6] = LF
                           /\ resp.wire[m + 7] = CR /\ resp.wire[m + 8] = LF
    BY <1>2, <1>6, <1>7, TrailerAt
  <2>3. ~(resp.wire[u + 1] = CR /\ resp.wire[u + 2] = LF)
    BY <1>2, <1>5, <1>9, NoToken
  <2>4. u = m + 3 => u + 1 = m + 4 /\ u + 2 = m + 5 /\ u + 3 = m + 6
    BY <2>2
  <2>5. u = m + 6 => u + 1 = m + 7 /\ u + 2 = m + 8
    BY <2>2
  <2>6. u = m + 3 /\ resp.trailer
    BY <1>7, <2>2, <2>3, <2>4, <2>5
  <2>7. resp.wire[u + 1] # CR /\ resp.wire[u + 2] = CR /\ resp.wire[u + 3] = LF
    BY <2>2, <2>4, <2>6
  <2>8. 3 <= Len(pending) /\ Len(Line) = 3
    BY <1>2, <1>5, <2>7, OneToken
  <2>9. PICK n \in Nat : n = 3
    OBVIOUS
  <2>10. PICK v \in Nat : v = u + n
    BY <2>9
  <2>11. Len(Line) = n /\ n <= Len(pending)
    BY <2>8, <2>9
  <2>12. At(v)'
    BY <1>1, <1>2, <1>5, <2>1, <2>9, <2>10, <2>11, AfterLine
  <2>13. v = m + 6
    BY <2>2, <2>6, <2>9, <2>10
  <2>14. TrailerInv(v)'
    <3>1. Got(body, Len(resp.body))'
      BY <1>1, <1>7, <2>1 DEF Got
    <3> QED BY <1>1, <1>6, <1>7, <2>1, <2>6, <2>13, <3>1 DEF TrailerInv
  <2>15. Phase(v)'
    BY <2>1, <2>14 DEF Phase, HeadInv, RestInv, EndInv, LengthInv, ChunkInv, SizeInv
  <2>16. ReadInv' /\ pc' \in Reading
    BY <1>1, <1>2, <2>1 DEF ReadInv, Reading, Lines
  <2> QED BY <1>2, <1>3, <2>1, <2>10, <2>12, <2>15, <2>16, GoOn
<1> QED BY <1>1, <1>4, <1>8, <1>9
-----------------------------------------------------------------------------
LEMMA ClientStep == ClientInv /\ [Next]_vars => ClientInv'
<1> SUFFICES ASSUME ClientInv, [Next]_vars PROVE ClientInv'
  OBVIOUS
<1>1. CASE UNCHANGED vars
  <2>1. UNCHANGED <<pc, left, sock, resp, total, arrived, taken, pending, reading, sbuf, out, need,
                    body, interims, trailers, result, requests>>
    BY <1>1 DEF vars, wire, reader
  <2>2. ClientTypes' /\ SockInv' /\ StartInv'
    BY <2>1 DEF ClientInv, ClientTypes, BufferTypes, SockInv, SocketsReleased, StartInv
  <2>3. ResultInv'
    BY <2>1 DEF ClientInv, ResultInv, BodyExact, CompleteReturned, CutDelimiter
  <2>4. ASSUME pc' \in Reading PROVE ReadInv' /\ \E u \in Nat : At(u)' /\ Phase(u)'
    <3>1. pc \in Reading /\ ReadInv
      BY <2>1, <2>4 DEF ClientInv
    <3>2. PICK u \in Nat : At(u) /\ Phase(u)
      BY <3>1 DEF ClientInv
    <3>3. Phase(u)'
      BY <2>1, <3>2, PhaseFrame
    <3>4. At(u)' /\ ReadInv'
      BY <2>1, <3>1, <3>2 DEF At, ReadInv, Delim
    <3> QED BY <3>2, <3>3, <3>4
  <2> QED BY <2>2, <2>3, <2>4 DEF ClientInv
<1>2. CASE Next
  <2>1. CASE \/ Arrive \/ Request \/ CloseCalled \/ ResolveFails \/ TryEndpoint \/ Unreachable
             \/ ConnectOk \/ ConnectFails \/ SecureOk \/ SecureFails \/ SendOk \/ SendFails
    BY <2>1, ArriveStep, RequestStep, CloseCalledStep, ConnectSteps, UnreachableStep, SendSteps
  <2>2. CASE StartReadUntil \/ UntilReceives \/ UntilFails \/ LineTooLong
    BY <2>2, StartSteps, UntilReceivesStep, UntilFailsStep, LineTooLongStep
  <2>3. CASE \/ HeaderInterim \/ HeaderRefused \/ HeaderNoBody \/ HeaderLength
             \/ HeaderChunked \/ HeaderClose
    BY <2>3, HeaderInterimStep, HeaderRefusedStep, HeaderNoBodyStep, HeaderBodySteps, HeaderCloseStep
  <2>4. CASE TakePending \/ StartRead \/ ReadReceives \/ ExactFails \/ RestEnds \/ ExactBody
    BY <2>4, TakePendingStep, StartSteps, ReadReceivesStep, ExactFailsStep, RestEndsStep, ExactBodyStep
  <2>5. CASE SizeLine \/ SizeInvalid \/ ExactChunk \/ ExactEnd \/ TrailerLine
    BY <2>5, SizeLineStep, SizeInvalidStep, ExactChunkStep, ExactEndStep, TrailerLineStep
  <2> QED BY <1>2, <2>1, <2>2, <2>3, <2>4, <2>5 DEF Next
<1> QED BY <1>1, <1>2

(* The inductive invariant holds: wherever http_request stands between its *)
(* reads, the tokens it used, those pending and those of the read under    *)
(* way are the response taken so far, each once and in order, and what was *)
(* used has become the body so far (netutils.ecs:1385-1637).               *)
THEOREM ClientInvariant == Spec => []ClientInv
  BY InitStep, ClientStep, PTL DEF Spec

(* The body http_request returns is the one the server sent, for every     *)
(* response, every way the network cuts it, any limits and any number of   *)
(* requests with one client (netutils.ecs:1385-1637).                      *)
THEOREM ClientBodyExact == Spec => []BodyExact
<1>1. ClientInv => BodyExact
  BY DEF ClientInv, ResultInv
<1> QED BY <1>1, ClientInvariant, PTL

(* A response that was sent whole is given up for the end of the           *)
(* connection only where a delimiter was cut between pending and the next  *)
(* read of read_until_limited (netutils.ecs:1385-1420), for every response *)
(* and any limits.                                                         *)
THEOREM ClientCompleteReturned == Spec => []CompleteReturned
<1>1. ClientInv => CompleteReturned
  BY DEF ClientInv, ResultInv
<1> QED BY <1>1, ClientInvariant, PTL

(* Whichever of any number of endpoints, handshakes, writes or reads       *)
(* failed, the socket goes through safe_shutdown before the request        *)
(* returns or tries the next endpoint, and one that safe_shutdown gave up  *)
(* is tried once more before the next request opens another                *)
(* (netutils.ecs:1295-1299, 1333-1383, 1669-1747).                         *)
THEOREM ClientSocketsReleased == Spec => []SocketsReleased
<1>1. ClientInv => SocketsReleased
  BY DEF ClientInv, SockInv
<1> QED BY <1>1, ClientInvariant, PTL
-----------------------------------------------------------------------------
(***************************************************************************)
(* Whom a TLS client believes.  The inductive invariant adds to the two    *)
(* properties that a stream's anchors and verification come from the call  *)
(* that made it, and that the cached environment, once read, is one of the *)
(* process.                                                                *)
(***************************************************************************)
\* The environment as init_ssl will use it (network.hpp:154-170).
EnvInv ==
  /\ environ \subseteq EnvSources
  /\ cached = Unread \/ cached \subseteq EnvSources

\* What the stream of socket k was made with (network.hpp:500-532).
StreamInv(k) ==
  stream[k] # None =>
    /\ asked[k] \in Calls
    /\ stream[k].anchors \subseteq Allowed(asked[k])
    /\ asked[k].mode # "insecure" => stream[k].peerVerified /\ stream[k].hostVerified

\* What the handshake of socket k has found (network.cpp:929-958).
PeerInv(k) ==
  k \in secured =>
    /\ stream[k] # None
    /\ asked[k].mode = "insecure" \/
         (peer[k].host /\ peer[k].issuer \in Allowed(asked[k]))

\* What the reports of socket k and of the thread say (network.hpp:512-524).
ReportInv(k) ==
  stream[k] # None =>
    /\ report[k] = [mode |-> Options(asked[k]).mode, loaded |-> stream[k].anchors]
    /\ lastReport.by = k => lastReport.text = report[k]

Shape ==
  /\ stream = [k \in Sockets |-> stream[k]] /\ asked = [k \in Sockets |-> asked[k]]
  /\ peer = [k \in Sockets |-> peer[k]] /\ report = [k \in Sockets |-> report[k]]
  /\ secured \subseteq Sockets

TrustInv ==
  /\ Shape /\ EnvInv
  /\ \A k \in Sockets : StreamInv(k) /\ PeerInv(k) /\ ReportInv(k)

(* A call that parse_ssl_options accepts tries only sources it agreed to   *)
(* (network.hpp:294-347), whatever was read from the environment before.   *)
LEMMA TriedAllowed ==
  ASSUME NEW call \in Calls, Accepted(call), NEW env,
         call.mode \in {"absent", "auto", "openssl"} => env \subseteq EnvSources
  PROVE  Tried(Options(call), env) \subseteq Allowed(call)
<1>1. CASE call.mode \in {"absent", "auto"}
  <2>1. Options(call).mode = "auto"
    BY <1>1 DEF Options
  <2>2. Tried(Options(call), env) = {Default} \cup env \cup Platform
    BY <2>1 DEF Tried
  <2>3. Allowed(call) = {Default} \cup EnvSources \cup Platform
    BY <1>1 DEF Allowed
  <2> QED BY <1>1, <2>2, <2>3
<1>2. CASE call.mode = "openssl"
  <2>1. Options(call).mode = "openssl"
    BY <1>2 DEF Options
  <2>2. Tried(Options(call), env) = {Default} \cup env
    BY <2>1 DEF Tried
  <2>3. Allowed(call) = {Default} \cup EnvSources
    BY <1>2 DEF Allowed
  <2> QED BY <1>2, <2>2, <2>3
<1>3. CASE call.mode = "custom"
  BY <1>3 DEF Options, Tried, Allowed
<1>4. CASE call.mode = "insecure"
  BY <1>4 DEF Options, Tried, Allowed
<1>5. call.mode \in {"absent", "auto", "openssl", "custom", "insecure"}
  BY DEF Calls, Accepted
<1> QED BY <1>1, <1>2, <1>3, <1>4, <1>5

(* A stream that init_ssl made is told from no stream by its mode.         *)
LEMMA NewStreamFields ==
  ASSUME NEW opt, NEW loaded
  PROVE  /\ NewStream(opt, loaded) # None
         /\ NewStream(opt, loaded).anchors = loaded
         /\ NewStream(opt, loaded).peerVerified = ~(opt.mode = "insecure" \/ ~opt.verifyPeer)
         /\ NewStream(opt, loaded).hostVerified = (opt.mode # "insecure" /\ opt.verifyHost)
<1>1. NewStream(opt, loaded).mode = "client" /\ None.mode = "none"
  BY DEF NewStream, None
<1> QED BY <1>1 DEF NewStream

(* A step that changes neither the fields of a socket nor, for it, the     *)
(* thread's last report keeps the three parts of the invariant about it.   *)
LEMMA SocketFrame ==
  ASSUME NEW j \in Sockets, StreamInv(j), PeerInv(j), ReportInv(j),
         stream'[j] = stream[j], asked'[j] = asked[j], peer'[j] = peer[j],
         report'[j] = report[j], j \in secured' <=> j \in secured,
         lastReport' = lastReport \/ lastReport'.by # j
  PROVE  StreamInv(j)' /\ PeerInv(j)' /\ ReportInv(j)'
<1>1. StreamInv(j)'
  BY DEF StreamInv
<1>2. PeerInv(j)'
  BY DEF PeerInv
<1>3. ReportInv(j)'
  BY DEF ReportInv
<1> QED BY <1>1, <1>2, <1>3

(* clear_ssl (network.hpp:534-543), after a failed handshake and in the    *)
(* three ways of closing, leaves no part of a stream behind.               *)
LEMMA ClearSslKeeps ==
  ASSUME NEW k \in Sockets, NEW b, TrustInv, ClearSsl(k, b)
  PROVE  TrustInv'
<1>1. Shape'
  BY DEF TrustInv, Shape, ClearSsl
<1>2. EnvInv'
  BY DEF TrustInv, EnvInv, ClearSsl
<1>3. ASSUME NEW j \in Sockets
      PROVE  StreamInv(j)' /\ PeerInv(j)' /\ ReportInv(j)'
  <2>1. CASE j = k
    <3>1. stream'[k] = None /\ k \notin secured'
      BY DEF TrustInv, Shape, ClearSsl
    <3> QED BY <2>1, <3>1 DEF StreamInv, PeerInv, ReportInv
  <2>2. CASE j # k
    <3>1. /\ stream'[j] = stream[j] /\ asked'[j] = asked[j] /\ peer'[j] = peer[j]
          /\ report'[j] = report[j] /\ (j \in secured' <=> j \in secured)
          /\ lastReport' = lastReport
      BY <2>2 DEF TrustInv, Shape, ClearSsl
    <3> QED BY <3>1, SocketFrame DEF TrustInv
  <2> QED BY <2>1, <2>2
<1> QED BY <1>1, <1>2, <1>3 DEF TrustInv

(* init_ssl (network.hpp:500-532), whatever the socket was used for before *)
(* and whichever sources load: what it makes is what its call asked for.   *)
LEMMA InitSslKeeps ==
  ASSUME NEW k \in Sockets, NEW call \in Calls, TrustInv, InitSsl(k, call)
  PROVE  TrustInv'
<1> DEFINE opt == Options(call)
<1> DEFINE env == IF cached = Unread /\ opt.mode \in {"auto", "openssl"}
                  THEN environ ELSE cached
<1>1. /\ Accepted(call) /\ stream[k] = None /\ cached' = env
      /\ UNCHANGED <<open, secured, peer, environ>>
  BY DEF InitSsl
<1>2. PICK loaded \in SUBSET Tried(opt, env) :
       \/ /\ loaded # {} \/ opt.mode = "insecure"
          /\ SetReport(k, [mode |-> opt.mode, loaded |-> loaded])
          /\ \/ /\ stream' = [stream EXCEPT ![k] = NewStream(opt, loaded)]
                /\ asked' = [asked EXCEPT ![k] = call]
             \/ UNCHANGED <<stream, asked>>
       \/ /\ loaded = {} /\ opt.mode # "insecure"
          /\ SetReport(k, [mode |-> "error", loaded |-> {}])
          /\ UNCHANGED <<stream, asked>>
  BY DEF InitSsl
<1>3. PICK r : SetReport(k, r)
  BY <1>2
<1>4. k \notin secured
  BY <1>1 DEF TrustInv, PeerInv
<1>5. Shape'
  <2>1. report' = [j \in Sockets |-> report'[j]]
    BY <1>3 DEF TrustInv, Shape, SetReport
  <2>2. stream' = [j \in Sockets |-> stream'[j]] /\ asked' = [j \in Sockets |-> asked'[j]]
    BY <1>2 DEF TrustInv, Shape
  <2> QED BY <1>1, <2>1, <2>2 DEF TrustInv, Shape
<1>6. EnvInv'
  BY <1>1 DEF TrustInv, EnvInv
<1>7. ASSUME NEW j \in Sockets, j # k
      PROVE  StreamInv(j)' /\ PeerInv(j)' /\ ReportInv(j)'
  <2>1. report'[j] = report[j] /\ lastReport'.by = k
    BY <1>3, <1>7 DEF TrustInv, Shape, SetReport
  <2>2. stream'[j] = stream[j] /\ asked'[j] = asked[j]
    BY <1>2, <1>7 DEF TrustInv, Shape
  <2>3. peer'[j] = peer[j] /\ (j \in secured' <=> j \in secured)
    BY <1>1
  <2> QED BY <1>7, <2>1, <2>2, <2>3, SocketFrame DEF TrustInv
<1>8. PeerInv(k)'
  BY <1>1, <1>4 DEF PeerInv
<1>9. StreamInv(k)' /\ ReportInv(k)'
  <2>1. CASE UNCHANGED <<stream, asked>>
    BY <1>1, <2>1 DEF StreamInv, ReportInv
  <2>2. CASE /\ SetReport(k, [mode |-> opt.mode, loaded |-> loaded])
             /\ stream' = [stream EXCEPT ![k] = NewStream(opt, loaded)]
             /\ asked' = [asked EXCEPT ![k] = call]
    <3>1. stream'[k] = NewStream(opt, loaded) /\ asked'[k] = call
      BY <2>2 DEF TrustInv, Shape
    <3>2. report'[k] = [mode |-> opt.mode, loaded |-> loaded] /\ lastReport'.text = report'[k]
      BY <2>2 DEF TrustInv, Shape, SetReport
    <3>3. /\ stream'[k].anchors = loaded
          /\ stream'[k].peerVerified = ~(opt.mode = "insecure" \/ ~opt.verifyPeer)
          /\ stream'[k].hostVerified = (opt.mode # "insecure" /\ opt.verifyHost)
      BY <3>1, NewStreamFields
    <3>4. call.mode \in {"absent", "auto", "openssl"} => env \subseteq EnvSources
      <4>1. call.mode \in {"absent", "auto", "openssl"} => opt.mode \in {"auto", "openssl"}
        BY DEF Options
      <4> QED BY <4>1 DEF TrustInv, EnvInv
    <3>5. loaded \subseteq Allowed(call)
      BY <1>1, <3>4, TriedAllowed
    <3>6. call.mode # "insecure" =>
            opt.mode # "insecure" /\ opt.verifyPeer /\ opt.verifyHost
      BY DEF Options
    <3>7. StreamInv(k)'
      BY <3>1, <3>3, <3>5, <3>6 DEF StreamInv, Allowed
    <3>8. ReportInv(k)'
      BY <3>1, <3>2, <3>3 DEF ReportInv, Options
    <3> QED BY <3>7, <3>8
  <2> QED BY <1>2, <2>1, <2>2
<1> QED BY <1>5, <1>6, <1>7, <1>8, <1>9 DEF TrustInv

(* The end of a handshake that the library accepts (network.cpp:929-958).  *)
LEMMA HandshakeOkKeeps ==
  ASSUME NEW k \in Sockets, NEW issuer, NEW h \in BOOLEAN, TrustInv,
         HandshakeOk(k, issuer, h)
  PROVE  TrustInv'
<1>1. Shape'
  BY DEF TrustInv, Shape, HandshakeOk
<1>2. EnvInv'
  BY DEF TrustInv, EnvInv, HandshakeOk
<1>3. ASSUME NEW j \in Sockets
      PROVE  StreamInv(j)' /\ PeerInv(j)' /\ ReportInv(j)'
  <2>1. CASE j = k
    <3>1. StreamInv(k)' /\ ReportInv(k)'
      BY DEF TrustInv, StreamInv, ReportInv, HandshakeOk
    <3>2. peer'[k].issuer = issuer /\ peer'[k].host = h
      BY DEF TrustInv, Shape, HandshakeOk
    <3>3. asked[k].mode # "insecure" => h /\ issuer \in Allowed(asked[k])
      BY DEF TrustInv, StreamInv, HandshakeOk
    <3>4. PeerInv(k)'
      BY <3>2, <3>3 DEF PeerInv, HandshakeOk
    <3> QED BY <2>1, <3>1, <3>4
  <2>2. CASE j # k
    <3>1. /\ stream'[j] = stream[j] /\ asked'[j] = asked[j] /\ peer'[j] = peer[j]
          /\ report'[j] = report[j] /\ (j \in secured' <=> j \in secured)
          /\ lastReport' = lastReport
      BY <2>2 DEF TrustInv, Shape, HandshakeOk
    <3> QED BY <3>1, SocketFrame DEF TrustInv
  <2> QED BY <2>1, <2>2
<1> QED BY <1>1, <1>2, <1>3 DEF TrustInv

(* Steps that touch no stream: the descriptor, the environment, nothing.   *)
LEMMA OtherStepsKeep ==
  ASSUME TrustInv, UNCHANGED <<stream, secured, asked, peer, report, lastReport, cached>>,
         environ' \subseteq EnvSources
  PROVE  TrustInv'
<1>1. Shape' /\ EnvInv'
  BY DEF TrustInv, Shape, EnvInv
<1>2. ASSUME NEW j \in Sockets
      PROVE  StreamInv(j)' /\ PeerInv(j)' /\ ReportInv(j)'
  BY SocketFrame DEF TrustInv
<1> QED BY <1>1, <1>2 DEF TrustInv

(* The invariant holds initially and every step of a socket or of the      *)
(* process preserves it.                                                   *)
THEOREM TrustInvariant == TrustSpec => []TrustInv
<1>1. TrustInit => TrustInv
  <2> SUFFICES ASSUME TrustInit PROVE TrustInv
    OBVIOUS
  <2>1. Shape /\ EnvInv
    BY DEF TrustInit, Shape, EnvInv
  <2>2. ASSUME NEW k \in Sockets PROVE StreamInv(k) /\ PeerInv(k) /\ ReportInv(k)
    BY DEF TrustInit, StreamInv, PeerInv, ReportInv
  <2> QED BY <2>1, <2>2 DEF TrustInv
<1>2. TrustInv /\ [TrustNext]_trustVars => TrustInv'
  <2> SUFFICES ASSUME TrustInv, [TrustNext]_trustVars PROVE TrustInv'
    OBVIOUS
  <2>1. CASE UNCHANGED trustVars
    BY <2>1, OtherStepsKeep DEF trustVars, TrustInv, EnvInv
  <2>2. CASE Setenv
    BY <2>2, OtherStepsKeep DEF Setenv
  <2>3. ASSUME NEW k \in Sockets, Connect(k) PROVE TrustInv'
    BY <2>3, OtherStepsKeep DEF Connect, TrustInv, EnvInv
  <2>4. ASSUME NEW k \in Sockets,
               HandshakeFails(k) \/ SafeShutdown(k) \/ Shutdown(k) \/ Close(k)
        PROVE  TrustInv'
    <3>1. PICK b : ClearSsl(k, b)
      BY <2>4 DEF HandshakeFails, SafeShutdown, Shutdown, Close
    <3> QED BY <3>1, ClearSslKeeps
  <2> QED BY <2>1, <2>2, <2>3, <2>4, InitSslKeeps, HandshakeOkKeeps DEF TrustNext
<1> QED BY <1>1, <1>2, PTL DEF TrustSpec

(* For any sockets and any sources: a stream that carries data was         *)
(* authenticated as its own connect_ssl asked (network.hpp:296-362,        *)
(* 500-532), however the socket was used before.                           *)
THEOREM AlwaysAuthenticated == TrustSpec => []Authenticated
<1>1. TrustInv => Authenticated
  BY DEF TrustInv, Shape, PeerInv, Authenticated
<1> QED BY <1>1, TrustInvariant, PTL

(* For any sockets: a socket's report is about the stream it has, and the  *)
(* thread's report about the last socket that made one                     *)
(* (network.hpp:513-516, 534-542).                                         *)
THEOREM AlwaysReported == TrustSpec => []ReportMatches
<1>1. TrustInv => ReportMatches
  BY DEF TrustInv, ReportInv, ReportMatches
<1> QED BY <1>1, TrustInvariant, PTL
=============================================================================

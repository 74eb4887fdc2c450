------------------------ MODULE MasterPipelineProofs ------------------------
(***************************************************************************)
(* Safety of the master's client side, for any finite set of connections   *)
(* and any number of workers and requests.  A connection is described by   *)
(* four numbers: how many requests were read, how many are queued, how     *)
(* many of these were handed out, and how many responses were sent.        *)
(***************************************************************************)
EXTENDS MasterPipeline, FiniteSetTheorems, SequenceTheorems, TLAPS

(* The queue ends with the last request that was read.                     *)
First(c) == received[c] - Len(queue[c])     \* requests read and not queued any more
Hand(c)  == First(c) + idx[c]               \* the last one that was handed out
Sent(c)  == Cardinality(Responses(c))

QueueInv ==
  \A c \in Conns :
    /\ Len(queue[c]) <= received[c]
    /\ \A i \in DOMAIN queue[c] : queue[c][i] = First(c) + i

(* A fiber works with a connection from its scan to its next scan, and its *)
(* write is outstanding until it has a result.                             *)
FiberPart(f) ==
  /\ pc[f] = "scan" <=> at[f] = None
  /\ result[f] # None => pc[f] = "write"
  /\ pc[f] = "write" /\ result[f] = None =>
       writing[at[f]] # <<>> /\ writing[at[f]][1] = f
WritePart(c) ==
  writing[c] # <<>> =>
    LET f == writing[c][1]
    IN /\ pc[f] = "write" /\ at[f] = c /\ result[f] = None
       /\ f # Responder <=> writing[c][2] \notin Requests
FiberInv ==
  /\ \A f \in Fibers : FiberPart(f)
  /\ \A c \in Conns : WritePart(c)
  /\ pc[Responder] # "read"

(* A connection that a request worker holds is not free to be picked.      *)
ReaderInv ==
  /\ \A r \in Readers : at[r] # None => cstate[at[r]] # "established"
  /\ \A r, s \in Readers : at[r] # None /\ at[r] = at[s] => r = s

(* What was handed out comes before request_idx.                           *)
HandInv ==
  /\ \A c \in Conns : \A n \in answered[c] : n <= Hand(c) /\ n <= received[c]
  /\ \A c \in Conns, n \in Requests, d \in Dispatchers :
       serving[d] = <<c, n>> => n <= Hand(c) /\ n <= received[c]
  /\ \A d, e \in Dispatchers : serving[d] # <<>> /\ serving[d] = serving[e] => d = e

(* The responder writes the answer to the request at the front.            *)
FrontInv ==
  pc[Responder] = "write" =>
    LET c == at[Responder]
    IN /\ FrontAnswered(c, queue[c])
       /\ result[Responder] = None => writing[c][2] = Head(queue[c])

(* Its response is sent and the request is still queued.                   *)
Written(c) == pc[Responder] = "write" /\ at[Responder] = c /\ result[Responder] = "ok"

(* A dispatch worker has or had the request.                               *)
Handed(c, n) == n \in answered[c] \/ \E d \in Dispatchers : serving[d] = <<c, n>>

(* Either no request is missing between the responses and the queue, ...   *)
Whole(c) ==
  /\ received[c] = IF Written(c) THEN Sent(c) + Len(queue[c]) - 1 ELSE Sent(c) + Len(queue[c])
  /\ idx[c] <= Len(queue[c])
  /\ \A n \in Requests : First(c) < n /\ n <= Hand(c) => Handed(c, n)

(* ... or the queue was dropped after a failed write, and what is read     *)
(* from the connection after that, one request at most, is not handed out. *)
Cut(c) ==
  /\ Dropped(c) /\ ~keep[c] /\ idx[c] >= 1 /\ Len(queue[c]) <= 1
  /\ \A r \in Readers : pc[r] = "read" /\ at[r] = c => queue[c] = <<>>
  /\ \A i \in DOMAIN queue[c] : ~Handed(c, queue[c][i])
  /\ ~(pc[Responder] = "write" /\ at[Responder] = c)

CountInv == \A c \in Conns : Whole(c) \/ Cut(c)

IInv ==
  /\ TypeOK /\ QueueInv /\ FiberInv /\ ReaderInv /\ HandInv /\ FrontInv /\ CountInv
  /\ ResponsesInOrder
-----------------------------------------------------------------------------
(* Types.                                                                  *)

ConnType ==
  /\ clist \in Seq(Conns)
  /\ sock \in [Conns -> {"new", "open", "closed"}]
  /\ cstate \in [Conns -> {"established", "busy", "closed"}]
  /\ keep \in [Conns -> BOOLEAN]
QueueType ==
  /\ queue \in [Conns -> Seq(Requests)] /\ idx \in [Conns -> 0 .. MaxRequests]
  /\ received \in [Conns -> 0 .. MaxRequests]
AnswerType ==
  /\ answered \in [Conns -> SUBSET Requests]
  /\ serving \in [Dispatchers -> {<<>>} \cup (Conns \X Requests)]
WireType ==
  /\ writing \in [Conns -> {<<>>} \cup (Fibers \X Messages)]
  /\ out \in [Conns -> Seq(Messages)]
FiberType ==
  /\ pc \in [Fibers -> {"scan", "read", "write", "drain"} \cup Thrown]
  /\ at \in [Fibers -> Conns \cup {None}]
  /\ result \in [Fibers -> {None, "ok", "failed"}]

LEMMA TypeParts ==
  TypeOK <=> ConnType /\ QueueType /\ AnswerType /\ WireType /\ FiberType /\ ready \in BOOLEAN
BY DEF TypeOK, ConnType, QueueType, AnswerType, WireType, FiberType

LEMMA TypePartsNext ==
  TypeOK' <=> /\ ConnType' /\ QueueType' /\ AnswerType' /\ WireType' /\ FiberType'
              /\ ready' \in BOOLEAN
BY DEF TypeOK, ConnType, QueueType, AnswerType, WireType, FiberType

(* Erasing keeps connections only.                                         *)
LEMMA EraseType ==
  ASSUME ConnType, NEW k \in 0 .. Len(clist), NEW rest \in Seq(Conns), EraseDead(k, rest)
  PROVE  clist' \in Seq(Conns)
<1>1. Len(clist) \in Nat /\ DOMAIN clist = 1 .. Len(clist) /\ clist \in Seq(Conns)
  BY DEF ConnType
<1> DEFINE P == {i \in 1 .. k : ~Dead(clist[i])}
<1>2. PICK kept \in Listings(P) : clist' = At(clist, kept) \o rest
  BY DEF EraseDead
<1>3. IsFiniteSet(1 .. k) /\ P \in SUBSET (1 .. k)
  BY <1>1, FS_Interval
<1>4. Cardinality(P) \in Nat
  <2> HIDE DEF P
  <2> QED
    BY <1>3, FS_Subset, FS_CardinalityType
<1>5. kept \in [1 .. Cardinality(P) -> P]
  BY DEF Listings
<1>6. \A i \in 1 .. Cardinality(P) : clist[kept[i]] \in Conns
  <2>1. \A p \in P : p \in DOMAIN clist
    BY <1>1
  <2> HIDE DEF P
  <2> QED
    BY <1>1, <1>5, <2>1
<1> HIDE DEF P
<1>7. At(clist, kept) \in Seq(Conns)
  BY <1>4, <1>5, <1>6, IsASeq DEF At
<1> QED
  BY <1>2, <1>7

(* The scans of the request workers.                                       *)
LEMMA ScanType ==
  ASSUME ConnType, NEW r, PickConn(r) \/ SweepConns(r)
  PROVE  clist' \in Seq(Conns)
<1>1. Len(clist) \in Nat /\ DOMAIN clist = 1 .. Len(clist) /\ clist \in Seq(Conns)
      /\ <<>> \in Seq(Conns)
  BY DEF ConnType
<1>2. CASE PickConn(r)
  <2>1. PICK i \in DOMAIN clist :
          EraseDead(i - 1, Append(SubSeq(clist, i + 1, Len(clist)), clist[i]))
    BY <1>2 DEF PickConn
  <2>2. Append(SubSeq(clist, i + 1, Len(clist)), clist[i]) \in Seq(Conns)
    BY <1>1
  <2>3. i - 1 \in 0 .. Len(clist)
    BY <1>1
  <2> QED
    BY <2>1, <2>2, <2>3, EraseType
<1>3. CASE SweepConns(r)
  <2>1. EraseDead(Len(clist), <<>>) /\ Len(clist) \in 0 .. Len(clist)
    BY <1>1, <1>3 DEF SweepConns
  <2> QED
    BY <1>1, <2>1, EraseType
<1> QED
  BY <1>2, <1>3

(* The front request is one that was handed out.                           *)
LEMMA FrontFacts ==
  ASSUME QueueType, AnswerType, QueueInv, HandInv, NEW c \in Conns, FrontAnswered(c, queue[c])
  PROVE  /\ queue[c] # <<>> /\ Len(queue[c]) >= 1 /\ idx[c] >= 1
         /\ Head(queue[c]) = First(c) + 1 /\ Head(queue[c]) \in Requests
<1>1. queue[c] \in Seq(Requests) /\ queue[c] # <<>> /\ Head(queue[c]) \in answered[c]
  BY DEF FrontAnswered, QueueType
<1>2. Len(queue[c]) \in Nat /\ Len(queue[c]) >= 1 /\ 1 \in DOMAIN queue[c]
      /\ Head(queue[c]) = queue[c][1] /\ Head(queue[c]) \in Requests
  BY <1>1
<1>3. Head(queue[c]) = First(c) + 1
  BY <1>2 DEF QueueInv
<1>4. First(c) + 1 <= First(c) + idx[c]
  BY <1>1, <1>3 DEF HandInv, Hand
<1>5. received[c] \in Int /\ idx[c] \in Int
  BY DEF QueueType
<1>6. First(c) \in Int
  BY <1>2, <1>5 DEF First
<1> QED
  BY <1>1, <1>2, <1>3, <1>4, <1>5, <1>6

(* What async.write does: the fiber goes on to wait, or it ends.           *)
LEMMA BeginWriteFacts ==
  ASSUME NEW f, NEW c, NEW m, BeginWrite(f, c, m)
  PROVE  /\ at' = [at EXCEPT ![f] = c]
         /\ \E to \in {"write"} \cup Thrown :
              /\ pc' = [pc EXCEPT ![f] = to]
              /\ IF to = "write"
                   THEN writing[c] = <<>> /\ writing' = [writing EXCEPT ![c] = <<f, m>>]
                   ELSE writing' = writing
<1>1. CASE Move(f, "refused") /\ UNCHANGED writing
  BY <1>1 DEF BeginWrite, Move, Thrown
<1>2. CASE Move(f, "overlap") /\ UNCHANGED writing
  BY <1>2 DEF BeginWrite, Move, Thrown
<1>3. CASE writing[c] = <<>> /\ Move(f, "write") /\ writing' = [writing EXCEPT ![c] = <<f, m>>]
  BY <1>3 DEF BeginWrite, Move, Thrown
<1> QED
  BY <1>1, <1>2, <1>3 DEF BeginWrite

LEMMA BeginWriteType ==
  ASSUME WireType, FiberType, NEW f \in Fibers, NEW c \in Conns, NEW m \in Messages,
         BeginWrite(f, c, m)
  PROVE  /\ pc' \in [Fibers -> {"scan", "read", "write", "drain"} \cup Thrown]
         /\ at' \in [Fibers -> Conns \cup {None}]
         /\ writing' \in [Conns -> {<<>>} \cup (Fibers \X Messages)]
<1>1. PICK to \in {"write"} \cup Thrown :
        /\ pc' = [pc EXCEPT ![f] = to]
        /\ IF to = "write" THEN writing' = [writing EXCEPT ![c] = <<f, m>>]
                           ELSE writing' = writing
  BY BeginWriteFacts
<1>2. at' = [at EXCEPT ![f] = c]
  BY BeginWriteFacts
<1>3. pc' \in [Fibers -> {"scan", "read", "write", "drain"} \cup Thrown]
  BY <1>1 DEF FiberType
<1>4. at' \in [Fibers -> Conns \cup {None}]
  BY <1>2 DEF FiberType
<1>5. writing' \in [Conns -> {<<>>} \cup (Fibers \X Messages)]
  <2>1. <<f, m>> \in Fibers \X Messages
    OBVIOUS
  <2> QED
    BY <1>1, <2>1 DEF WireType
<1> QED
  BY <1>3, <1>4, <1>5

(* A fiber that is not scanning has a connection.                          *)
LEMMA FiberConn ==
  ASSUME FiberType, FiberInv, NEW f \in Fibers, pc[f] # "scan"
  PROVE  at[f] \in Conns /\ at[f] # None
BY DEF FiberType, FiberInv, FiberPart

(* The messages of the three writers.                                      *)
LEMMA MessageTypes ==
  /\ ErrorResponse \in Messages /\ TimeoutResponse \in Messages /\ Requests \subseteq Messages
  /\ ErrorResponse \notin Requests /\ TimeoutResponse \notin Requests
  /\ Requests \subseteq Nat \ {0}
BY PipelineAssumption DEF ErrorResponse, TimeoutResponse, Messages, Requests

LEMMA ConnTypeStep == ASSUME IInv, Step PROVE ConnType'
<1> USE DEF conn
<1>0. ConnType /\ QueueType /\ FiberType /\ FiberInv
  BY TypeParts DEF IInv
<1>1. ASSUME NEW c \in Conns, Accept(c) PROVE ConnType'
  BY <1>0, <1>1 DEF Accept, ConnType
<1>2. ASSUME NEW r \in Readers, PickConn(r) PROVE ConnType'
  <2>1. PICK i \in DOMAIN clist : cstate' = [cstate EXCEPT ![clist[i]] = "busy"]
    BY <1>2 DEF PickConn
  <2>2. cstate' \in [Conns -> {"established", "busy", "closed"}]
    BY <1>0, <2>1 DEF ConnType
  <2>3. sock' = sock /\ keep' = keep
    BY <1>2 DEF PickConn
  <2> QED
    BY <1>0, <1>2, <2>2, <2>3, ScanType DEF ConnType
<1>3. ASSUME NEW r \in Readers, SweepConns(r) PROVE ConnType'
  BY <1>0, <1>3, ScanType DEF SweepConns, ConnType
<1>4. ASSUME NEW r \in Readers, ReadRequest(r) PROVE ConnType'
  <2>1. at[r] \in Conns
    BY <1>0, <1>4, FiberConn DEF ReadRequest, Fibers
  <2> QED
    BY <1>0, <1>4, <2>1 DEF ReadRequest, ConnType
<1>5. ASSUME NEW f \in Fibers, EndShutdown(f) PROVE ConnType'
  <2>1. at[f] \in Conns
    BY <1>0, <1>5, FiberConn DEF EndShutdown
  <2> QED
    BY <1>0, <1>5, <2>1 DEF EndShutdown, ConnType
<1>6. CASE WriteFailed
  <2>1. at[Responder] \in Conns
    BY <1>0, <1>6, FiberConn DEF WriteFailed, Fibers
  <2> QED
    BY <1>0, <1>6, <2>1 DEF WriteFailed, ConnType
<1>7. CASE UNCHANGED <<clist, sock, cstate, keep>>
  BY <1>0, <1>7 DEF ConnType
<1>8. ASSUME NEW r \in Readers,
             RejectRequest(r) \/ ReadTimeout(r) \/ ReadEof(r) \/ ReadRefused(r) \/ EndReject(r)
      PROVE  UNCHANGED <<clist, sock, cstate, keep>>
  BY <1>8 DEF RejectRequest, ReadTimeout, ReadEof, ReadRefused, EndReject
<1>9. ASSUME PickResponse \/ WriteDone \/ (\E c \in Conns : WriteCompletes(c))
             \/ (\E d \in Dispatchers : Dispatch(d) \/ Answer(d))
      PROVE  UNCHANGED <<clist, sock, cstate, keep>>
  BY <1>9 DEF PickResponse, WriteDone, WriteCompletes, Dispatch, Answer
<1> QED
  BY <1>1, <1>2, <1>3, <1>4, <1>5, <1>6, <1>7, <1>8, <1>9
     DEF Step, ReaderStep, Read, ResponderStep, Fibers

LEMMA QueueTypeStep == ASSUME IInv, Step PROVE QueueType'
<1> USE DEF conn
<1>0. ConnType /\ QueueType /\ AnswerType /\ FiberType /\ FiberInv /\ QueueInv /\ HandInv
  BY TypeParts DEF IInv
<1>1. ASSUME NEW r \in Readers, ReadRequest(r) PROVE QueueType'
  <2>1. at[r] \in Conns
    BY <1>0, <1>1, FiberConn DEF ReadRequest, Fibers
  <2>2. received[at[r]] + 1 \in Requests /\ received[at[r]] + 1 \in 0 .. MaxRequests
    BY <1>0, <1>1, <2>1, PipelineAssumption DEF ReadRequest, QueueType, Requests
  <2>3. received' = [received EXCEPT ![at[r]] = received[at[r]] + 1]
        /\ queue' = [queue EXCEPT ![at[r]] = Append(queue[at[r]], received[at[r]] + 1)]
        /\ idx' = idx
    BY <1>1 DEF ReadRequest
  <2> QED
    BY <1>0, <2>1, <2>2, <2>3 DEF QueueType
<1>2. ASSUME NEW d \in Dispatchers, Dispatch(d) PROVE QueueType'
  <2>1. PICK i \in DOMAIN clist :
          /\ idx[clist[i]] < Len(queue[clist[i]])
          /\ idx' = [idx EXCEPT ![clist[i]] = @ + 1]
    BY <1>2 DEF Dispatch
  <2>2. clist[i] \in Conns
    BY <1>0 DEF ConnType
  <2>3. Len(queue[clist[i]]) <= received[clist[i]] /\ received[clist[i]] <= MaxRequests
        /\ Len(queue[clist[i]]) \in Nat /\ received[clist[i]] \in Nat /\ idx[clist[i]] \in Nat
    BY <1>0, <2>2 DEF QueueInv, QueueType
  <2>4. idx[clist[i]] + 1 \in 0 .. MaxRequests
    BY <2>1, <2>3, PipelineAssumption
  <2>5. queue' = queue /\ received' = received
    BY <1>2 DEF Dispatch
  <2> QED
    BY <1>0, <2>1, <2>2, <2>4, <2>5 DEF QueueType
<1>3. CASE WriteDone
  <2>1. at[Responder] \in Conns /\ pc[Responder] = "write"
    BY <1>0, <1>3, FiberConn DEF WriteDone, Fibers
  <2>2. FrontAnswered(at[Responder], queue[at[Responder]])
    BY <2>1 DEF IInv, FrontInv
  <2>3. idx[at[Responder]] >= 1 /\ queue[at[Responder]] # <<>>
    BY <1>0, <2>1, <2>2, FrontFacts
  <2>4. idx[at[Responder]] - 1 \in 0 .. MaxRequests
    BY <1>0, <2>1, <2>3, PipelineAssumption DEF QueueType
  <2>5. Tail(queue[at[Responder]]) \in Seq(Requests)
    BY <1>0, <2>1, <2>3 DEF QueueType
  <2>6. queue' = [queue EXCEPT ![at[Responder]] = Tail(queue[at[Responder]])]
        /\ idx' = [idx EXCEPT ![at[Responder]] = idx[at[Responder]] - 1] /\ received' = received
    BY <1>3 DEF WriteDone
  <2> QED
    BY <1>0, <2>1, <2>4, <2>5, <2>6 DEF QueueType
<1>4. CASE WriteFailed
  <2>1. at[Responder] \in Conns
    BY <1>0, <1>4, FiberConn DEF WriteFailed, Fibers
  <2> QED
    BY <1>0, <1>4, <2>1 DEF WriteFailed, QueueType
<1>5. CASE UNCHANGED <<queue, idx, received>>
  BY <1>0, <1>5 DEF QueueType
<1>6. ASSUME NEW r \in Readers,
             \/ PickConn(r) \/ SweepConns(r) \/ RejectRequest(r) \/ ReadTimeout(r)
             \/ ReadEof(r) \/ ReadRefused(r) \/ EndReject(r)
      PROVE  UNCHANGED <<queue, idx, received>>
  BY <1>6 DEF PickConn, SweepConns, RejectRequest, ReadTimeout, ReadEof, ReadRefused, EndReject
<1>7. ASSUME \/ \E c \in Conns : Accept(c) \/ WriteCompletes(c)
             \/ \E f \in Fibers : EndShutdown(f)
             \/ PickResponse \/ \E d \in Dispatchers : Answer(d)
      PROVE  UNCHANGED <<queue, idx, received>>
  BY <1>7 DEF Accept, WriteCompletes, EndShutdown, PickResponse, Answer
<1> QED
  BY <1>1, <1>2, <1>3, <1>4, <1>5, <1>6, <1>7 DEF Step, ReaderStep, Read, ResponderStep, Fibers

(* The steps that change what is served or answered.                       *)
LEMMA AnswerFrame ==
  ASSUME Step
  PROVE  (\E d \in Dispatchers : Dispatch(d) \/ Answer(d)) \/ UNCHANGED <<answered, serving>>
<1> USE DEF conn
<1>1. ASSUME NEW r \in Readers, ReaderStep(r) PROVE UNCHANGED <<answered, serving>>
  BY <1>1 DEF ReaderStep, Read, PickConn, SweepConns, ReadRequest, RejectRequest, ReadTimeout,
              ReadEof, ReadRefused, EndReject, EndShutdown
<1>2. ASSUME ResponderStep \/ \E c \in Conns : Accept(c) \/ WriteCompletes(c)
      PROVE  UNCHANGED <<answered, serving>>
  BY <1>2 DEF ResponderStep, PickResponse, WriteDone, WriteFailed, EndShutdown, Accept,
              WriteCompletes
<1> QED
  BY <1>1, <1>2 DEF Step

LEMMA AnswerTypeStep == ASSUME IInv, Step PROVE AnswerType'
<1> USE DEF conn
<1>0. ConnType /\ QueueType /\ AnswerType
  BY TypeParts DEF IInv
<1>1. ASSUME NEW d \in Dispatchers, Dispatch(d) PROVE AnswerType'
  <2>1. PICK i \in DOMAIN clist :
          /\ idx[clist[i]] < Len(queue[clist[i]])
          /\ serving' = [serving EXCEPT ![d] = <<clist[i], queue[clist[i]][idx[clist[i]] + 1]>>]
    BY <1>1 DEF Dispatch
  <2>2. clist[i] \in Conns
    BY <1>0 DEF ConnType
  <2>3. queue[clist[i]][idx[clist[i]] + 1] \in Requests
    BY <1>0, <2>1, <2>2 DEF QueueType
  <2>4. answered' = answered
    BY <1>1 DEF Dispatch
  <2> QED
    BY <1>0, <2>1, <2>2, <2>3, <2>4 DEF AnswerType
<1>2. ASSUME NEW d \in Dispatchers, Answer(d) PROVE AnswerType'
  <2>1. serving[d] \in Conns \X Requests
    BY <1>0, <1>2 DEF Answer, AnswerType
  <2>2. serving[d][1] \in Conns /\ serving[d][2] \in Requests
    BY <2>1
  <2> QED
    BY <1>0, <1>2, <2>2 DEF Answer, AnswerType
<1>3. CASE UNCHANGED <<answered, serving>>
  BY <1>0, <1>3 DEF AnswerType
<1> QED
  BY <1>1, <1>2, <1>3, AnswerFrame

(* The writer, connection and message of a step that starts a write.       *)
LEMMA Writers ==
  ASSUME IInv
  PROVE  /\ \A r \in Readers : RejectRequest(r) \/ ReadTimeout(r) =>
              /\ pc[r] = "read" /\ at[r] \in Conns
              /\ \E m \in {ErrorResponse, TimeoutResponse} : BeginWrite(r, at[r], m)
              /\ UNCHANGED <<clist, conn, answered, out, result, serving>>
         /\ PickResponse => 
              /\ pc[Responder] = "scan"
              /\ \E c \in Conns : /\ FrontAnswered(c, queue[c])
                                  /\ BeginWrite(Responder, c, Head(queue[c]))
              /\ UNCHANGED <<clist, conn, answered, out, result, serving>>
<1>0. ConnType /\ FiberType /\ FiberInv
  BY TypeParts DEF IInv
<1>1. ASSUME NEW r \in Readers, RejectRequest(r) \/ ReadTimeout(r)
      PROVE  /\ pc[r] = "read" /\ at[r] \in Conns
             /\ \E m \in {ErrorResponse, TimeoutResponse} : BeginWrite(r, at[r], m)
             /\ UNCHANGED <<clist, conn, answered, out, result, serving>>
  <2>1. pc[r] = "read"
    BY <1>1 DEF RejectRequest, ReadTimeout
  <2>2. at[r] \in Conns
    BY <1>0, <2>1, FiberConn DEF Fibers
  <2> QED
    BY <1>1, <2>1, <2>2 DEF RejectRequest, ReadTimeout
<1>2. ASSUME PickResponse
      PROVE  /\ pc[Responder] = "scan"
             /\ \E c \in Conns : /\ FrontAnswered(c, queue[c])
                                 /\ BeginWrite(Responder, c, Head(queue[c]))
             /\ UNCHANGED <<clist, conn, answered, out, result, serving>>
  <2>1. PICK i \in DOMAIN clist : /\ FrontAnswered(clist[i], queue[clist[i]])
                                  /\ BeginWrite(Responder, clist[i], Head(queue[clist[i]]))
    BY <1>2 DEF PickResponse
  <2>2. clist[i] \in Conns
    BY <1>0 DEF ConnType
  <2> QED
    BY <1>2, <2>1, <2>2 DEF PickResponse
<1> QED
  BY <1>1, <1>2

(* The connection a finished write leaves, and what may follow it.         *)
LEMMA WriteDoneFacts ==
  ASSUME IInv, WriteDone
  PROVE  \E c \in Conns, q \in Seq(Requests) :
           /\ c = at[Responder] /\ q = Tail(queue[c]) /\ queue[c] # <<>>
           /\ pc[Responder] = "write" /\ result[Responder] = "ok"
           /\ queue' = [queue EXCEPT ![c] = q] /\ idx' = [idx EXCEPT ![c] = @ - 1]
           /\ result' = [result EXCEPT ![Responder] = None]
           /\ \/ /\ q # <<>> /\ Head(q) \in Requests /\ Head(q) \in answered[c]
                 /\ BeginWrite(Responder, c, Head(q))
              \/ /\ pc' = [pc EXCEPT ![Responder] = "scan"]
                 /\ at' = [at EXCEPT ![Responder] = None] /\ writing' = writing
              \/ /\ pc' = [pc EXCEPT ![Responder] = "drain"] /\ at' = at /\ writing' = writing
           /\ UNCHANGED <<clist, sock, cstate, keep, received, answered, out, serving>>
<1>0. QueueType /\ AnswerType /\ FiberType /\ FiberInv /\ QueueInv /\ HandInv
  BY TypeParts DEF IInv
<1>1. at[Responder] \in Conns /\ pc[Responder] = "write"
  BY <1>0, FiberConn DEF WriteDone, Fibers
<1>2. FrontAnswered(at[Responder], queue[at[Responder]])
  BY <1>1 DEF IInv, FrontInv
<1>3. queue[at[Responder]] # <<>> /\ queue[at[Responder]] \in Seq(Requests)
  BY <1>0, <1>1, <1>2, FrontFacts DEF QueueType
<1> DEFINE c == at[Responder]
           q == Tail(queue[c])
<1>4. q \in Seq(Requests)
  BY <1>3
<1>5. FrontAnswered(c, q) => q # <<>> /\ Head(q) \in Requests /\ Head(q) \in answered[c]
  BY <1>4 DEF FrontAnswered
<1>6. /\ c = at[Responder] /\ q = Tail(queue[c]) /\ queue[c] # <<>>
      /\ pc[Responder] = "write" /\ result[Responder] = "ok"
      /\ queue' = [queue EXCEPT ![c] = q] /\ idx' = [idx EXCEPT ![c] = @ - 1]
      /\ result' = [result EXCEPT ![Responder] = None]
      /\ UNCHANGED <<clist, sock, cstate, keep, received, answered, out, serving>>
  BY <1>3 DEF WriteDone
<1>7. \/ /\ q # <<>> /\ Head(q) \in Requests /\ Head(q) \in answered[c]
         /\ BeginWrite(Responder, c, Head(q))
      \/ /\ pc' = [pc EXCEPT ![Responder] = "scan"]
         /\ at' = [at EXCEPT ![Responder] = None] /\ writing' = writing
      \/ /\ pc' = [pc EXCEPT ![Responder] = "drain"] /\ at' = at /\ writing' = writing
  BY <1>5 DEF WriteDone, Move
<1> QED
  BY <1>1, <1>4, <1>6, <1>7

LEMMA WireFiberTypeStep == ASSUME IInv, Step PROVE WireType' /\ FiberType'
<1> USE DEF conn, wire, fiber
<1>0. ConnType /\ QueueType /\ WireType /\ FiberType /\ FiberInv
  BY TypeParts DEF IInv
<1>1. ASSUME NEW f \in Fibers, NEW c \in Conns, NEW m \in Messages, BeginWrite(f, c, m),
             UNCHANGED out, result' = result \/ result' = [result EXCEPT ![f] = None]
      PROVE  WireType' /\ FiberType'
  <2>1. /\ pc' \in [Fibers -> {"scan", "read", "write", "drain"} \cup Thrown]
        /\ at' \in [Fibers -> Conns \cup {None}]
        /\ writing' \in [Conns -> {<<>>} \cup (Fibers \X Messages)]
    BY <1>0, <1>1, BeginWriteType
  <2>2. result' \in [Fibers -> {None, "ok", "failed"}]
    BY <1>0, <1>1 DEF FiberType
  <2>3. out' \in [Conns -> Seq(Messages)]
    BY <1>0, <1>1 DEF WireType
  <2> QED
    BY <2>1, <2>2, <2>3 DEF WireType, FiberType
<1>2. ASSUME NEW r \in Readers, RejectRequest(r) \/ ReadTimeout(r) PROVE WireType' /\ FiberType'
  BY <1>1, <1>2, Writers, MessageTypes DEF Fibers
<1>3. CASE PickResponse
  <2>1. PICK c \in Conns : FrontAnswered(c, queue[c]) /\ BeginWrite(Responder, c, Head(queue[c]))
    BY <1>3, Writers
  <2>2. Head(queue[c]) \in Requests
    BY <1>0, <2>1 DEF FrontAnswered, QueueType
  <2> QED
    BY <1>1, <1>3, <2>1, <2>2, Writers, MessageTypes DEF Fibers
<1>4. CASE WriteDone
  <2>1. PICK c \in Conns, q \in Seq(Requests) :
          /\ c = at[Responder]
          /\ result' = [result EXCEPT ![Responder] = None] /\ out' = out
          /\ \/ /\ q # <<>> /\ Head(q) \in Requests /\ Head(q) \in answered[c]
                /\ BeginWrite(Responder, c, Head(q))
             \/ /\ pc' = [pc EXCEPT ![Responder] = "scan"]
                /\ at' = [at EXCEPT ![Responder] = None] /\ writing' = writing
             \/ /\ pc' = [pc EXCEPT ![Responder] = "drain"] /\ at' = at /\ writing' = writing
    BY <1>4, WriteDoneFacts
  <2>2. CASE BeginWrite(Responder, c, Head(q)) /\ Head(q) \in Requests
    BY <1>1, <2>1, <2>2, MessageTypes DEF Fibers
  <2>3. CASE /\ pc' = [pc EXCEPT ![Responder] = "scan"]
             /\ at' = [at EXCEPT ![Responder] = None] /\ writing' = writing
    BY <1>0, <2>1, <2>3 DEF WireType, FiberType
  <2>4. CASE pc' = [pc EXCEPT ![Responder] = "drain"] /\ at' = at /\ writing' = writing
    BY <1>0, <2>1, <2>4 DEF WireType, FiberType
  <2> QED
    BY <2>1, <2>2, <2>3, <2>4
<1>5. CASE WriteFailed
  BY <1>0, <1>5 DEF WriteFailed, Move, WireType, FiberType
<1>6. ASSUME NEW c \in Conns, WriteCompletes(c) PROVE WireType' /\ FiberType'
  <2>1. writing[c] \in Fibers \X Messages
    BY <1>0, <1>6 DEF WriteCompletes, WireType
  <2>2. writing[c][1] \in Fibers /\ writing[c][2] \in Messages
    BY <2>1
  <2>3. out' \in [Conns -> Seq(Messages)]
    <3>1. Append(out[c], writing[c][2]) \in Seq(Messages)
      BY <1>0, <2>2 DEF WireType
    <3> QED
      BY <1>0, <1>6, <3>1 DEF WriteCompletes, WireType
  <2>4. writing' \in [Conns -> {<<>>} \cup (Fibers \X Messages)]
    BY <1>0, <1>6 DEF WriteCompletes, WireType
  <2>5. FiberType'
    BY <1>0, <1>6, <2>2 DEF WriteCompletes, FiberType
  <2> QED
    BY <2>3, <2>4, <2>5 DEF WireType
<1>7. ASSUME NEW r \in Readers, PickConn(r) PROVE WireType' /\ FiberType'
  <2>1. PICK i \in DOMAIN clist : at' = [at EXCEPT ![r] = clist[i]]
    BY <1>7 DEF PickConn
  <2>2. clist[i] \in Conns
    BY <1>0 DEF ConnType
  <2> QED
    BY <1>0, <1>7, <2>1, <2>2 DEF PickConn, Move, WireType, FiberType
<1>8. ASSUME NEW r \in Readers,
             ReadRequest(r) \/ ReadEof(r) \/ ReadRefused(r) \/ EndReject(r)
      PROVE  WireType' /\ FiberType'
  BY <1>0, <1>8
     DEF ReadRequest, ReadEof, ReadRefused, EndReject, Move, WireType, FiberType, Thrown
<1>9. ASSUME NEW f \in Fibers, EndShutdown(f) PROVE WireType' /\ FiberType'
  BY <1>0, <1>9 DEF EndShutdown, Move, WireType, FiberType
<1>10. CASE UNCHANGED <<wire, fiber>>
  BY <1>0, <1>10 DEF WireType, FiberType
<1>11. ASSUME \/ \E c \in Conns : Accept(c)
              \/ \E r \in Readers : SweepConns(r)
              \/ \E d \in Dispatchers : Dispatch(d) \/ Answer(d)
       PROVE  UNCHANGED <<wire, fiber>>
  BY <1>11 DEF Accept, SweepConns, Dispatch, Answer
<1> QED
  BY <1>2, <1>3, <1>4, <1>5, <1>6, <1>7, <1>8, <1>9, <1>10, <1>11
     DEF Step, ReaderStep, Read, ResponderStep, Fibers

LEMMA ReadyStep == ASSUME IInv, Step PROVE ready' \in BOOLEAN
<1>0. ready \in BOOLEAN
  BY DEF IInv, TypeOK
<1>1. ASSUME NEW r \in Readers, ReaderStep(r) PROVE UNCHANGED ready
  BY <1>1 DEF ReaderStep, Read, PickConn, SweepConns, ReadRequest, RejectRequest, ReadTimeout,
              ReadEof, ReadRefused, EndReject, EndShutdown
<1>2. ASSUME ResponderStep \/ \E c \in Conns : Accept(c) \/ WriteCompletes(c) PROVE UNCHANGED ready
  BY <1>2 DEF ResponderStep, PickResponse, WriteDone, WriteFailed, EndShutdown, Accept,
              WriteCompletes
<1>3. ASSUME NEW d \in Dispatchers, Dispatch(d) \/ Answer(d) PROVE ready' \in BOOLEAN
  BY <1>0, <1>3 DEF Dispatch, Answer
<1> QED
  BY <1>0, <1>1, <1>2, <1>3 DEF Step

LEMMA TypeStep == ASSUME IInv, Step PROVE TypeOK'
BY ConnTypeStep, QueueTypeStep, AnswerTypeStep, WireFiberTypeStep, ReadyStep, TypePartsNext
-----------------------------------------------------------------------------
(* The queue.                                                              *)

(* The steps that change a queue or the count of its requests.             *)
LEMMA QueueFrame ==
  ASSUME Step
  PROVE  \/ \E r \in Readers : ReadRequest(r)
         \/ WriteDone \/ WriteFailed
         \/ UNCHANGED <<queue, received>>
<1> USE DEF conn
<1>1. ASSUME NEW r \in Readers, ReaderStep(r), ~ReadRequest(r) PROVE UNCHANGED <<queue, received>>
  BY <1>1 DEF ReaderStep, Read, PickConn, SweepConns, RejectRequest, ReadTimeout, ReadEof,
              ReadRefused, EndReject, EndShutdown
<1>2. ASSUME \/ PickResponse \/ EndShutdown(Responder)
             \/ \E c \in Conns : Accept(c) \/ WriteCompletes(c)
             \/ \E d \in Dispatchers : Dispatch(d) \/ Answer(d)
      PROVE  UNCHANGED <<queue, received>>
  BY <1>2 DEF PickResponse, EndShutdown, Accept, WriteCompletes, Dispatch, Answer
<1> QED
  BY <1>1, <1>2 DEF Step, ResponderStep

(* A request is read: it goes to the back of the queue.                    *)
LEMMA ReadFacts ==
  ASSUME IInv, NEW r \in Readers, ReadRequest(r)
  PROVE  \E c \in Conns :
           /\ c = at[r] /\ pc[r] = "read" /\ received[c] + 1 \in Requests
           /\ received' = [received EXCEPT ![c] = received[c] + 1]
           /\ queue' = [queue EXCEPT ![c] = Append(queue[c], received[c] + 1)]
           /\ Len(queue'[c]) = Len(queue[c]) + 1
           /\ queue'[c][Len(queue[c]) + 1] = received[c] + 1
           /\ \A i \in DOMAIN queue[c] : queue'[c][i] = queue[c][i]
           /\ DOMAIN queue'[c] = 1 .. Len(queue[c]) + 1
<1>0. QueueType /\ FiberType /\ FiberInv
  BY TypeParts DEF IInv
<1>1. at[r] \in Conns
  BY <1>0, FiberConn DEF ReadRequest, Fibers
<1>2. received[at[r]] + 1 \in Requests
  BY <1>0, <1>1, PipelineAssumption DEF ReadRequest, QueueType, Requests
<1>3. queue[at[r]] \in Seq(Requests)
  BY <1>0, <1>1 DEF QueueType
<1>4. queue' = [queue EXCEPT ![at[r]] = Append(queue[at[r]], received[at[r]] + 1)]
  BY DEF ReadRequest
<1>5. queue'[at[r]] = Append(queue[at[r]], received[at[r]] + 1)
  BY <1>0, <1>1, <1>4 DEF QueueType
<1>6. /\ Len(queue'[at[r]]) = Len(queue[at[r]]) + 1
      /\ queue'[at[r]][Len(queue[at[r]]) + 1] = received[at[r]] + 1
      /\ \A i \in DOMAIN queue[at[r]] : queue'[at[r]][i] = queue[at[r]][i]
      /\ DOMAIN queue'[at[r]] = 1 .. Len(queue[at[r]]) + 1
  BY <1>2, <1>3, <1>5
<1> QED
  BY <1>1, <1>2, <1>4, <1>6 DEF ReadRequest

(* The rest of a queue that is not empty.                                  *)
LEMMA TailFacts ==
  ASSUME NEW S, NEW q \in Seq(S), q # <<>>
  PROVE  /\ Tail(q) \in Seq(S) /\ Len(Tail(q)) = Len(q) - 1 /\ Len(q) \in Nat
         /\ \A i \in DOMAIN Tail(q) : i \in Nat /\ i + 1 \in DOMAIN q /\ Tail(q)[i] = q[i + 1]
OBVIOUS

LEMMA QueueStep == ASSUME IInv, Step PROVE QueueInv'
<1>0. QueueType /\ QueueInv
  BY TypeParts DEF IInv
<1>1. ASSUME NEW r \in Readers, ReadRequest(r) PROVE QueueInv'
  <2>1. PICK c \in Conns :
          /\ received' = [received EXCEPT ![c] = received[c] + 1]
          /\ queue' = [queue EXCEPT ![c] = Append(queue[c], received[c] + 1)]
          /\ Len(queue'[c]) = Len(queue[c]) + 1
          /\ queue'[c][Len(queue[c]) + 1] = received[c] + 1
          /\ \A i \in DOMAIN queue[c] : queue'[c][i] = queue[c][i]
          /\ DOMAIN queue'[c] = 1 .. Len(queue[c]) + 1
    BY <1>1, ReadFacts
  <2>2. received[c] \in Nat /\ Len(queue[c]) \in Nat /\ DOMAIN queue[c] = 1 .. Len(queue[c])
        /\ Len(queue[c]) <= received[c] /\ received'[c] = received[c] + 1
    BY <1>0, <2>1 DEF QueueType, QueueInv
  <2>3. First(c)' = First(c) /\ First(c) \in Int
    BY <2>1, <2>2 DEF First
  <2>4. \A i \in DOMAIN queue'[c] : queue'[c][i] = First(c) + i
    BY <1>0, <2>1, <2>2 DEF QueueInv, First
  <2>5. ASSUME NEW e \in Conns, e # c
        PROVE  queue'[e] = queue[e] /\ received'[e] = received[e] /\ First(e)' = First(e)
    BY <1>0, <2>1, <2>5 DEF QueueType, First
  <2> QED
    BY <1>0, <2>1, <2>2, <2>3, <2>4, <2>5 DEF QueueInv
<1>2. CASE WriteDone
  <2>1. PICK c \in Conns : /\ queue[c] # <<>> /\ queue' = [queue EXCEPT ![c] = Tail(queue[c])]
                           /\ received' = received
    BY <1>2, WriteDoneFacts
  <2>2. received[c] \in Nat /\ queue'[c] = Tail(queue[c]) /\ queue[c] \in Seq(Requests)
        /\ Len(queue[c]) <= received[c]
    BY <1>0, <2>1 DEF QueueType, QueueInv
  <2>3. /\ Len(Tail(queue[c])) = Len(queue[c]) - 1 /\ Len(queue[c]) \in Nat
        /\ \A i \in DOMAIN Tail(queue[c]) :
             i \in Nat /\ i + 1 \in DOMAIN queue[c] /\ Tail(queue[c])[i] = queue[c][i + 1]
    BY <2>1, <2>2, TailFacts
  <2>4. First(c)' = First(c) + 1 /\ First(c) \in Int
    <3>1. First(c)' = received[c] - Len(Tail(queue[c])) /\ First(c) = received[c] - Len(queue[c])
      BY <2>1, <2>2 DEF First
    <3> QED
      BY <2>2, <2>3, <3>1
  <2>5. ASSUME NEW i \in DOMAIN queue'[c] PROVE queue'[c][i] = First(c)' + i
    <3>1. i \in Nat /\ i + 1 \in DOMAIN queue[c] /\ queue'[c][i] = queue[c][i + 1]
      BY <2>2, <2>3
    <3>2. queue[c][i + 1] = First(c) + (i + 1)
      BY <1>0, <3>1 DEF QueueInv
    <3> QED
      BY <2>4, <3>1, <3>2
  <2>6. ASSUME NEW e \in Conns, e # c
        PROVE  queue'[e] = queue[e] /\ received'[e] = received[e] /\ First(e)' = First(e)
    BY <1>0, <2>1, <2>6 DEF QueueType, First
  <2>7. Len(queue'[c]) <= received'[c]
    BY <2>1, <2>2, <2>3
  <2> QED
    BY <1>0, <2>5, <2>6, <2>7 DEF QueueInv
<1>3. CASE WriteFailed
  <2> DEFINE c == at[Responder]
  <2>1. queue' = [queue EXCEPT ![c] = <<>>] /\ received' = received
    BY <1>3 DEF WriteFailed
  <2>2. ASSUME NEW e \in Conns PROVE queue'[e] = queue[e] \/ queue'[e] = <<>>
    BY <1>0, <2>1 DEF QueueType
  <2> QED
    BY <1>0, <2>1, <2>2 DEF QueueInv, QueueType, First
<1>4. CASE UNCHANGED <<queue, received>>
  BY <1>0, <1>4 DEF QueueInv, First
<1> QED
  BY <1>1, <1>2, <1>3, <1>4, QueueFrame
-----------------------------------------------------------------------------
(* The fibers.                                                             *)

(* A fiber whose write is not outstanding moves on, without a new write.   *)
LEMMA FiberMoves ==
  ASSUME WireType, FiberType, FiberInv, FiberType', NEW f \in Fibers, NEW to, to # "write",
         pc[f] # "write" \/ result[f] # None, f = Responder => to # "read",
         pc' = [pc EXCEPT ![f] = to], result'[f] = None, writing' = writing,
         \A g \in Fibers \ {f} : at'[g] = at[g] /\ result'[g] = result[g],
         to = "scan" <=> at'[f] = None
  PROVE  FiberInv'
<1>1. \A g \in Fibers : pc'[g] = IF g = f THEN to ELSE pc[g]
  BY DEF FiberType
<1>2. ASSUME NEW g \in Fibers PROVE FiberPart(g)'
  BY <1>1 DEF FiberInv, FiberPart
<1>3. ASSUME NEW c \in Conns PROVE WritePart(c)'
  <2>1. SUFFICES ASSUME writing[c] # <<>> PROVE WritePart(c)'
    BY DEF WritePart
  <2>2. writing[c] \in Fibers \X Messages
    BY <2>1 DEF WireType
  <2>3. writing[c][1] \in Fibers
    BY <2>2
  <2>4. writing[c][1] # f
    BY <2>1 DEF FiberInv, WritePart
  <2> QED
    BY <1>1, <2>1, <2>3, <2>4 DEF FiberInv, WritePart
<1> QED
  BY <1>1, <1>2, <1>3 DEF FiberInv, Fibers

(* The same with async.write.                                              *)
LEMMA FiberWrites ==
  ASSUME WireType, FiberType, FiberInv, FiberType', WireType',
         NEW f \in Fibers, NEW c \in Conns, NEW m \in Messages,
         pc[f] # "write" \/ result[f] # None, f # Responder <=> m \notin Requests,
         BeginWrite(f, c, m), result'[f] = None, 
         \A g \in Fibers \ {f} : result'[g] = result[g]
  PROVE  FiberInv'
<1>1. PICK to \in {"write"} \cup Thrown :
        /\ pc' = [pc EXCEPT ![f] = to]
        /\ IF to = "write"
             THEN writing[c] = <<>> /\ writing' = [writing EXCEPT ![c] = <<f, m>>]
             ELSE writing' = writing
  BY BeginWriteFacts
<1>2. at' = [at EXCEPT ![f] = c]
  BY BeginWriteFacts
<1>3. at'[f] = c /\ \A g \in Fibers \ {f} : at'[g] = at[g]
  BY <1>2 DEF FiberType
<1>4. c # None
  BY NamesAssumption
<1>5. CASE to # "write"
  <2>1. to # "scan" /\ to # "read" /\ writing' = writing
    BY <1>1, <1>5 DEF Thrown
  <2> QED
    BY <1>1, <1>3, <1>4, <1>5, <2>1, FiberMoves
<1>6. CASE to = "write"
  <2>1. writing[c] = <<>> /\ writing' = [writing EXCEPT ![c] = <<f, m>>]
    BY <1>1, <1>6
  <2>2. writing'[c] = <<f, m>> /\ writing'[c] # <<>> /\ writing'[c][1] = f /\ writing'[c][2] = m
        /\ \A e \in Conns \ {c} : writing'[e] = writing[e]
    BY <2>1 DEF WireType
  <2>3. \A g \in Fibers : pc'[g] = IF g = f THEN "write" ELSE pc[g]
    BY <1>1, <1>6 DEF FiberType
  <2>4. ASSUME NEW g \in Fibers PROVE FiberPart(g)'
    <3>1. CASE g = f
      BY <1>3, <1>4, <2>2, <2>3, <3>1 DEF FiberPart
    <3>2. CASE g # f
      <4>1. FiberPart(g) /\ pc'[g] = pc[g] /\ at'[g] = at[g] /\ result'[g] = result[g]
        BY <1>3, <2>3, <3>2 DEF FiberInv
      <4>2. pc[g] = "write" /\ result[g] = None => at[g] \in Conns /\ at[g] # c
        <5>1. pc[g] = "write" => at[g] \in Conns
          BY FiberConn
        <5>2. pc[g] = "write" /\ result[g] = None => writing[at[g]] # <<>>
          BY <4>1 DEF FiberPart
        <5> QED
          BY <2>1, <5>1, <5>2
      <4> QED
        BY <2>2, <4>1, <4>2 DEF FiberPart
    <3> QED
      BY <3>1, <3>2
  <2>5. ASSUME NEW e \in Conns PROVE WritePart(e)'
    <3>1. CASE e = c
      BY <1>3, <2>2, <2>3, <3>1 DEF WritePart
    <3>2. CASE e # c /\ writing[e] # <<>>
      <4>1. writing[e] \in Fibers \X Messages /\ writing'[e] = writing[e]
        BY <2>2, <3>2 DEF WireType
      <4>2. writing[e][1] \in Fibers
        BY <4>1
      <4>3. writing[e][1] # f
        BY <3>2 DEF FiberInv, WritePart
      <4> QED
        BY <1>3, <2>3, <3>2, <4>1, <4>2, <4>3 DEF FiberInv, WritePart
    <3>3. CASE e # c /\ writing[e] = <<>>
      BY <2>2, <3>3 DEF WritePart
    <3> QED
      BY <3>1, <3>2, <3>3
  <2>6. pc'[Responder] # "read"
    BY <2>3 DEF FiberInv, Fibers
  <2> QED
    BY <2>4, <2>5, <2>6 DEF FiberInv
<1> QED
  BY <1>5, <1>6

(* The handler of a write runs: the write has a result.                    *)
LEMMA FiberCompletes ==
  ASSUME WireType, FiberType, FiberInv, NEW c \in Conns, WriteCompletes(c)
  PROVE  FiberInv'
<1>1. writing[c] \in Fibers \X Messages /\ writing[c] # <<>>
  BY DEF WriteCompletes, WireType
<1>2. PICK f \in Fibers : f = writing[c][1]
  BY <1>1
<1>3. pc[f] = "write" /\ at[f] = c /\ result[f] = None
  BY <1>1, <1>2 DEF FiberInv, WritePart
<1>4. pc' = pc /\ at' = at /\ writing' = [writing EXCEPT ![c] = <<>>]
  BY DEF WriteCompletes
<1>5. result'[f] # None /\ \A g \in Fibers \ {f} : result'[g] = result[g]
  BY <1>2 DEF WriteCompletes, FiberType, None
<1>6. writing'[c] = <<>> /\ \A e \in Conns \ {c} : writing'[e] = writing[e]
  BY <1>4 DEF WireType
<1>7. ASSUME NEW g \in Fibers PROVE FiberPart(g)'
  <2>1. FiberPart(g)
    BY DEF FiberInv
  <2>2. CASE g = f
    BY <1>3, <1>4, <1>5, <2>1, <2>2 DEF FiberPart
  <2>3. CASE g # f /\ pc[g] = "write" /\ result[g] = None
    <3>1. at[g] \in Conns
      BY <2>3, FiberConn
    <3>2. at[g] # c
      BY <1>2, <2>1, <2>3 DEF FiberPart
    <3> QED
      BY <1>4, <1>5, <1>6, <2>1, <2>3, <3>1, <3>2 DEF FiberPart
  <2>4. CASE g # f /\ ~(pc[g] = "write" /\ result[g] = None)
    BY <1>4, <1>5, <2>1, <2>4 DEF FiberPart
  <2> QED
    BY <2>2, <2>3, <2>4
<1>8. ASSUME NEW e \in Conns PROVE WritePart(e)'
  <2>1. CASE e = c
    BY <1>6, <2>1 DEF WritePart
  <2>2. CASE e # c /\ writing[e] # <<>>
    <3>1. writing[e] \in Fibers \X Messages
      BY <2>2 DEF WireType
    <3>2. writing[e][1] \in Fibers /\ at[writing[e][1]] = e
      BY <2>2, <3>1 DEF FiberInv, WritePart
    <3>3. writing[e][1] # f
      BY <1>3, <2>2, <3>2
    <3> QED
      BY <1>4, <1>5, <1>6, <2>2, <3>2, <3>3 DEF FiberInv, WritePart
  <2>3. CASE e # c /\ writing[e] = <<>>
    BY <1>6, <2>3 DEF WritePart
  <2> QED
    BY <2>1, <2>2, <2>3
<1> QED
  BY <1>4, <1>7, <1>8 DEF FiberInv

LEMMA FiberStep == ASSUME IInv, Step PROVE FiberInv'
<1> USE DEF conn, wire, fiber
<1>0. ConnType /\ QueueType /\ WireType /\ FiberType /\ FiberInv
  BY TypeParts DEF IInv
<1>1. WireType' /\ FiberType'
  BY WireFiberTypeStep
<1>2. \A f \in Fibers : /\ pc[f] # "write" => result[f] = None
                        /\ pc[f] # "scan" => at[f] # None
  BY <1>0 DEF FiberInv, FiberPart
<1>3. Responder \in Fibers /\ \A r \in Readers : r \in Fibers /\ r # Responder
  BY NamesAssumption DEF Fibers
<1>4. ASSUME NEW r \in Readers, PickConn(r) PROVE FiberInv'
  <2>1. PICK i \in DOMAIN clist : at' = [at EXCEPT ![r] = clist[i]]
    BY <1>4 DEF PickConn
  <2>2. clist[i] \in Conns /\ clist[i] # None
    BY <1>0, NamesAssumption DEF ConnType
  <2>3. at'[r] # None /\ \A g \in Fibers \ {r} : at'[g] = at[g]
    BY <1>0, <1>3, <2>1, <2>2 DEF FiberType
  <2>4. pc[r] = "scan" /\ pc' = [pc EXCEPT ![r] = "read"] /\ result' = result
        /\ writing' = writing
    BY <1>4 DEF PickConn, Move
  <2> QED
    BY <1>0, <1>1, <1>2, <1>3, <2>3, <2>4, FiberMoves
<1>5. ASSUME NEW r \in Readers, ReadRequest(r) PROVE FiberInv'
  <2>1. pc[r] = "read" /\ pc' = [pc EXCEPT ![r] = "scan"] /\ at' = [at EXCEPT ![r] = None]
        /\ result' = result /\ writing' = writing
    BY <1>5 DEF ReadRequest, Move
  <2>2. at'[r] = None /\ \A g \in Fibers \ {r} : at'[g] = at[g]
    BY <1>0, <1>3, <2>1 DEF FiberType
  <2> QED
    BY <1>0, <1>1, <1>2, <1>3, <2>1, <2>2, FiberMoves
<1>6. ASSUME NEW r \in Readers, RejectRequest(r) \/ ReadTimeout(r) PROVE FiberInv'
  <2>1. /\ pc[r] = "read" /\ at[r] \in Conns /\ result' = result
        /\ \E m \in {ErrorResponse, TimeoutResponse} : BeginWrite(r, at[r], m)
    BY <1>6, Writers
  <2>2. PICK m \in {ErrorResponse, TimeoutResponse} : BeginWrite(r, at[r], m)
    BY <2>1
  <2>3. m \in Messages /\ m \notin Requests
    BY <2>2, MessageTypes
  <2> QED
    BY <1>0, <1>1, <1>2, <1>3, <2>1, <2>2, <2>3, FiberWrites
<1>7. ASSUME NEW r \in Readers, ReadEof(r) \/ ReadRefused(r) PROVE FiberInv'
  <2>1. pc[r] = "read" /\ at' = at /\ result' = result /\ writing' = writing
    BY <1>7 DEF ReadEof, ReadRefused
  <2>2. pc' = [pc EXCEPT ![r] = "drain"] \/ pc' = [pc EXCEPT ![r] = "refused"]
    BY <1>7 DEF ReadEof, ReadRefused, Move
  <2>3. at'[r] # None
    BY <1>2, <1>3, <2>1
  <2> QED
    BY <1>0, <1>1, <1>2, <1>3, <2>1, <2>2, <2>3, FiberMoves
<1>8. ASSUME NEW r \in Readers, EndReject(r) PROVE FiberInv'
  <2>1. pc[r] = "write" /\ result[r] # None /\ pc' = [pc EXCEPT ![r] = "drain"]
        /\ result' = [result EXCEPT ![r] = None] /\ at' = at /\ writing' = writing
    BY <1>8 DEF EndReject, Move
  <2>2. result'[r] = None /\ \A g \in Fibers \ {r} : result'[g] = result[g]
    BY <1>0, <1>3, <2>1 DEF FiberType
  <2>3. at'[r] # None
    BY <1>2, <1>3, <2>1
  <2> QED
    BY <1>0, <1>1, <1>3, <2>1, <2>2, <2>3, FiberMoves
<1>9. ASSUME NEW f \in Fibers, EndShutdown(f) PROVE FiberInv'
  <2>1. pc[f] = "drain" /\ pc' = [pc EXCEPT ![f] = "scan"] /\ at' = [at EXCEPT ![f] = None]
        /\ result' = result /\ writing' = writing
    BY <1>9 DEF EndShutdown, Move
  <2>2. at'[f] = None /\ \A g \in Fibers \ {f} : at'[g] = at[g]
    BY <1>0, <2>1 DEF FiberType
  <2> QED
    BY <1>0, <1>1, <1>2, <2>1, <2>2, FiberMoves
<1>10. CASE PickResponse
  <2>1. pc[Responder] = "scan" /\ result' = result
    BY <1>10, Writers
  <2>2. PICK c \in Conns : FrontAnswered(c, queue[c]) /\ BeginWrite(Responder, c, Head(queue[c]))
    BY <1>10, Writers
  <2>3. Head(queue[c]) \in Requests
    BY <1>0, <2>2 DEF FrontAnswered, QueueType
  <2> QED
    BY <1>0, <1>1, <1>2, <1>3, <2>1, <2>2, <2>3, MessageTypes, FiberWrites
<1>11. CASE WriteDone
  <2>1. PICK c \in Conns, q \in Seq(Requests) :
          /\ c = at[Responder] /\ pc[Responder] = "write" /\ result[Responder] = "ok"
          /\ result' = [result EXCEPT ![Responder] = None]
          /\ \/ /\ q # <<>> /\ Head(q) \in Requests /\ Head(q) \in answered[c]
                /\ BeginWrite(Responder, c, Head(q))
             \/ /\ pc' = [pc EXCEPT ![Responder] = "scan"]
                /\ at' = [at EXCEPT ![Responder] = None] /\ writing' = writing
             \/ /\ pc' = [pc EXCEPT ![Responder] = "drain"] /\ at' = at /\ writing' = writing
    BY <1>11, WriteDoneFacts
  <2>2. result[Responder] # None /\ result'[Responder] = None
        /\ \A g \in Fibers \ {Responder} : result'[g] = result[g]
    BY <1>0, <1>3, <2>1 DEF FiberType, None
  <2>3. CASE BeginWrite(Responder, c, Head(q)) /\ Head(q) \in Requests
    BY <1>0, <1>1, <1>3, <2>2, <2>3, MessageTypes, FiberWrites
  <2>4. CASE /\ pc' = [pc EXCEPT ![Responder] = "scan"]
             /\ at' = [at EXCEPT ![Responder] = None] /\ writing' = writing
    <3>1. at'[Responder] = None /\ \A g \in Fibers \ {Responder} : at'[g] = at[g]
      BY <1>0, <1>3, <2>4 DEF FiberType
    <3> QED
      BY <1>0, <1>1, <1>3, <2>2, <2>4, <3>1, FiberMoves
  <2>5. CASE pc' = [pc EXCEPT ![Responder] = "drain"] /\ at' = at /\ writing' = writing
    <3>1. at'[Responder] # None
      BY <1>2, <1>3, <2>1, <2>5
    <3> QED
      BY <1>0, <1>1, <1>3, <2>2, <2>5, <3>1, FiberMoves
  <2> QED
    BY <2>1, <2>3, <2>4, <2>5
<1>12. CASE WriteFailed
  <2>1. /\ pc[Responder] = "write" /\ result[Responder] = "failed"
        /\ pc' = [pc EXCEPT ![Responder] = "drain"] /\ at' = at /\ writing' = writing
        /\ result' = [result EXCEPT ![Responder] = None]
    BY <1>12 DEF WriteFailed, Move
  <2>2. result[Responder] # None /\ result'[Responder] = None
        /\ \A g \in Fibers \ {Responder} : result'[g] = result[g]
    BY <1>0, <1>3, <2>1 DEF FiberType, None
  <2>3. at'[Responder] # None
    BY <1>2, <1>3, <2>1
  <2> QED
    BY <1>0, <1>1, <1>3, <2>1, <2>2, <2>3, FiberMoves
<1>13. CASE UNCHANGED <<writing, fiber>>
  BY <1>0, <1>13 DEF FiberInv, FiberPart, WritePart
<1>14. ASSUME \/ \E c \in Conns : Accept(c)
              \/ \E r \in Readers : SweepConns(r)
              \/ \E d \in Dispatchers : Dispatch(d) \/ Answer(d)
       PROVE  UNCHANGED <<writing, fiber>>
  BY <1>14 DEF Accept, SweepConns, Dispatch, Answer
<1>15. ASSUME NEW c \in Conns, WriteCompletes(c) PROVE FiberInv'
  BY <1>0, <1>15, FiberCompletes
<1> QED
  BY <1>3, <1>4, <1>5, <1>6, <1>7, <1>8, <1>9, <1>10, <1>11, <1>12, <1>13, <1>14, <1>15
     DEF Step, ReaderStep, Read, ResponderStep
-----------------------------------------------------------------------------
(* The request workers.                                                    *)

LEMMA HoldStep == ASSUME IInv, Step PROVE ReaderInv'
<1> USE DEF conn, wire, fiber
<1>0. ConnType /\ FiberType /\ FiberInv /\ ReaderInv
  BY TypeParts DEF IInv
<1>1. \A r \in Readers : r \in Fibers /\ r # Responder
  BY NamesAssumption DEF Fibers
<1>2. \A r \in Readers : at[r] # None => at[r] \in Conns
  BY <1>0, <1>1 DEF FiberType
<1>3. ASSUME NEW r \in Readers, PickConn(r) PROVE ReaderInv'
  <2>1. PICK i \in DOMAIN clist : /\ Readable(clist[i])
                                  /\ cstate' = [cstate EXCEPT ![clist[i]] = "busy"]
                                  /\ at' = [at EXCEPT ![r] = clist[i]]
    BY <1>3 DEF PickConn
  <2>2. PICK c \in Conns : c = clist[i]
    BY <1>0 DEF ConnType
  <2>3. cstate[c] = "established"
    BY <2>1, <2>2 DEF Readable
  <2>4. \A s \in Readers : at[s] # c
    BY <1>0, <2>2, <2>3, NamesAssumption DEF ReaderInv
  <2>5. \A s \in Readers : at'[s] = IF s = r THEN c ELSE at[s]
    BY <1>0, <1>1, <2>1, <2>2 DEF FiberType
  <2>6. \A e \in Conns : cstate'[e] = IF e = c THEN "busy" ELSE cstate[e]
    BY <1>0, <2>1, <2>2 DEF ConnType
  <2> QED
    BY <1>0, <1>2, <2>4, <2>5, <2>6 DEF ReaderInv
<1>4. ASSUME NEW r \in Readers, ReadRequest(r) PROVE ReaderInv'
  <2>1. PICK c \in Conns : c = at[r]
    BY <1>0, <1>1, <1>4, FiberConn DEF ReadRequest
  <2>2. \A s \in Readers : at'[s] = IF s = r THEN None ELSE at[s]
    BY <1>0, <1>1, <1>4 DEF ReadRequest, FiberType
  <2>3. \A e \in Conns : e # c => cstate'[e] = cstate[e]
    BY <1>0, <1>4, <2>1 DEF ReadRequest, ConnType
  <2>4. c # None
    BY NamesAssumption
  <2> QED
    BY <1>0, <1>2, <2>1, <2>2, <2>3, <2>4 DEF ReaderInv
<1>5. ASSUME NEW f \in Fibers, EndShutdown(f) PROVE ReaderInv'
  <2>1. PICK c \in Conns : c = at[f]
    BY <1>0, <1>5, FiberConn DEF EndShutdown
  <2>2. \A s \in Readers : at'[s] = IF s = f THEN None ELSE at[s]
    BY <1>0, <1>1, <1>5 DEF EndShutdown, FiberType
  <2>3. \A e \in Conns : cstate'[e] = IF e = c THEN "closed" ELSE cstate[e]
    BY <1>0, <1>5, <2>1 DEF EndShutdown, ConnType
  <2> QED
    BY <1>0, <1>2, <2>2, <2>3 DEF ReaderInv
<1>6. CASE (\A s \in Readers : at'[s] = at[s]) /\ cstate' = cstate
  BY <1>0, <1>6 DEF ReaderInv
<1>7. ASSUME NEW r \in Readers, RejectRequest(r) \/ ReadTimeout(r)
      PROVE  (\A s \in Readers : at'[s] = at[s]) /\ cstate' = cstate
  <2>1. at' = [at EXCEPT ![r] = at[r]]
    BY <1>7 DEF RejectRequest, ReadTimeout, BeginWrite
  <2>2. cstate' = cstate
    BY <1>7 DEF RejectRequest, ReadTimeout
  <2> QED
    BY <1>0, <1>1, <2>1, <2>2 DEF FiberType
<1>8. ASSUME PickResponse \/ WriteDone \/ WriteFailed
      PROVE  (\A s \in Readers : at'[s] = at[s]) /\ cstate' = cstate
  <2>1. at' = at \/ \E c : at' = [at EXCEPT ![Responder] = c]
    BY <1>8 DEF PickResponse, WriteDone, WriteFailed, BeginWrite
  <2>2. cstate' = cstate
    BY <1>8 DEF PickResponse, WriteDone, WriteFailed
  <2> QED
    BY <1>0, <1>1, <2>1, <2>2 DEF FiberType
<1>9. ASSUME NEW r \in Readers, SweepConns(r) \/ ReadEof(r) \/ ReadRefused(r) \/ EndReject(r)
      PROVE  (\A s \in Readers : at'[s] = at[s]) /\ cstate' = cstate
  BY <1>9 DEF SweepConns, ReadEof, ReadRefused, EndReject
<1>10. ASSUME \/ \E c \in Conns : Accept(c) \/ WriteCompletes(c)
              \/ \E d \in Dispatchers : Dispatch(d) \/ Answer(d)
       PROVE  (\A s \in Readers : at'[s] = at[s]) /\ cstate' = cstate
  BY <1>10 DEF Accept, WriteCompletes, Dispatch, Answer
<1> QED
  BY <1>1, <1>3, <1>4, <1>5, <1>6, <1>7, <1>8, <1>9, <1>10
     DEF Step, ReaderStep, Read, ResponderStep, Fibers
-----------------------------------------------------------------------------
(* The dispatch workers.                                                   *)

LEMMA Numbers ==
  ASSUME QueueType, NEW c \in Conns
  PROVE  /\ received[c] \in Nat /\ idx[c] \in Nat /\ Len(queue[c]) \in Nat
         /\ First(c) \in Int /\ Hand(c) \in Int
         /\ First(c) = received[c] - Len(queue[c]) /\ Hand(c) = First(c) + idx[c]
<1>1. received[c] \in Nat /\ idx[c] \in Nat /\ Len(queue[c]) \in Nat
  BY DEF QueueType
<1> QED
  BY <1>1 DEF First, Hand

LEMMA NumbersNext ==
  ASSUME QueueType', NEW c \in Conns
  PROVE  /\ received'[c] \in Nat /\ idx'[c] \in Nat /\ Len(queue'[c]) \in Nat
         /\ First(c)' \in Int /\ Hand(c)' \in Int
         /\ First(c)' = received'[c] - Len(queue'[c]) /\ Hand(c)' = First(c)' + idx'[c]
<1>1. received'[c] \in Nat /\ idx'[c] \in Nat /\ Len(queue'[c]) \in Nat
  BY DEF QueueType
<1> QED
  BY <1>1 DEF First, Hand

(* The steps that change request_idx.                                      *)
LEMMA IdxFrame ==
  ASSUME Step
  PROVE  WriteDone \/ (\E d \in Dispatchers : Dispatch(d)) \/ idx' = idx
<1> USE DEF conn
<1>1. ASSUME NEW r \in Readers, ReaderStep(r) PROVE idx' = idx
  BY <1>1 DEF ReaderStep, Read, PickConn, SweepConns, RejectRequest, ReadRequest, ReadTimeout,
              ReadEof, ReadRefused, EndReject, EndShutdown
<1>2. ASSUME \/ PickResponse \/ WriteFailed \/ EndShutdown(Responder)
             \/ \E c \in Conns : Accept(c) \/ WriteCompletes(c)
             \/ \E d \in Dispatchers : Answer(d)
      PROVE  idx' = idx
  BY <1>2 DEF PickResponse, WriteFailed, EndShutdown, Accept, WriteCompletes, Answer
<1> QED
  BY <1>1, <1>2 DEF Step, ResponderStep

(* A request is handed out: the first one behind request_idx.              *)
LEMMA DispatchFacts ==
  ASSUME IInv, NEW d \in Dispatchers, Dispatch(d)
  PROVE  \E c \in Conns :
           /\ idx[c] < Len(queue[c]) /\ serving[d] = <<>>
           /\ serving' = [serving EXCEPT ![d] = <<c, Hand(c) + 1>>]
           /\ idx' = [idx EXCEPT ![c] = idx[c] + 1]
           /\ Hand(c) + 1 <= received[c] /\ Hand(c) + 1 \in Requests
           /\ UNCHANGED <<clist, sock, cstate, keep, queue, received, answered, wire, fiber>>
<1>0. ConnType /\ QueueType /\ QueueInv
  BY TypeParts DEF IInv
<1>1. PICK i \in DOMAIN clist :
        /\ idx[clist[i]] < Len(queue[clist[i]])
        /\ serving' = [serving EXCEPT ![d] = <<clist[i], queue[clist[i]][idx[clist[i]] + 1]>>]
        /\ idx' = [idx EXCEPT ![clist[i]] = @ + 1]
  BY DEF Dispatch
<1>2. PICK c \in Conns : c = clist[i]
  BY <1>0 DEF ConnType
<1>3. idx[c] + 1 \in DOMAIN queue[c] /\ queue[c][idx[c] + 1] \in Requests
  BY <1>0, <1>1, <1>2 DEF QueueType
<1>4. queue[c][idx[c] + 1] = First(c) + (idx[c] + 1)
  BY <1>0, <1>3 DEF QueueInv
<1>5. /\ received[c] \in Nat /\ idx[c] \in Nat /\ Len(queue[c]) \in Nat
      /\ First(c) \in Int /\ Hand(c) \in Int
      /\ First(c) = received[c] - Len(queue[c]) /\ Hand(c) = First(c) + idx[c]
  BY <1>0, Numbers
<1>6. queue[c][idx[c] + 1] = Hand(c) + 1
  BY <1>4, <1>5
<1>7. Hand(c) + 1 <= received[c]
  BY <1>1, <1>2, <1>5
<1>8. serving[d] = <<>>
      /\ UNCHANGED <<clist, sock, cstate, keep, queue, received, answered, wire, fiber>>
  BY DEF Dispatch
<1> QED
  BY <1>1, <1>2, <1>3, <1>6, <1>7, <1>8

(* Requests are handed out in their order: the mark never moves back.      *)
LEMMA HandGrows ==
  ASSUME IInv, Step, NEW c \in Conns
  PROVE  Hand(c)' >= Hand(c) /\ received'[c] >= received[c]
<1>0. QueueType /\ QueueInv
  BY TypeParts DEF IInv
<1>1. /\ received[c] \in Nat /\ idx[c] \in Nat /\ Len(queue[c]) \in Nat
      /\ First(c) \in Int /\ Hand(c) \in Int
      /\ First(c) = received[c] - Len(queue[c]) /\ Hand(c) = First(c) + idx[c]
  BY <1>0, Numbers
<1>2. /\ received'[c] \in Nat /\ idx'[c] \in Nat /\ Len(queue'[c]) \in Nat
      /\ First(c)' \in Int /\ Hand(c)' \in Int
      /\ First(c)' = received'[c] - Len(queue'[c]) /\ Hand(c)' = First(c)' + idx'[c]
  BY NumbersNext, QueueTypeStep
<1>3. ASSUME NEW r \in Readers, ReadRequest(r) PROVE Hand(c)' >= Hand(c) /\ received'[c] >= received[c]
  <2>1. PICK e \in Conns :
          /\ received' = [received EXCEPT ![e] = received[e] + 1]
          /\ queue' = [queue EXCEPT ![e] = Append(queue[e], received[e] + 1)]
          /\ Len(queue'[e]) = Len(queue[e]) + 1
    BY <1>3, ReadFacts
  <2>2. idx' = idx
    BY <1>3 DEF ReadRequest
  <2>3. IF e = c THEN received'[c] = received[c] + 1 /\ Len(queue'[c]) = Len(queue[c]) + 1
                 ELSE received'[c] = received[c] /\ queue'[c] = queue[c]
    BY <1>0, <2>1 DEF QueueType
  <2> QED
    BY <1>1, <1>2, <2>2, <2>3
<1>4. CASE WriteDone
  <2>1. PICK e \in Conns : /\ queue[e] # <<>> /\ queue' = [queue EXCEPT ![e] = Tail(queue[e])]
                           /\ received' = received /\ idx' = [idx EXCEPT ![e] = idx[e] - 1]
    BY <1>4, WriteDoneFacts
  <2>2. queue[e] \in Seq(Requests)
    BY <1>0 DEF QueueType
  <2>3. Len(Tail(queue[e])) = Len(queue[e]) - 1
    BY <2>1, <2>2, TailFacts
  <2>4. IF e = c THEN idx'[c] = idx[c] - 1 /\ Len(queue'[c]) = Len(queue[c]) - 1
                 ELSE idx'[c] = idx[c] /\ queue'[c] = queue[c]
    BY <1>0, <2>1, <2>3 DEF QueueType
  <2> QED
    BY <1>1, <1>2, <2>1, <2>4, SMTT(30)
<1>5. CASE WriteFailed
  <2>1. queue' = [queue EXCEPT ![at[Responder]] = <<>>] /\ received' = received /\ idx' = idx
    BY <1>5 DEF WriteFailed
  <2>2. queue'[c] = queue[c] \/ queue'[c] = <<>>
    BY <1>0, <2>1 DEF QueueType
  <2>3. queue'[c] = queue[c] \/ Len(queue'[c]) = 0
    BY <2>2
  <2> QED
    BY <1>1, <1>2, <2>1, <2>3
<1>6. ASSUME NEW d \in Dispatchers, Dispatch(d) PROVE Hand(c)' >= Hand(c) /\ received'[c] >= received[c]
  <2>1. PICK e \in Conns : idx' = [idx EXCEPT ![e] = idx[e] + 1]
    BY <1>6, DispatchFacts
  <2>2. queue' = queue /\ received' = received
    BY <1>6 DEF Dispatch
  <2>3. idx'[c] = idx[c] \/ idx'[c] = idx[c] + 1
    BY <1>0, <2>1 DEF QueueType
  <2> QED
    BY <1>1, <1>2, <2>2, <2>3
<1>7. CASE UNCHANGED <<queue, received, idx>>
  BY <1>1, <1>2, <1>7
<1> QED
  BY <1>3, <1>4, <1>5, <1>6, <1>7, QueueFrame, IdxFrame

LEMMA HandStep == ASSUME IInv, Step PROVE HandInv'
<1>0. QueueType /\ AnswerType /\ HandInv
  BY TypeParts DEF IInv
<1>1. ASSUME NEW c \in Conns
      PROVE  /\ Hand(c)' >= Hand(c) /\ received'[c] >= received[c]
             /\ Hand(c) \in Int /\ Hand(c)' \in Int /\ received[c] \in Int /\ received'[c] \in Int
  BY <1>0, Numbers, NumbersNext, QueueTypeStep, HandGrows
<1>2. \A n \in Requests : n \in Int
  BY MessageTypes
<1>3. ASSUME NEW c \in Conns, NEW n \in Requests, n <= Hand(c), n <= received[c]
      PROVE  n <= Hand(c)' /\ n <= received'[c]
  BY <1>1, <1>2, <1>3
<1>4. ASSUME NEW d \in Dispatchers, Dispatch(d) PROVE HandInv'
  <2>1. PICK c \in Conns :
          /\ idx[c] < Len(queue[c]) /\ serving[d] = <<>>
          /\ serving' = [serving EXCEPT ![d] = <<c, Hand(c) + 1>>]
          /\ idx' = [idx EXCEPT ![c] = idx[c] + 1]
          /\ Hand(c) + 1 <= received[c] /\ Hand(c) + 1 \in Requests
          /\ queue' = queue /\ received' = received /\ answered' = answered
    BY <1>4, DispatchFacts
  <2>2. \A e \in Dispatchers : serving'[e] = IF e = d THEN <<c, Hand(c) + 1>> ELSE serving[e]
    BY <1>0, <2>1 DEF AnswerType
  <2>3. Hand(c)' = Hand(c) + 1
    <3>1. /\ received[c] \in Nat /\ idx[c] \in Nat /\ Len(queue[c]) \in Nat
          /\ First(c) = received[c] - Len(queue[c]) /\ Hand(c) = First(c) + idx[c]
      BY <1>0, Numbers
    <3>2. /\ First(c)' = received'[c] - Len(queue'[c]) /\ Hand(c)' = First(c)' + idx'[c]
      BY NumbersNext, QueueTypeStep
    <3>3. idx'[c] = idx[c] + 1
      BY <1>0, <2>1 DEF QueueType
    <3> QED
      BY <2>1, <3>1, <3>2, <3>3
  <2>4. ASSUME NEW e \in Conns, NEW n \in Requests, NEW u \in Dispatchers, serving'[u] = <<e, n>>
        PROVE  n <= Hand(e)' /\ n <= received'[e]
    <3>1. CASE u = d
      <4>1. e = c /\ n = Hand(c) + 1
        BY <2>2, <2>4, <3>1
      <4> QED
        BY <1>1, <2>1, <2>3, <4>1
    <3>2. CASE u # d
      BY <1>0, <1>3, <2>2, <2>4, <3>2 DEF HandInv
    <3> QED
      BY <3>1, <3>2
  <2>5. ASSUME NEW e \in Dispatchers PROVE serving[e] # <<c, Hand(c) + 1>>
    <3>1. ~(Hand(c) + 1 <= Hand(c))
      BY <1>1
    <3> QED
      BY <1>0, <2>1, <3>1 DEF HandInv
  <2>6. ASSUME NEW u \in Dispatchers, NEW e \in Dispatchers, serving'[u] # <<>>, serving'[u] = serving'[e]
        PROVE  u = e
    BY <1>0, <2>2, <2>5, <2>6 DEF HandInv
  <2>7. ASSUME NEW e \in Conns, NEW n \in answered'[e] PROVE n <= Hand(e)' /\ n <= received'[e]
    BY <1>0, <1>3, <2>1 DEF HandInv, AnswerType
  <2> QED
    BY <2>4, <2>6, <2>7 DEF HandInv
<1>5. ASSUME NEW d \in Dispatchers, Answer(d) PROVE HandInv'
  <2>1. serving[d] \in Conns \X Requests
    BY <1>0, <1>5 DEF Answer, AnswerType
  <2>2. PICK c \in Conns, n \in Requests : serving[d] = <<c, n>>
    BY <2>1
  <2>3. n <= Hand(c) /\ n <= received[c]
    BY <1>0, <2>2 DEF HandInv
  <2>4. answered' = [answered EXCEPT ![c] = @ \cup {n}]
    BY <1>5, <2>2 DEF Answer
  <2>5. \A e \in Dispatchers : serving'[e] = IF e = d THEN <<>> ELSE serving[e]
    BY <1>0, <1>5 DEF Answer, AnswerType
  <2>6. ASSUME NEW e \in Conns, NEW m \in answered'[e] PROVE m <= Hand(e)' /\ m <= received'[e]
    <3>1. answered'[e] = IF e = c THEN answered[e] \cup {n} ELSE answered[e]
      BY <1>0, <2>4 DEF AnswerType
    <3>2. m \in Requests /\ m <= Hand(e) /\ m <= received[e]
      BY <1>0, <2>3, <3>1 DEF HandInv, AnswerType
    <3> QED
      BY <1>3, <3>2
  <2>7. ASSUME NEW e \in Conns, NEW m \in Requests, NEW u \in Dispatchers, serving'[u] = <<e, m>>
        PROVE  m <= Hand(e)' /\ m <= received'[e]
    <3>1. <<e, m>> # <<>>
      OBVIOUS
    <3>2. serving[u] = <<e, m>>
      BY <2>5, <2>7, <3>1
    <3> QED
      BY <1>0, <1>3, <3>2 DEF HandInv
  <2>8. ASSUME NEW u \in Dispatchers, NEW e \in Dispatchers, serving'[u] # <<>>, serving'[u] = serving'[e]
        PROVE  u = e
    BY <1>0, <2>5, <2>8 DEF HandInv
  <2> QED
    BY <2>6, <2>7, <2>8 DEF HandInv
<1>6. ASSUME UNCHANGED <<answered, serving>> PROVE HandInv'
  <2>1. ASSUME NEW e \in Conns, NEW m \in answered'[e] PROVE m <= Hand(e)' /\ m <= received'[e]
    <3>1. m \in Requests /\ m <= Hand(e) /\ m <= received[e]
      BY <1>0, <1>6 DEF HandInv, AnswerType
    <3> QED
      BY <1>3, <3>1
  <2>2. ASSUME NEW e \in Conns, NEW m \in Requests, NEW u \in Dispatchers, serving'[u] = <<e, m>>
        PROVE  m <= Hand(e)' /\ m <= received'[e]
    BY <1>0, <1>3, <1>6, <2>2 DEF HandInv
  <2>3. ASSUME NEW u \in Dispatchers, NEW e \in Dispatchers, serving'[u] # <<>>, serving'[u] = serving'[e]
        PROVE  u = e
    BY <1>0, <1>6, <2>3 DEF HandInv
  <2> QED
    BY <2>1, <2>2, <2>3 DEF HandInv
<1> QED
  BY <1>4, <1>5, <1>6, AnswerFrame
-----------------------------------------------------------------------------
(* The response worker.                                                    *)

(* The other fibers leave it where it is.                                  *)
LEMMA ResponderFrame ==
  ASSUME IInv, Step, ~ResponderStep
  PROVE  /\ pc'[Responder] = pc[Responder] /\ at'[Responder] = at[Responder]
         /\ \/ result'[Responder] = result[Responder]
            \/ \E c \in Conns : WriteCompletes(c) /\ writing[c][1] = Responder
<1> USE DEF conn, fiber
<1>0. FiberType /\ Responder \in Fibers /\ \A r \in Readers : r # Responder
  BY TypeParts, NamesAssumption DEF IInv, Fibers
<1>1. ASSUME NEW r \in Readers, ReaderStep(r)
      PROVE  /\ pc'[Responder] = pc[Responder] /\ at'[Responder] = at[Responder]
             /\ result'[Responder] = result[Responder]
  <2>1. pc' = pc \/ \E to : pc' = [pc EXCEPT ![r] = to]
    BY <1>1 DEF ReaderStep, Read, PickConn, SweepConns, ReadRequest, RejectRequest, ReadTimeout,
                ReadEof, ReadRefused, EndReject, EndShutdown, BeginWrite, Move
  <2>2. at' = at \/ \E c : at' = [at EXCEPT ![r] = c]
    BY <1>1 DEF ReaderStep, Read, PickConn, SweepConns, ReadRequest, RejectRequest, ReadTimeout,
                ReadEof, ReadRefused, EndReject, EndShutdown, BeginWrite
  <2>3. result' = result \/ result' = [result EXCEPT ![r] = None]
    BY <1>1 DEF ReaderStep, Read, PickConn, SweepConns, ReadRequest, RejectRequest, ReadTimeout,
                ReadEof, ReadRefused, EndReject, EndShutdown
  <2> QED
    BY <1>0, <2>1, <2>2, <2>3 DEF FiberType
<1>2. ASSUME NEW c \in Conns, WriteCompletes(c)
      PROVE  /\ pc'[Responder] = pc[Responder] /\ at'[Responder] = at[Responder]
             /\ result'[Responder] = result[Responder] \/ writing[c][1] = Responder
  BY <1>0, <1>2 DEF WriteCompletes, FiberType
<1>3. ASSUME \/ \E c \in Conns : Accept(c)
             \/ \E d \in Dispatchers : Dispatch(d) \/ Answer(d)
      PROVE  pc' = pc /\ at' = at /\ result' = result
  BY <1>3 DEF Accept, Dispatch, Answer
<1> QED
  BY <1>1, <1>2, <1>3 DEF Step

(* Nor do they touch its write or the request it answers.                  *)
LEMMA OwnWrite ==
  ASSUME IInv, Step, ~ResponderStep, pc[Responder] = "write",
         result'[Responder] = None, result[Responder] = None
  PROVE  writing'[at[Responder]] = writing[at[Responder]]
<1> USE DEF conn, wire, fiber
<1>0. WireType /\ FiberType /\ FiberInv /\ Responder \in Fibers
  BY TypeParts DEF IInv, Fibers
<1>1. writing[at[Responder]] # <<>> /\ writing[at[Responder]][1] = Responder
  BY <1>0 DEF FiberInv, FiberPart
<1>2. at[Responder] \in Conns
  BY <1>0, FiberConn
<1>3. ASSUME NEW r \in Readers, RejectRequest(r) \/ ReadTimeout(r)
      PROVE  writing'[at[Responder]] = writing[at[Responder]]
  <2>1. \E m : BeginWrite(r, at[r], m)
    BY <1>3 DEF RejectRequest, ReadTimeout
  <2>2. writing' = writing \/ \E m : /\ writing[at[r]] = <<>>
                                     /\ writing' = [writing EXCEPT ![at[r]] = <<r, m>>]
    BY <2>1 DEF BeginWrite
  <2> QED
    BY <1>0, <1>1, <1>2, <2>2 DEF WireType
<1>4. ASSUME NEW c \in Conns, WriteCompletes(c)
      PROVE  writing'[at[Responder]] = writing[at[Responder]]
  <2>1. c # at[Responder]
    <3>1. SUFFICES ASSUME writing[c][1] = Responder PROVE result'[Responder] # None
      BY <1>1
    <3> QED
      BY <1>0, <1>4, <3>1 DEF WriteCompletes, FiberType, None
  <2> QED
    BY <1>0, <1>2, <1>4, <2>1 DEF WriteCompletes, WireType
<1>5. ASSUME NEW r \in Readers, ReaderStep(r), ~RejectRequest(r), ~ReadTimeout(r)
      PROVE  writing' = writing
  BY <1>5 DEF ReaderStep, Read, PickConn, SweepConns, ReadRequest, ReadEof, ReadRefused,
              EndReject, EndShutdown
<1>6. ASSUME \/ \E c \in Conns : Accept(c)
             \/ \E d \in Dispatchers : Dispatch(d) \/ Answer(d)
      PROVE  writing' = writing
  BY <1>6 DEF Accept, Dispatch, Answer
<1> QED
  BY <1>3, <1>4, <1>5, <1>6 DEF Step

LEMMA FrontKept ==
  ASSUME IInv, Step, ~ResponderStep, NEW c \in Conns, FrontAnswered(c, queue[c])
  PROVE  FrontAnswered(c, queue[c])' /\ Head(queue'[c]) = Head(queue[c])
<1>0. QueueType /\ AnswerType
  BY TypeParts DEF IInv
<1>1. queue[c] \in Seq(Requests) /\ queue[c] # <<>> /\ Head(queue[c]) \in answered[c]
  BY <1>0 DEF FrontAnswered, QueueType
<1>2. queue'[c] # <<>> /\ Head(queue'[c]) = Head(queue[c])
  <2>1. CASE UNCHANGED <<queue, received>>
    BY <1>1, <2>1
  <2>2. ASSUME NEW r \in Readers, ReadRequest(r)
        PROVE  queue'[c] # <<>> /\ Head(queue'[c]) = Head(queue[c])
    <3>1. PICK e \in Conns : /\ received[e] + 1 \in Requests
                             /\ queue' = [queue EXCEPT ![e] = Append(queue[e], received[e] + 1)]
      BY <2>2, ReadFacts
    <3>2. CASE e = c
      <4>1. queue'[c] = Append(queue[c], received[c] + 1) /\ received[c] + 1 \in Requests
        BY <1>0, <3>1, <3>2 DEF QueueType
      <4> QED
        BY <1>1, <4>1
    <3>3. CASE e # c
      BY <1>0, <1>1, <3>1, <3>3 DEF QueueType
    <3> QED
      BY <3>2, <3>3
  <2> QED
    BY <2>1, <2>2, QueueFrame DEF ResponderStep
<1>3. answered[c] \subseteq answered'[c]
  <2>1. CASE UNCHANGED <<answered, serving>>
    BY <2>1
  <2>2. ASSUME NEW d \in Dispatchers, Dispatch(d) \/ Answer(d)
        PROVE  answered[c] \subseteq answered'[c]
    <3>1. answered' = answered
          \/ \E e, n : answered' = [answered EXCEPT ![e] = @ \cup {n}]
      BY <2>2 DEF Dispatch, Answer
    <3> QED
      BY <1>0, <3>1 DEF AnswerType
  <2> QED
    BY <2>1, <2>2, AnswerFrame
<1> QED
  BY <1>1, <1>2, <1>3 DEF FrontAnswered

(* A write of the responder is that of the front request.                  *)
LEMMA FrontBegins ==
  ASSUME FiberType, WireType, NEW c \in Conns, NEW q, queue'[c] = q, q # <<>>,
         Head(q) \in answered[c], answered' = answered, BeginWrite(Responder, c, Head(q))
  PROVE  FrontInv'
<1>1. at'[Responder] = c
  BY BeginWriteFacts DEF FiberType, Fibers
<1>2. PICK to \in {"write"} \cup Thrown :
        /\ pc' = [pc EXCEPT ![Responder] = to]
        /\ IF to = "write" THEN writing' = [writing EXCEPT ![c] = <<Responder, Head(q)>>]
                           ELSE writing' = writing
  BY BeginWriteFacts
<1>3. pc'[Responder] = to
  BY <1>2 DEF FiberType, Fibers
<1>4. to = "write" => writing'[c] = <<Responder, Head(q)>>
  BY <1>2 DEF WireType
<1>5. to = "write" => writing'[c][2] = Head(q)
  BY <1>4
<1> QED
  BY <1>1, <1>3, <1>5 DEF FrontInv, FrontAnswered

LEMMA FrontStep == ASSUME IInv, Step PROVE FrontInv'
<1> USE DEF conn, wire, fiber
<1>0. QueueType /\ AnswerType /\ WireType /\ FiberType /\ FiberInv /\ FrontInv
      /\ Responder \in Fibers
  BY TypeParts DEF IInv, Fibers
<1>1. CASE PickResponse
  <2>1. PICK c \in Conns : FrontAnswered(c, queue[c]) /\ BeginWrite(Responder, c, Head(queue[c]))
    BY <1>1, Writers
  <2>2. queue' = queue /\ answered' = answered
    BY <1>1 DEF PickResponse
  <2> QED
    BY <1>0, <2>1, <2>2, FrontBegins DEF FrontAnswered
<1>2. CASE WriteDone
  <2>1. PICK c \in Conns, q \in Seq(Requests) :
          /\ queue' = [queue EXCEPT ![c] = q] /\ answered' = answered
          /\ \/ /\ q # <<>> /\ Head(q) \in Requests /\ Head(q) \in answered[c]
                /\ BeginWrite(Responder, c, Head(q))
             \/ /\ pc' = [pc EXCEPT ![Responder] = "scan"]
                /\ at' = [at EXCEPT ![Responder] = None] /\ writing' = writing
             \/ /\ pc' = [pc EXCEPT ![Responder] = "drain"] /\ at' = at /\ writing' = writing
    BY <1>2, WriteDoneFacts
  <2>2. queue'[c] = q
    BY <1>0, <2>1 DEF QueueType
  <2>3. CASE q # <<>> /\ Head(q) \in answered[c] /\ BeginWrite(Responder, c, Head(q))
    BY <1>0, <2>1, <2>2, <2>3, FrontBegins
  <2>4. CASE \E to \in {"scan", "drain"} : pc' = [pc EXCEPT ![Responder] = to]
    BY <1>0, <2>4 DEF FiberType, FrontInv
  <2> QED
    BY <2>1, <2>3, <2>4
<1>3. CASE WriteFailed \/ EndShutdown(Responder)
  <2>1. \E to \in {"scan", "drain"} : pc' = [pc EXCEPT ![Responder] = to]
    BY <1>3 DEF WriteFailed, EndShutdown, Move
  <2> QED
    BY <1>0, <2>1 DEF FiberType, FrontInv
<1>4. CASE ~ResponderStep
  <2>1. SUFFICES ASSUME pc'[Responder] = "write" PROVE FrontInv'
    BY DEF FrontInv
  <2>2. pc[Responder] = "write" /\ at'[Responder] = at[Responder]
    BY <1>4, <2>1, ResponderFrame
  <2>3. PICK c \in Conns : c = at[Responder]
    BY <1>0, <2>2, FiberConn
  <2>4. FrontAnswered(c, queue[c])' /\ Head(queue'[c]) = Head(queue[c])
    BY <1>0, <1>4, <2>2, <2>3, FrontKept DEF FrontInv
  <2>5. ASSUME result'[Responder] = None PROVE writing'[c][2] = Head(queue[c])
    <3>1. result[Responder] = None
      <4>1. SUFFICES ASSUME NEW e \in Conns, WriteCompletes(e), writing[e][1] = Responder
                     PROVE  result'[Responder] # None
        BY <1>4, <2>5, ResponderFrame
      <4> QED
        BY <1>0, <4>1 DEF WriteCompletes, FiberType, None
    <3>2. writing'[c] = writing[c]
      BY <1>4, <2>2, <2>3, <2>5, <3>1, OwnWrite
    <3> QED
      BY <1>0, <2>2, <2>3, <3>1, <3>2 DEF FrontInv
  <2> QED
    BY <2>2, <2>3, <2>4, <2>5 DEF FrontInv, FrontAnswered
<1> QED
  BY <1>1, <1>2, <1>3, <1>4 DEF ResponderStep
-----------------------------------------------------------------------------
(* The responses.                                                          *)

LEMMA SentType ==
  ASSUME WireType, NEW c \in Conns
  PROVE  /\ IsFiniteSet(Responses(c)) /\ Sent(c) \in Nat
         /\ \A i \in Responses(c) : i \in 1 .. Len(out[c]) /\ Len(out[c]) \in Nat
<1>1. out[c] \in Seq(Messages)
  BY DEF WireType
<1>2. Len(out[c]) \in Nat /\ DOMAIN out[c] = 1 .. Len(out[c])
  BY <1>1
<1>3. Responses(c) \subseteq 1 .. Len(out[c])
  BY <1>2 DEF Responses
<1>4. IsFiniteSet(1 .. Len(out[c]))
  BY <1>2, FS_Interval
<1>5. IsFiniteSet(Responses(c))
  BY <1>3, <1>4, FS_Subset
<1>6. Sent(c) \in Nat
  BY <1>5, FS_CardinalityType DEF Sent
<1> QED
  BY <1>2, <1>3, <1>5, <1>6

(* One more message: a response, or not.                                   *)
LEMMA OutGrows ==
  ASSUME WireType, NEW c \in Conns, NEW m \in Messages, out'[c] = Append(out[c], m)
  PROVE  IF m \in Requests
           THEN /\ Responses(c)' = Responses(c) \cup {Len(out[c]) + 1}
                /\ Sent(c)' = Sent(c) + 1
           ELSE Responses(c)' = Responses(c) /\ Sent(c)' = Sent(c)
<1>1. out[c] \in Seq(Messages)
  BY DEF WireType
<1>2. /\ Len(out[c]) \in Nat /\ DOMAIN out[c] = 1 .. Len(out[c])
      /\ DOMAIN out'[c] = 1 .. Len(out[c]) + 1
      /\ \A i \in 1 .. Len(out[c]) : out'[c][i] = out[c][i]
      /\ out'[c][Len(out[c]) + 1] = m
  BY <1>1
<1>3. Responses(c)' = {i \in DOMAIN out'[c] : out'[c][i] \in Requests}
      /\ Responses(c) = {i \in DOMAIN out[c] : out[c][i] \in Requests}
  BY DEF Responses
<1>4. \A i \in 1 .. Len(out[c]) + 1 : i \in 1 .. Len(out[c]) \/ i = Len(out[c]) + 1
  BY <1>2
<1>5. Len(out[c]) + 1 \notin 1 .. Len(out[c]) /\ Len(out[c]) + 1 \in 1 .. Len(out[c]) + 1
      /\ \A i \in 1 .. Len(out[c]) : i \in 1 .. Len(out[c]) + 1
  BY <1>2
<1>6. CASE m \in Requests
  <2>1. Responses(c)' = Responses(c) \cup {Len(out[c]) + 1}
    BY <1>2, <1>3, <1>4, <1>5, <1>6
  <2>2. IsFiniteSet(Responses(c)) /\ Len(out[c]) + 1 \notin Responses(c)
    BY <1>2, <1>3, <1>5, SentType
  <2>3. Cardinality(Responses(c) \cup {Len(out[c]) + 1}) = Cardinality(Responses(c)) + 1
    BY <2>2, FS_AddElement
  <2>4. Sent(c)' = Cardinality(Responses(c)') /\ Sent(c) = Cardinality(Responses(c))
    BY DEF Sent
  <2> QED
    BY <1>6, <2>1, <2>3, <2>4
<1>7. CASE m \notin Requests
  <2>1. Responses(c)' = Responses(c)
    BY <1>2, <1>3, <1>4, <1>5, <1>7
  <2> QED
    BY <1>7, <2>1 DEF Sent
<1> QED
  BY <1>6, <1>7

(* A write completes: what is sent, and the number it has.                 *)
LEMMA CompletesFacts ==
  ASSUME IInv, NEW e \in Conns, WriteCompletes(e)
  PROVE  \E f \in Fibers, m \in Messages :
           /\ writing[e] = <<f, m>> /\ result[f] = None /\ at[f] = e /\ pc[f] = "write"
           /\ IF f = Responder
                THEN /\ m \in Requests /\ m = First(e) + 1
                     /\ Whole(e) => m = Sent(e) + 1
                ELSE m \notin Requests
           /\ \/ result'[f] = "ok" /\ out' = [out EXCEPT ![e] = Append(out[e], m)]
              \/ result'[f] = "failed" /\ out' = out
           /\ UNCHANGED <<clist, conn, answered, pc, at, serving>>
<1>0. QueueType /\ AnswerType /\ WireType /\ FiberType /\ FiberInv /\ QueueInv /\ HandInv /\ FrontInv
  BY TypeParts DEF IInv
<1>1. writing[e] \in Fibers \X Messages /\ writing[e] # <<>>
  BY <1>0 DEF WriteCompletes, WireType
<1>2. PICK f \in Fibers, m \in Messages : writing[e] = <<f, m>>
  BY <1>1
<1>3. writing[e][1] = f /\ writing[e][2] = m
  BY <1>2
<1>4. pc[f] = "write" /\ at[f] = e /\ result[f] = None /\ (f # Responder <=> m \notin Requests)
  BY <1>0, <1>1, <1>3 DEF FiberInv, WritePart
<1>5. ASSUME f = Responder PROVE m = First(e) + 1 /\ (Whole(e) => m = Sent(e) + 1)
  <2>1. FrontAnswered(e, queue[e]) /\ m = Head(queue[e])
    BY <1>0, <1>3, <1>4, <1>5 DEF FrontInv
  <2>2. m = First(e) + 1
    BY <1>0, <2>1, FrontFacts
  <2>3. ~Written(e)
    BY <1>4, <1>5 DEF Written, None
  <2>4. Whole(e) => received[e] = Sent(e) + Len(queue[e])
    BY <2>3 DEF Whole
  <2>5. Sent(e) \in Nat /\ received[e] \in Nat /\ Len(queue[e]) \in Nat
        /\ First(e) = received[e] - Len(queue[e])
    BY <1>0, SentType, Numbers
  <2> QED
    BY <2>2, <2>4, <2>5
<1>6. \/ result'[f] = "ok" /\ out' = [out EXCEPT ![e] = Append(out[e], m)]
      \/ result'[f] = "failed" /\ out' = out
  BY <1>0, <1>3 DEF WriteCompletes, FiberType
<1>7. UNCHANGED <<clist, conn, answered, pc, at, serving>>
  BY DEF WriteCompletes
<1> QED
  BY <1>2, <1>4, <1>5, <1>6, <1>7

(* The steps that send.                                                    *)
LEMMA OutFrame ==
  ASSUME Step
  PROVE  (\E c \in Conns : WriteCompletes(c)) \/ out' = out
<1> USE DEF conn, wire
<1>1. ASSUME NEW r \in Readers, ReaderStep(r) PROVE out' = out
  BY <1>1 DEF ReaderStep, Read, PickConn, SweepConns, RejectRequest, ReadRequest, ReadTimeout,
              ReadEof, ReadRefused, EndReject, EndShutdown
<1>2. ASSUME \/ ResponderStep \/ \E c \in Conns : Accept(c)
             \/ \E d \in Dispatchers : Dispatch(d) \/ Answer(d)
      PROVE  out' = out
  BY <1>2 DEF ResponderStep, PickResponse, WriteDone, WriteFailed, EndShutdown, Accept,
              Dispatch, Answer
<1> QED
  BY <1>1, <1>2 DEF Step

LEMMA OrderStep == ASSUME IInv, Step PROVE ResponsesInOrder'
<1>0. WireType /\ ResponsesInOrder /\ CountInv
  BY TypeParts DEF IInv
<1>1. CASE out' = out
  BY <1>0, <1>1 DEF ResponsesInOrder, Responses
<1>2. ASSUME NEW e \in Conns, WriteCompletes(e), out' # out PROVE ResponsesInOrder'
  <2>1. PICK f \in Fibers, m \in Messages :
          /\ at[f] = e /\ pc[f] = "write"
          /\ IF f = Responder THEN m \in Requests /\ (Whole(e) => m = Sent(e) + 1)
                              ELSE m \notin Requests
          /\ out' = [out EXCEPT ![e] = Append(out[e], m)]
    BY <1>2, CompletesFacts
  <2>2. m \in Requests => m = Sent(e) + 1
    BY <1>0, <2>1 DEF CountInv, Cut
  <2>3. out'[e] = Append(out[e], m) /\ out[e] \in Seq(Messages)
    BY <1>0, <2>1 DEF WireType
  <2>4. /\ Len(out[e]) \in Nat
        /\ \A i \in 1 .. Len(out[e]) : out'[e][i] = out[e][i]
        /\ out'[e][Len(out[e]) + 1] = m
    BY <2>3
  <2>5. Sent(e) \in Nat /\ \A i \in Responses(e) : i \in 1 .. Len(out[e])
    BY <1>0, SentType
  <2>6. ASSUME NEW c \in Conns, NEW i \in Responses(c)'
        PROVE  out'[c][i] = Cardinality(Responses(c)' \cap 1 .. i)
    <3>1. CASE c # e
      <4>1. out'[c] = out[c]
        BY <1>0, <2>1, <3>1 DEF WireType
      <4>2. Responses(c)' = Responses(c)
        BY <4>1 DEF Responses
      <4> QED
        BY <1>0, <2>6, <4>1, <4>2 DEF ResponsesInOrder
    <3>2. CASE c = e /\ m \notin Requests
      <4>1. Responses(e)' = Responses(e)
        BY <1>0, <2>3, <3>2, OutGrows
      <4>2. out'[e][i] = out[e][i] /\ i \in Responses(e)
        BY <2>4, <2>5, <2>6, <3>2, <4>1
      <4>3. out[e][i] = Cardinality(Responses(e) \cap 1 .. i)
        BY <1>0, <4>2 DEF ResponsesInOrder
      <4> QED
        BY <3>2, <4>1, <4>2, <4>3
    <3>3. CASE c = e /\ m \in Requests
      <4>1. Responses(e)' = Responses(e) \cup {Len(out[e]) + 1} /\ Sent(e)' = Sent(e) + 1
        BY <1>0, <2>3, <3>3, OutGrows
      <4>2. CASE i = Len(out[e]) + 1
        <5>1. Responses(e)' \cap 1 .. i = Responses(e)'
          BY <2>4, <2>5, <4>1, <4>2
        <5>2. Sent(e)' = Cardinality(Responses(e)')
          BY DEF Sent
        <5> QED
          BY <2>2, <2>4, <3>3, <4>1, <4>2, <5>1, <5>2
      <4>3. CASE i \in Responses(e)
        <5>1. Responses(e)' \cap 1 .. i = Responses(e) \cap 1 .. i
          BY <2>4, <2>5, <4>1, <4>3
        <5>2. out'[e][i] = out[e][i]
          BY <2>4, <2>5, <4>3
        <5>3. out[e][i] = Cardinality(Responses(e) \cap 1 .. i)
          BY <1>0, <4>3 DEF ResponsesInOrder
        <5> QED
          BY <3>3, <5>1, <5>2, <5>3
      <4> QED
        BY <2>6, <3>3, <4>1, <4>2, <4>3
    <3> QED
      BY <3>1, <3>2, <3>3
  <2> QED
    BY <2>6 DEF ResponsesInOrder
<1> QED
  BY <1>1, <1>2, OutFrame
-----------------------------------------------------------------------------
(* The numbers of a connection.                                            *)

(* What was handed out once stays handed out; one step hands out one more. *)
LEMMA HandedKept ==
  ASSUME IInv, Step, NEW c \in Conns, NEW n \in Requests, Handed(c, n)
  PROVE  Handed(c, n)'
<1>0. AnswerType
  BY TypeParts DEF IInv
<1>1. CASE UNCHANGED <<answered, serving>>
  BY <1>1 DEF Handed
<1>2. ASSUME NEW d \in Dispatchers, Dispatch(d) PROVE Handed(c, n)'
  <2>1. answered' = answered /\ serving[d] = <<>>
        /\ \A u \in Dispatchers \ {d} : serving'[u] = serving[u]
    BY <1>0, <1>2 DEF Dispatch, AnswerType
  <2>2. <<c, n>> # <<>>
    OBVIOUS
  <2> QED
    BY <2>1, <2>2 DEF Handed
<1>3. ASSUME NEW d \in Dispatchers, Answer(d) PROVE Handed(c, n)'
  <2>1. \A u \in Dispatchers \ {d} : serving'[u] = serving[u]
    BY <1>0, <1>3 DEF Answer, AnswerType
  <2>2. answered[c] \subseteq answered'[c]
    BY <1>0, <1>3 DEF Answer, AnswerType
  <2>3. ASSUME serving[d] = <<c, n>> PROVE n \in answered'[c]
    BY <1>0, <1>3, <2>3 DEF Answer, AnswerType
  <2> QED
    BY <2>1, <2>2, <2>3 DEF Handed
<1> QED
  BY <1>1, <1>2, <1>3, AnswerFrame

LEMMA HandedOnly ==
  ASSUME IInv, Step, NEW c \in Conns, NEW n \in Requests, ~Handed(c, n),
         \A d \in Dispatchers : Dispatch(d) => serving'[d] # <<c, n>>
  PROVE  ~Handed(c, n)'
<1>0. AnswerType
  BY TypeParts DEF IInv
<1>1. CASE UNCHANGED <<answered, serving>>
  BY <1>1 DEF Handed
<1>2. ASSUME NEW d \in Dispatchers, Dispatch(d) PROVE ~Handed(c, n)'
  <2>1. answered' = answered /\ \A u \in Dispatchers \ {d} : serving'[u] = serving[u]
    BY <1>0, <1>2 DEF Dispatch, AnswerType
  <2> QED
    BY <1>2, <2>1 DEF Handed
<1>3. ASSUME NEW d \in Dispatchers, Answer(d) PROVE ~Handed(c, n)'
  <2>1. serving[d] \in Conns \X Requests
    BY <1>0, <1>3 DEF Answer, AnswerType
  <2>2. PICK e \in Conns, m \in Requests : serving[d] = <<e, m>>
    BY <2>1
  <2>3. ~(e = c /\ m = n)
    BY <2>2 DEF Handed
  <2>4. answered'[c] = IF e = c THEN answered[c] \cup {m} ELSE answered[c]
    <3>1. serving[d][1] = e /\ serving[d][2] = m
      BY <2>2
    <3>2. answered' = [answered EXCEPT ![e] = @ \cup {m}]
      BY <1>3, <3>1 DEF Answer
    <3> QED
      BY <1>0, <3>2 DEF AnswerType
  <2>5. \A u \in Dispatchers : serving'[u] = serving[u] \/ serving'[u] = <<>>
    BY <1>0, <1>3 DEF Answer, AnswerType
  <2>6. <<c, n>> # <<>>
    OBVIOUS
  <2> QED
    BY <2>3, <2>4, <2>5, <2>6 DEF Handed
<1> QED
  BY <1>1, <1>2, <1>3, AnswerFrame

(* Only its write's end and the step after it change what the responder    *)
(* has written.                                                            *)
LEMMA WrittenKept ==
  ASSUME IInv, Step, NEW c \in Conns, ~WriteDone, ~WriteFailed,
         ~\E e \in Conns : WriteCompletes(e) /\ writing[e][1] = Responder
  PROVE  Written(c)' <=> Written(c)
<1>0. FiberType /\ FiberInv /\ Responder \in Fibers
  BY TypeParts DEF IInv, Fibers
<1>1. CASE PickResponse
  <2>1. pc[Responder] = "scan" /\ result' = result
    BY <1>1, Writers
  <2>2. result[Responder] = None
    BY <1>0, <2>1 DEF FiberInv, FiberPart
  <2> QED
    BY <2>1, <2>2 DEF Written, None
<1>2. CASE EndShutdown(Responder)
  BY <1>0, <1>2 DEF EndShutdown, Move, Written, FiberType
<1>3. CASE ~ResponderStep
  BY <1>3, ResponderFrame DEF Written
<1> QED
  BY <1>1, <1>2, <1>3 DEF ResponderStep

(* A connection none of whose numbers change.                              *)
SameNumbers(c) ==
  received'[c] = received[c] /\ queue'[c] = queue[c] /\ idx'[c] = idx[c] /\ Sent(c)' = Sent(c)

LEMMA WholeSame ==
  ASSUME IInv, Step, NEW c \in Conns, Whole(c), SameNumbers(c), Written(c)' <=> Written(c)
  PROVE  Whole(c)'
<1>1. First(c)' = First(c) /\ Hand(c)' = Hand(c) /\ Sent(c)' = Sent(c)
  BY DEF SameNumbers, First, Hand
<1>2. \A n \in Requests : First(c)' < n /\ n <= Hand(c)' => Handed(c, n)'
  BY <1>1, HandedKept DEF Whole
<1>3. received'[c] = IF Written(c)' THEN Sent(c)' + Len(queue'[c]) - 1
                                    ELSE Sent(c)' + Len(queue'[c])
  BY <1>1 DEF Whole, SameNumbers
<1>4. idx'[c] <= Len(queue'[c])
  BY DEF Whole, SameNumbers
<1> QED
  BY <1>2, <1>3, <1>4 DEF Whole

LEMMA WholeRead ==
  ASSUME IInv, Step, NEW c \in Conns, Whole(c), NEW r \in Readers, ReadRequest(r), at[r] = c,
         Written(c)' <=> Written(c)
  PROVE  Whole(c)'
<1>0. QueueType /\ WireType /\ FiberType
  BY TypeParts DEF IInv
<1>1. received' = [received EXCEPT ![c] = received[c] + 1] /\ Len(queue'[c]) = Len(queue[c]) + 1
  BY ReadFacts
<1>2. received'[c] = received[c] + 1 /\ idx' = idx /\ out' = out
  BY <1>0, <1>1 DEF QueueType, ReadRequest, wire
<1>3. Sent(c)' = Sent(c) /\ Sent(c) \in Nat
  BY <1>0, <1>2, SentType DEF Sent, Responses
<1>4. /\ received[c] \in Nat /\ idx[c] \in Nat /\ Len(queue[c]) \in Nat
      /\ First(c) = received[c] - Len(queue[c]) /\ Hand(c) = First(c) + idx[c]
  BY <1>0, Numbers
<1>5. First(c)' = received'[c] - Len(queue'[c]) /\ Hand(c)' = First(c)' + idx'[c]
  BY NumbersNext, QueueTypeStep
<1>6. First(c)' = First(c) /\ Hand(c)' = Hand(c)
  BY <1>1, <1>2, <1>4, <1>5
<1>7. \A n \in Requests : First(c)' < n /\ n <= Hand(c)' => Handed(c, n)'
  BY <1>6, HandedKept DEF Whole
<1>8. received'[c] = IF Written(c)' THEN Sent(c)' + Len(queue'[c]) - 1
                                    ELSE Sent(c)' + Len(queue'[c])
  <2>1. received[c] = IF Written(c) THEN Sent(c) + Len(queue[c]) - 1 ELSE Sent(c) + Len(queue[c])
    BY DEF Whole
  <2>2. CASE Written(c)
    BY <1>1, <1>2, <1>3, <1>4, <2>1, <2>2
  <2>3. CASE ~Written(c)
    BY <1>1, <1>2, <1>3, <1>4, <2>1, <2>3
  <2> QED
    BY <2>2, <2>3
<1>9. idx'[c] <= Len(queue'[c])
  <2>1. idx[c] <= Len(queue[c])
    BY DEF Whole
  <2> QED
    BY <1>1, <1>2, <1>4, <2>1
<1> QED
  BY <1>7, <1>8, <1>9 DEF Whole

LEMMA WholeDispatch ==
  ASSUME IInv, Step, NEW c \in Conns, Whole(c), NEW d \in Dispatchers, Dispatch(d),
         idx' = [idx EXCEPT ![c] = idx[c] + 1], idx[c] < Len(queue[c]),
         serving'[d] = <<c, Hand(c) + 1>>, Hand(c) + 1 \in Requests,
         Written(c)' <=> Written(c)
  PROVE  Whole(c)'
<1>0. QueueType
  BY TypeParts DEF IInv
<1>1. idx'[c] = idx[c] + 1
  BY <1>0 DEF QueueType
<1>2. queue' = queue /\ received' = received /\ out' = out
  BY DEF Dispatch, wire
<1>3. /\ received[c] \in Nat /\ idx[c] \in Nat /\ Len(queue[c]) \in Nat /\ Hand(c) \in Int
      /\ First(c) = received[c] - Len(queue[c]) /\ Hand(c) = First(c) + idx[c]
  BY <1>0, Numbers
<1>4. First(c)' = received'[c] - Len(queue'[c]) /\ Hand(c)' = First(c)' + idx'[c]
  BY NumbersNext, QueueTypeStep
<1>5. First(c)' = First(c) /\ Hand(c)' = Hand(c) + 1
  BY <1>1, <1>2, <1>3, <1>4
<1>6. ASSUME NEW n \in Requests, First(c)' < n, n <= Hand(c)' PROVE Handed(c, n)'
  <2>1. n <= Hand(c) \/ n = Hand(c) + 1
    BY <1>3, <1>5, <1>6, MessageTypes
  <2>2. CASE n <= Hand(c)
    BY <1>5, <1>6, <2>2, HandedKept DEF Whole
  <2>3. CASE n = Hand(c) + 1
    BY <2>3 DEF Handed
  <2> QED
    BY <2>1, <2>2, <2>3
<1>7. idx'[c] <= Len(queue'[c])
  BY <1>1, <1>2, <1>3
<1>8. received'[c] = IF Written(c)' THEN Sent(c)' + Len(queue'[c]) - 1
                                    ELSE Sent(c)' + Len(queue'[c])
  BY <1>2 DEF Whole, Sent, Responses
<1> QED
  BY <1>6, <1>7, <1>8 DEF Whole

LEMMA WholeDone ==
  ASSUME IInv, Step, NEW c \in Conns, Whole(c), WriteDone, at[Responder] = c
  PROVE  Whole(c)'
<1>0. QueueType /\ WireType /\ FiberType /\ Responder \in Fibers
  BY TypeParts DEF IInv, Fibers
<1>1. /\ queue[c] # <<>> /\ pc[Responder] = "write" /\ result[Responder] = "ok"
      /\ queue' = [queue EXCEPT ![c] = Tail(queue[c])] /\ idx' = [idx EXCEPT ![c] = idx[c] - 1]
      /\ result' = [result EXCEPT ![Responder] = None] /\ received' = received /\ out' = out
  BY WriteDoneFacts
<1>2. Written(c)
  BY <1>1 DEF Written
<1>3. ~Written(c)'
  BY <1>0, <1>1 DEF Written, FiberType, None
<1>4. queue[c] \in Seq(Requests)
  BY <1>0 DEF QueueType
<1>5. Len(Tail(queue[c])) = Len(queue[c]) - 1
  BY <1>1, <1>4, TailFacts
<1>6. idx'[c] = idx[c] - 1 /\ Len(queue'[c]) = Len(queue[c]) - 1
  BY <1>0, <1>1, <1>5 DEF QueueType
<1>7. /\ received[c] \in Nat /\ idx[c] \in Nat /\ Len(queue[c]) \in Nat
      /\ First(c) \in Int /\ Hand(c) \in Int
      /\ First(c) = received[c] - Len(queue[c]) /\ Hand(c) = First(c) + idx[c]
  BY <1>0, Numbers
<1>8. First(c)' = received'[c] - Len(queue'[c]) /\ Hand(c)' = First(c)' + idx'[c]
  BY NumbersNext, QueueTypeStep
<1>9. First(c)' = First(c) + 1 /\ Hand(c)' = Hand(c)
  BY <1>1, <1>6, <1>7, <1>8
<1>10. ASSUME NEW n \in Requests, First(c)' < n, n <= Hand(c)' PROVE Handed(c, n)'
  <2>1. First(c) < n /\ n <= Hand(c)
    BY <1>7, <1>9, <1>10, MessageTypes
  <2> QED
    BY <2>1, HandedKept DEF Whole
<1>11. Sent(c)' = Sent(c) /\ Sent(c) \in Nat
  BY <1>0, <1>1, SentType DEF Sent, Responses
<1>12. received[c] = Sent(c) + Len(queue[c]) - 1 /\ idx[c] <= Len(queue[c])
  BY <1>2 DEF Whole
<1>13. received'[c] = Sent(c)' + Len(queue'[c]) /\ idx'[c] <= Len(queue'[c])
  BY <1>1, <1>6, <1>7, <1>11, <1>12
<1> QED
  BY <1>3, <1>10, <1>13 DEF Whole

LEMMA WholeFails ==
  ASSUME IInv, Step, NEW c \in Conns, Whole(c), WriteFailed, at[Responder] = c
  PROVE  Cut(c)'
<1>0. ConnType /\ QueueType /\ AnswerType /\ WireType /\ FiberType /\ QueueInv /\ HandInv
      /\ Responder \in Fibers
  BY TypeParts DEF IInv, Fibers
<1>1. /\ pc[Responder] = "write" /\ result[Responder] = "failed"
      /\ keep' = [keep EXCEPT ![c] = FALSE] /\ queue' = [queue EXCEPT ![c] = <<>>]
      /\ pc' = [pc EXCEPT ![Responder] = "drain"]
      /\ received' = received /\ idx' = idx /\ out' = out
  BY DEF WriteFailed, Move, wire
<1>2. queue'[c] = <<>> /\ keep'[c] = FALSE /\ pc'[Responder] = "drain"
  BY <1>0, <1>1 DEF QueueType, ConnType, FiberType
<1>3. FrontAnswered(c, queue[c])
  BY <1>1 DEF IInv, FrontInv
<1>4. Len(queue[c]) >= 1 /\ idx[c] >= 1
  BY <1>0, <1>3, FrontFacts
<1>5. received[c] = Sent(c) + Len(queue[c])
  BY <1>1 DEF Whole, Written
<1>6. Sent(c)' = Sent(c) /\ Sent(c) \in Nat /\ received[c] \in Nat /\ Len(queue[c]) \in Nat
  BY <1>0, <1>1, SentType, Numbers DEF Sent, Responses
<1>7. Len(queue'[c]) = 0 /\ DOMAIN queue'[c] = {}
  BY <1>2
<1>8. received'[c] > Sent(c)' + Len(queue'[c])
  BY <1>1, <1>4, <1>5, <1>6, <1>7
<1>9. Dropped(c)'
  BY <1>8 DEF Dropped, Sent
<1>10. Len(queue'[c]) <= 1
  BY <1>7
<1> QED
  BY <1>1, <1>2, <1>4, <1>7, <1>9, <1>10 DEF Cut

LEMMA WholeCompletes ==
  ASSUME IInv, Step, NEW c \in Conns, Whole(c), WriteCompletes(c), writing[c][1] = Responder
  PROVE  Whole(c)'
<1> USE DEF conn
<1>0. QueueType /\ WireType /\ FiberType
  BY TypeParts DEF IInv
<1>1. PICK f \in Fibers, m \in Messages :
        /\ writing[c] = <<f, m>> /\ result[f] = None /\ at[f] = c /\ pc[f] = "write"
        /\ f = Responder => m \in Requests
        /\ \/ result'[f] = "ok" /\ out' = [out EXCEPT ![c] = Append(out[c], m)]
           \/ result'[f] = "failed" /\ out' = out
        /\ UNCHANGED <<queue, idx, received, pc, at>>
  BY CompletesFacts
<1>2. f = Responder /\ m \in Requests
  BY <1>1
<1>3. ~Written(c)
  BY <1>1, <1>2 DEF Written, None
<1>4. CASE out' = out /\ result'[f] = "failed"
  <2>1. ~Written(c)'
    BY <1>2, <1>4 DEF Written
  <2> QED
    BY <1>1, <1>3, <1>4, <2>1, WholeSame DEF SameNumbers, Sent, Responses
<1>5. CASE out' = [out EXCEPT ![c] = Append(out[c], m)] /\ result'[f] = "ok"
  <2>1. Written(c)'
    BY <1>1, <1>2, <1>5 DEF Written
  <2>2. out'[c] = Append(out[c], m)
    BY <1>0, <1>5 DEF WireType
  <2>3. Sent(c)' = Sent(c) + 1 /\ Sent(c) \in Nat
    BY <1>0, <1>2, <2>2, OutGrows, SentType
  <2>4. received[c] = Sent(c) + Len(queue[c]) /\ Len(queue[c]) \in Nat
    BY <1>0, <1>3, Numbers DEF Whole
  <2>5. received'[c] = Sent(c)' + Len(queue'[c]) - 1
    BY <1>1, <2>3, <2>4
  <2>6. First(c)' = First(c) /\ Hand(c)' = Hand(c)
    BY <1>1 DEF First, Hand
  <2>7. \A n \in Requests : First(c)' < n /\ n <= Hand(c)' => Handed(c, n)'
    BY <2>6, HandedKept DEF Whole
  <2>8. idx'[c] <= Len(queue'[c])
    BY <1>1 DEF Whole
  <2> QED
    BY <2>1, <2>5, <2>7, <2>8 DEF Whole
<1> QED
  BY <1>1, <1>4, <1>5

(* Only the responder's own write adds a response.                         *)
LEMMA SentKept ==
  ASSUME IInv, Step, NEW c \in Conns, ~(WriteCompletes(c) /\ writing[c][1] = Responder)
  PROVE  Sent(c)' = Sent(c)
<1>0. WireType
  BY TypeParts DEF IInv
<1>1. CASE out'[c] = out[c]
  BY <1>1 DEF Sent, Responses
<1>2. ASSUME NEW e \in Conns, WriteCompletes(e) PROVE Sent(c)' = Sent(c)
  <2>1. PICK f \in Fibers, m \in Messages :
          /\ writing[e] = <<f, m>>
          /\ f # Responder => m \notin Requests
          /\ out' = [out EXCEPT ![e] = Append(out[e], m)] \/ out' = out
    BY <1>2, CompletesFacts
  <2>2. CASE out' = out \/ e # c
    BY <1>0, <1>1, <2>1, <2>2 DEF WireType
  <2>3. CASE out' # out /\ e = c
    <3>1. writing[c][1] = f
      BY <2>1, <2>3
    <3>2. m \notin Requests
      BY <1>2, <2>1, <2>3, <3>1
    <3>3. out'[c] = Append(out[c], m)
      BY <1>0, <2>1, <2>3 DEF WireType
    <3> QED
      BY <1>0, <3>2, <3>3, OutGrows
  <2> QED
    BY <2>2, <2>3
<1> QED
  BY <1>1, <1>2, OutFrame

(* The two steps that end a write of the responder, seen from another      *)
(* connection.                                                             *)
LEMMA EndsElsewhere ==
  ASSUME IInv, Step, NEW c \in Conns, at[Responder] # c,
         \/ WriteDone \/ WriteFailed
         \/ \E e \in Conns : WriteCompletes(e) /\ writing[e][1] = Responder
  PROVE  /\ SameNumbers(c) /\ ~Written(c) /\ ~Written(c)'
         /\ ~(pc'[Responder] = "write" /\ at'[Responder] = c)
<1> USE DEF conn
<1>0. ConnType /\ QueueType /\ WireType /\ FiberType /\ FiberInv /\ Responder \in Fibers
  BY TypeParts DEF IInv, Fibers
<1>1. ~Written(c)
  BY DEF Written
<1>2. ~(WriteCompletes(c) /\ writing[c][1] = Responder)
  <2>1. SUFFICES ASSUME WriteCompletes(c), writing[c][1] = Responder PROVE FALSE
    OBVIOUS
  <2>2. writing[c] # <<>>
    BY <2>1 DEF WriteCompletes
  <2> QED
    BY <1>0, <2>1, <2>2 DEF FiberInv, WritePart
<1>3. Sent(c)' = Sent(c)
  BY <1>2, SentKept
<1>4. CASE WriteDone
  <2>1. PICK e \in Conns, q \in Seq(Requests) :
          /\ e = at[Responder]
          /\ queue' = [queue EXCEPT ![e] = q] /\ idx' = [idx EXCEPT ![e] = @ - 1]
          /\ received' = received
          /\ \/ BeginWrite(Responder, e, Head(q))
             \/ at' = [at EXCEPT ![Responder] = None]
             \/ at' = at
    BY <1>4, WriteDoneFacts
  <2>2. SameNumbers(c)
    BY <1>0, <1>3, <2>1 DEF SameNumbers, QueueType
  <2>3. at'[Responder] # c
    BY <1>0, <2>1, NamesAssumption DEF BeginWrite, FiberType
  <2> QED
    BY <1>1, <2>2, <2>3 DEF Written
<1>5. CASE WriteFailed
  <2>1. SameNumbers(c)
    BY <1>0, <1>3, <1>5 DEF WriteFailed, SameNumbers, QueueType
  <2>2. at' = at
    BY <1>5 DEF WriteFailed
  <2> QED
    BY <1>1, <2>1, <2>2 DEF Written
<1>6. CASE \E e \in Conns : WriteCompletes(e)
  BY <1>1, <1>3, <1>6 DEF WriteCompletes, SameNumbers, Written
<1> QED
  BY <1>4, <1>5, <1>6

LEMMA WholeStep ==
  ASSUME IInv, Step, NEW c \in Conns, Whole(c) PROVE Whole(c)' \/ Cut(c)'
<1> USE DEF conn
<1>0. QueueType /\ WireType /\ FiberType /\ FiberInv
  BY TypeParts DEF IInv
<1> DEFINE Ends == \/ WriteDone \/ WriteFailed
                   \/ \E e \in Conns : WriteCompletes(e) /\ writing[e][1] = Responder
<1>1. CASE Ends /\ at[Responder] # c
  BY <1>1, EndsElsewhere, WholeSame
<1>2. CASE Ends /\ at[Responder] = c
  <2>1. ASSUME NEW e \in Conns, WriteCompletes(e), writing[e][1] = Responder PROVE e = c
    <3>1. writing[e] # <<>>
      BY <2>1 DEF WriteCompletes
    <3> QED
      BY <1>0, <1>2, <2>1, <3>1 DEF FiberInv, WritePart
  <2> QED
    BY <1>2, <2>1, WholeDone, WholeFails, WholeCompletes
<1>3. CASE ~Ends
  <2>1. Written(c)' <=> Written(c)
    BY <1>3, WrittenKept
  <2>2. Sent(c)' = Sent(c)
    BY <1>3, SentKept
  <2>3. ASSUME NEW r \in Readers, ReadRequest(r) PROVE Whole(c)'
    <3>1. CASE at[r] = c
      BY <2>1, <2>3, <3>1, WholeRead
    <3>2. CASE at[r] # c
      <4>1. SameNumbers(c)
        BY <1>0, <2>2, <2>3, <3>2 DEF ReadRequest, SameNumbers, QueueType
      <4> QED
        BY <2>1, <4>1, WholeSame
    <3> QED
      BY <3>1, <3>2
  <2>4. ASSUME NEW d \in Dispatchers, Dispatch(d) PROVE Whole(c)'
    <3>1. PICK e \in Conns :
            /\ idx[e] < Len(queue[e]) /\ serving' = [serving EXCEPT ![d] = <<e, Hand(e) + 1>>]
            /\ idx' = [idx EXCEPT ![e] = idx[e] + 1] /\ Hand(e) + 1 \in Requests
            /\ queue' = queue /\ received' = received
      BY <2>4, DispatchFacts
    <3>2. CASE e = c
      <4>1. serving'[d] = <<c, Hand(c) + 1>>
        BY <3>1, <3>2, TypeParts DEF IInv, AnswerType
      <4> QED
        BY <2>1, <2>4, <3>1, <3>2, <4>1, WholeDispatch
    <3>3. CASE e # c
      <4>1. SameNumbers(c)
        BY <1>0, <2>2, <3>1, <3>3 DEF SameNumbers, QueueType
      <4> QED
        BY <2>1, <4>1, WholeSame
    <3> QED
      BY <3>2, <3>3
  <2>5. CASE UNCHANGED <<queue, received, idx>>
    BY <2>1, <2>2, <2>5, WholeSame DEF SameNumbers
  <2> QED
    BY <1>3, <2>3, <2>4, <2>5, QueueFrame, IdxFrame
<1> HIDE DEF Ends
<1> QED
  BY <1>1, <1>2, <1>3

(* keep_alive is not set again.                                            *)
LEMMA KeepFrame ==
  ASSUME IInv, Step, NEW c \in Conns, ~keep[c] PROVE ~keep'[c]
<1> USE DEF conn
<1>0. ConnType
  BY TypeParts DEF IInv
<1>1. ASSUME NEW r \in Readers, ReadRequest(r) PROVE ~keep'[c]
  <2>1. PICK b \in BOOLEAN : keep' = [keep EXCEPT ![at[r]] = @ /\ b]
    BY <1>1 DEF ReadRequest
  <2> QED
    BY <1>0, <2>1 DEF ConnType
<1>2. CASE WriteFailed
  BY <1>0, <1>2 DEF WriteFailed, ConnType
<1>3. ASSUME NEW r \in Readers, ReaderStep(r), ~ReadRequest(r) PROVE keep' = keep
  BY <1>3 DEF ReaderStep, Read, PickConn, SweepConns, RejectRequest, ReadTimeout, ReadEof,
              ReadRefused, EndReject, EndShutdown
<1>4. ASSUME \/ PickResponse \/ WriteDone \/ EndShutdown(Responder)
             \/ \E e \in Conns : Accept(e) \/ WriteCompletes(e)
             \/ \E d \in Dispatchers : Dispatch(d) \/ Answer(d)
      PROVE  keep' = keep
  BY <1>4 DEF PickResponse, WriteDone, EndShutdown, Accept, WriteCompletes, Dispatch, Answer
<1> QED
  BY <1>1, <1>2, <1>3, <1>4 DEF Step, ResponderStep

(* A request worker starts to read where it picked a readable connection.  *)
LEMMA ReadFrame ==
  ASSUME IInv, Step, NEW r \in Readers, pc'[r] = "read"
  PROVE  \/ pc[r] = "read" /\ at'[r] = at[r]
         \/ \E c \in Conns : at'[r] = c /\ keep[c]
<1> USE DEF conn, fiber
<1>0. ConnType /\ FiberType /\ r \in Fibers /\ r # Responder
  BY TypeParts, NamesAssumption DEF IInv, Fibers
<1>1. CASE PickConn(r)
  <2>1. PICK i \in DOMAIN clist : Readable(clist[i]) /\ at' = [at EXCEPT ![r] = clist[i]]
    BY <1>1 DEF PickConn
  <2>2. clist[i] \in Conns
    BY <1>0 DEF ConnType
  <2> QED
    BY <1>0, <2>1, <2>2 DEF Readable, FiberType
<1>2. ASSUME \/ ReadRequest(r) \/ ReadEof(r) \/ ReadRefused(r) \/ EndReject(r)
             \/ EndShutdown(r)
      PROVE  pc'[r] # "read"
  BY <1>0, <1>2 DEF ReadRequest, ReadEof, ReadRefused, EndReject, EndShutdown, Move, FiberType
<1>3. ASSUME RejectRequest(r) \/ ReadTimeout(r) PROVE pc'[r] # "read"
  <2>1. PICK m : BeginWrite(r, at[r], m)
    BY <1>3 DEF RejectRequest, ReadTimeout
  <2>2. PICK to \in {"write"} \cup Thrown : pc' = [pc EXCEPT ![r] = to]
    BY <2>1, BeginWriteFacts
  <2> QED
    BY <1>0, <2>2 DEF FiberType, Thrown
<1>4. CASE pc' = pc /\ at' = at
  BY <1>4
<1>5. ASSUME NEW f \in Readers, f # r, ReaderStep(f)
      PROVE  pc'[r] = pc[r] /\ at'[r] = at[r]
  <2>1. pc' = pc \/ \E to : pc' = [pc EXCEPT ![f] = to]
    BY <1>5 DEF ReaderStep, Read, PickConn, SweepConns, ReadRequest, RejectRequest, ReadTimeout,
                ReadEof, ReadRefused, EndReject, EndShutdown, BeginWrite, Move
  <2>2. at' = at \/ \E c : at' = [at EXCEPT ![f] = c]
    BY <1>5 DEF ReaderStep, Read, PickConn, SweepConns, ReadRequest, RejectRequest, ReadTimeout,
                ReadEof, ReadRefused, EndReject, EndShutdown, BeginWrite
  <2> QED
    BY <1>0, <1>5, <2>1, <2>2 DEF FiberType
<1>6. ASSUME \/ \E c \in Conns : Accept(c) \/ WriteCompletes(c)
             \/ SweepConns(r) \/ \E d \in Dispatchers : Dispatch(d) \/ Answer(d)
      PROVE  pc' = pc /\ at' = at
  BY <1>6 DEF Accept, WriteCompletes, SweepConns, Dispatch, Answer
<1>7. CASE ReaderStep(r)
  BY <1>1, <1>2, <1>3, <1>4, <1>6, <1>7 DEF ReaderStep, Read
<1>8. CASE ResponderStep
  <2>1. pc' = pc \/ \E to : pc' = [pc EXCEPT ![Responder] = to]
    BY <1>8 DEF ResponderStep, PickResponse, WriteDone, WriteFailed, EndShutdown, BeginWrite, Move
  <2>2. at' = at \/ \E c : at' = [at EXCEPT ![Responder] = c]
    BY <1>8 DEF ResponderStep, PickResponse, WriteDone, WriteFailed, EndShutdown, BeginWrite
  <2> QED
    BY <1>0, <2>1, <2>2 DEF FiberType
<1> QED
  BY <1>4, <1>5, <1>6, <1>7, <1>8 DEF Step

(* On a connection whose queue was dropped at most one request is still    *)
(* read, and nobody touches it.                                            *)
LEMMA CutRead ==
  ASSUME IInv, Step, NEW c \in Conns, Cut(c), NEW r \in Readers, ReadRequest(r), at[r] = c
  PROVE  Cut(c)'
<1> USE DEF conn, wire
<1>0. /\ ConnType /\ QueueType /\ AnswerType /\ WireType /\ FiberType /\ FiberInv /\ HandInv
      /\ ReaderInv /\ r \in Fibers /\ r # Responder /\ Responder \in Fibers
  BY TypeParts, NamesAssumption DEF IInv, Fibers
<1>1. /\ pc[r] = "read" /\ received[c] + 1 \in Requests
      /\ received' = [received EXCEPT ![c] = received[c] + 1]
      /\ Len(queue'[c]) = Len(queue[c]) + 1
      /\ queue'[c][Len(queue[c]) + 1] = received[c] + 1
      /\ DOMAIN queue'[c] = 1 .. Len(queue[c]) + 1
  BY ReadFacts
<1>2. queue[c] = <<>>
  BY <1>1 DEF Cut
<1>3. Len(queue[c]) = 0
  BY <1>2
<1>4. Len(queue'[c]) = 1 /\ queue'[c][1] = received[c] + 1 /\ DOMAIN queue'[c] = 1 .. 1
  BY <1>1, <1>3
<1>5. received'[c] = received[c] + 1 /\ received[c] \in Nat
  BY <1>0, <1>1 DEF QueueType
<1>6. idx' = idx /\ out' = out /\ answered' = answered /\ serving' = serving
      /\ pc' = [pc EXCEPT ![r] = "scan"] /\ at' = [at EXCEPT ![r] = None]
  BY DEF ReadRequest, Move
<1>7. Sent(c)' = Sent(c) /\ Sent(c) \in Nat
  BY <1>0, <1>6, SentType DEF Sent, Responses
<1>8. received[c] > Sent(c) + 0
  BY <1>3 DEF Cut, Dropped, Sent
<1>9. received'[c] > Sent(c)' + Len(queue'[c])
  BY <1>4, <1>5, <1>7, <1>8
<1>10. Dropped(c)'
  BY <1>9 DEF Dropped, Sent
<1>11. ~keep'[c] /\ idx'[c] >= 1 /\ Len(queue'[c]) <= 1
  BY <1>4, <1>6, KeepFrame DEF Cut
<1>12. ~Handed(c, received[c] + 1)
  <2>1. ~(received[c] + 1 <= received[c])
    BY <1>5
  <2> QED
    BY <1>0, <1>1, <2>1 DEF Handed, HandInv
<1>13. ASSUME NEW i \in DOMAIN queue'[c] PROVE ~Handed(c, queue[c][i])'
  <2>1. queue'[c][i] = received[c] + 1
    BY <1>4
  <2> QED
    BY <1>6, <1>12, <2>1 DEF Handed
<1>14. ASSUME NEW s \in Readers, pc'[s] = "read", at'[s] = c PROVE FALSE
  <2>1. s # r
    BY <1>0, <1>6, <1>14 DEF FiberType
  <2>2. s \in Fibers
    BY DEF Fibers
  <2>3. at[s] = at[r] /\ at[r] # None
    BY <1>0, <1>6, <1>14, <2>1, <2>2, NamesAssumption DEF FiberType
  <2> QED
    BY <1>0, <2>1, <2>3 DEF ReaderInv
<1>15. pc'[Responder] = pc[Responder] /\ at'[Responder] = at[Responder]
  BY <1>0, <1>6 DEF FiberType
<1> QED
  BY <1>10, <1>11, <1>13, <1>14, <1>15 DEF Cut

LEMMA CutStep ==
  ASSUME IInv, Step, NEW c \in Conns, Cut(c), ~\E r \in Readers : ReadRequest(r) /\ at[r] = c
  PROVE  Cut(c)'
<1> USE DEF conn
<1>0. /\ ConnType /\ QueueType /\ AnswerType /\ WireType /\ FiberType /\ FiberInv
      /\ Responder \in Fibers
  BY TypeParts DEF IInv, Fibers
<1>1. queue[c] \in Seq(Requests) /\ Len(queue[c]) \in Nat /\ idx[c] \in Nat
      /\ DOMAIN queue[c] = 1 .. Len(queue[c])
  BY <1>0 DEF QueueType
<1>2. ~FrontAnswered(c, queue[c])
  <2>1. SUFFICES ASSUME queue[c] # <<>> PROVE ~(Head(queue[c]) \in answered[c])
    BY DEF FrontAnswered
  <2>2. 1 \in DOMAIN queue[c] /\ Head(queue[c]) = queue[c][1]
    BY <1>1, <2>1
  <2> QED
    BY <2>2 DEF Cut, Handed
<1>3. WriteDone \/ WriteFailed => at[Responder] # c
  BY DEF Cut, WriteDone, WriteFailed
<1>4. ASSUME NEW e \in Conns, WriteCompletes(e), writing[e][1] = Responder
      PROVE  e # c /\ at[Responder] # c
  <2>1. writing[e] # <<>>
    BY <1>4 DEF WriteCompletes
  <2> QED
    BY <1>0, <1>4, <2>1 DEF FiberInv, WritePart, Cut
<1>5. Sent(c)' = Sent(c)
  BY <1>4, SentKept
<1>6. ASSUME NEW d \in Dispatchers, Dispatch(d)
      PROVE  SameNumbers(c) /\ \A n : serving'[d] # <<c, n>>
  <2>1. PICK e \in Conns : /\ idx[e] < Len(queue[e])
                           /\ serving' = [serving EXCEPT ![d] = <<e, Hand(e) + 1>>]
                           /\ idx' = [idx EXCEPT ![e] = idx[e] + 1]
                           /\ queue' = queue /\ received' = received
    BY <1>6, DispatchFacts
  <2>2. e # c
    BY <1>1, <2>1 DEF Cut
  <2>3. SameNumbers(c)
    BY <1>0, <1>5, <2>1, <2>2 DEF SameNumbers, QueueType
  <2>4. serving'[d] = <<e, Hand(e) + 1>>
    BY <1>0, <2>1 DEF AnswerType
  <2> QED
    BY <2>2, <2>3, <2>4
<1>7. SameNumbers(c)
  <2>1. CASE WriteDone \/ WriteFailed
    BY <1>3, <2>1, EndsElsewhere
  <2>2. ASSUME NEW r \in Readers, ReadRequest(r) PROVE SameNumbers(c)
    BY <1>0, <1>5, <2>2 DEF ReadRequest, SameNumbers, QueueType
  <2>3. CASE UNCHANGED <<queue, received, idx>>
    BY <1>5, <2>3 DEF SameNumbers
  <2> QED
    BY <1>6, <2>1, <2>2, <2>3, QueueFrame, IdxFrame
<1>8. Dropped(c)' /\ ~keep'[c] /\ idx'[c] >= 1 /\ Len(queue'[c]) <= 1
  BY <1>7, KeepFrame DEF Cut, SameNumbers, Dropped, Sent
<1>9. ASSUME NEW r \in Readers, pc'[r] = "read", at'[r] = c PROVE queue'[c] = <<>>
  <2>1. pc[r] = "read" /\ at[r] = c
    BY <1>9, ReadFrame DEF Cut
  <2> QED
    BY <1>7, <2>1 DEF Cut, SameNumbers
<1>10. ASSUME NEW i \in DOMAIN queue'[c] PROVE ~Handed(c, queue[c][i])'
  <2>1. queue'[c] = queue[c] /\ queue[c][i] \in Requests /\ ~Handed(c, queue[c][i])
    BY <1>1, <1>7 DEF Cut, SameNumbers
  <2>2. PICK n \in Requests : n = queue[c][i]
    BY <2>1
  <2>3. ~Handed(c, n)'
    BY <1>6, <2>1, <2>2, HandedOnly
  <2> QED
    BY <2>1, <2>2, <2>3 DEF Handed
<1>11. ~(pc'[Responder] = "write" /\ at'[Responder] = c)
  <2>1. CASE WriteDone \/ WriteFailed
    BY <1>3, <2>1, EndsElsewhere
  <2>2. CASE PickResponse
    <3>1. PICK e \in Conns : FrontAnswered(e, queue[e]) /\ BeginWrite(Responder, e, Head(queue[e]))
      BY <2>2, Writers
    <3>2. at'[Responder] = e
      BY <1>0, <3>1 DEF BeginWrite, FiberType
    <3> QED
      BY <1>2, <3>1, <3>2
  <2>3. CASE EndShutdown(Responder)
    BY <1>0, <2>3 DEF EndShutdown, Move, FiberType
  <2>4. CASE ~ResponderStep
    BY <2>4, ResponderFrame DEF Cut
  <2> QED
    BY <2>1, <2>2, <2>3, <2>4 DEF ResponderStep
<1> QED
  BY <1>8, <1>9, <1>10, <1>11 DEF Cut

LEMMA CountStep == ASSUME IInv, Step PROVE CountInv'
<1>1. ASSUME NEW c \in Conns PROVE Whole(c)' \/ Cut(c)'
  BY WholeStep, CutRead, CutStep DEF IInv, CountInv
<1> QED
  BY <1>1 DEF CountInv
-----------------------------------------------------------------------------
(* The theorems.                                                           *)

LEMMA InitInv == Init => IInv
<1> SUFFICES ASSUME Init PROVE IInv
  OBVIOUS
<1>1. TypeOK
  <2>1. ConnType /\ QueueType /\ AnswerType /\ WireType /\ FiberType
    BY PipelineAssumption DEF Init, None, Requests, Messages, ConnType, QueueType, AnswerType,
       WireType, FiberType
  <2>2. ready \in BOOLEAN
    BY DEF Init
  <2> QED BY <2>1, <2>2, TypeParts
<1>2. QueueInv
  BY DEF Init, QueueInv
<1>3. FiberInv
  BY DEF Init, FiberInv, FiberPart, WritePart, Fibers, None
<1>4. ReaderInv /\ HandInv
  BY DEF Init, ReaderInv, HandInv, Fibers
<1>5. FrontInv
  BY DEF Init, FrontInv, Fibers
<1>6. ASSUME NEW c \in Conns PROVE Responses(c) = {} /\ Sent(c) = 0
  BY FS_EmptySet DEF Init, Responses, Sent
<1>7. ASSUME NEW c \in Conns PROVE Whole(c)
  <2>1. received[c] = 0 /\ queue[c] = <<>> /\ idx[c] = 0
    BY DEF Init
  <2>2. Len(queue[c]) = 0 /\ ~Written(c)
    BY <2>1 DEF Init, Written, Fibers, None
  <2>3. First(c) = 0 /\ Hand(c) = 0
    <3>1. First(c) = 0 - 0
      BY <2>1, <2>2 DEF First
    <3> QED
      BY <2>1, <3>1 DEF Hand
  <2> QED
    BY <1>6, <2>1, <2>2, <2>3, MessageTypes DEF Whole
<1>8. CountInv /\ ResponsesInOrder
  BY <1>6, <1>7 DEF CountInv, ResponsesInOrder
<1> QED
  BY <1>1, <1>2, <1>3, <1>4, <1>5, <1>8 DEF IInv

LEMMA NextInv == IInv /\ [Next]_vars => IInv'
<1> SUFFICES ASSUME IInv, [Next]_vars PROVE IInv'
  OBVIOUS
<1>1. CASE Step
  BY <1>1, TypeStep, QueueStep, FiberStep, HoldStep, HandStep, FrontStep, CountStep, OrderStep
     DEF IInv
<1>2. CASE UNCHANGED pipeline /\ ready' \in BOOLEAN
  <2>1. UNCHANGED <<clist, sock, cstate, keep, queue, idx, received, answered, writing, out,
                    pc, at, result, serving>>
    BY <1>2 DEF pipeline, conn, wire, fiber
  <2>2. TypeOK' /\ QueueInv' /\ FiberInv' /\ ReaderInv'
    BY <1>2, <2>1 DEF IInv, TypeOK, QueueInv, First, FiberInv, FiberPart, WritePart, ReaderInv
  <2>3. HandInv' /\ FrontInv'
    BY <2>1 DEF IInv, HandInv, Hand, First, FrontInv, FrontAnswered
  <2>4. ResponsesInOrder'
    BY <2>1 DEF IInv, ResponsesInOrder, Responses
  <2>5. ASSUME NEW c \in Conns
        PROVE  /\ First(c)' = First(c) /\ Hand(c)' = Hand(c) /\ Sent(c)' = Sent(c)
               /\ Dropped(c)' <=> Dropped(c)
               /\ Written(c)' <=> Written(c)
    BY <2>1 DEF First, Hand, Sent, Responses, Dropped, Written
  <2>6. ASSUME NEW c \in Conns PROVE (Whole(c) => Whole(c)') /\ (Cut(c) => Cut(c)')
    <3>1. \A n : Handed(c, n)' <=> Handed(c, n)
      BY <2>1 DEF Handed
    <3>2. Whole(c) => Whole(c)'
      BY <2>1, <2>5, <3>1 DEF Whole
    <3>3. \A i : Handed(c, queue[c][i])' <=> Handed(c, queue[c][i])
      BY <2>1 DEF Handed
    <3>4. Cut(c) => Cut(c)'
      BY <2>1, <2>5, <3>3 DEF Cut
    <3> QED
      BY <3>2, <3>4
  <2> QED
    BY <2>2, <2>3, <2>4, <2>6 DEF IInv, CountInv
<1>3. Step \/ (UNCHANGED pipeline /\ ready' \in BOOLEAN)
  BY DEF Next, SlavesChange, vars, IInv, TypeOK
<1> QED
  BY <1>1, <1>2, <1>3

(* The inductive invariant of the master's client side: types, queues that *)
(* hold consecutive requests, fibers and their writes, and the four        *)
(* numbers of every connection (netutils.ecs, the master_*_worker loops).  *)
THEOREM PipelineInvariant == Spec => []IInv
BY InitInv, NextInv, PTL DEF Spec

(* master_response_worker: the responses of a connection are those of its  *)
(* requests, in their order, without a gap or a repetition.                *)
THEOREM ResponsesOrdered == Spec => []ResponsesInOrder
<1>1. IInv => ResponsesInOrder
  BY DEF IInv
<1> QED
  BY <1>1, PipelineInvariant, PTL

(* master_request_worker and master_dispatch_worker: a connection is read  *)
(* by one fiber at a time and a request is handed out once.                *)
THEOREM FibersAlone == Spec => []OneFiberEach
<1>1. IInv => OneFiberEach
  BY DEF IInv, ReaderInv, HandInv, OneFiberEach
<1> QED
  BY <1>1, PipelineInvariant, PTL

(* request_idx separates what was handed out from what was not, on every   *)
(* connection whose queue was not dropped by a failed write.               *)
THEOREM IdxSeparates == Spec => []IdxExact
<1>1. ASSUME IInv, NEW c \in Conns, ~Dropped(c), NEW i \in DOMAIN queue[c]
      PROVE  /\ idx[c] <= Len(queue[c])
             /\ i <= idx[c] <=> Handed(c, queue[c][i])
  <2>1. QueueType /\ QueueInv /\ HandInv /\ Whole(c)
    BY <1>1, TypeParts DEF IInv, CountInv, Cut
  <2>2. /\ received[c] \in Nat /\ idx[c] \in Nat /\ Len(queue[c]) \in Nat
        /\ First(c) \in Int /\ Hand(c) = First(c) + idx[c]
    BY <2>1, Numbers
  <2>3. i \in Nat /\ i >= 1 /\ queue[c][i] \in Requests
    BY <2>1 DEF QueueType
  <2>4. queue[c][i] = First(c) + i
    BY <2>1 DEF QueueInv
  <2>5. ASSUME i <= idx[c] PROVE Handed(c, queue[c][i])
    <3>1. First(c) < queue[c][i] /\ queue[c][i] <= Hand(c)
      BY <2>2, <2>3, <2>4, <2>5
    <3> QED
      BY <2>1, <2>3, <3>1 DEF Whole
  <2>6. ASSUME Handed(c, queue[c][i]) PROVE i <= idx[c]
    <3>1. queue[c][i] <= Hand(c)
      BY <2>1, <2>3, <2>6 DEF Handed, HandInv
    <3> QED
      BY <2>2, <2>3, <2>4, <3>1
  <2> QED
    BY <2>1, <2>5, <2>6 DEF Whole
<1>2. ASSUME IInv, NEW c \in Conns, ~Dropped(c) PROVE idx[c] <= Len(queue[c])
  BY <1>2 DEF IInv, CountInv, Cut, Whole
<1>3. IInv => IdxExact
  BY <1>1, <1>2 DEF IdxExact, Handed
<1> QED
  BY <1>3, PipelineInvariant, PTL
=============================================================================

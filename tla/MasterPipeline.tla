--------------------------- MODULE MasterPipeline ---------------------------
(***************************************************************************)
(* The client side of the master process (netutils.ecs): connections with  *)
(* their request queues, the request workers that fill them, the dispatch  *)
(* workers that hand requests to slaves (SlavePool has that part), and the *)
(* response worker that writes the answers back.                           *)
(*                                                                         *)
(* Workers are fibers of one thread: an action is what a fiber does from   *)
(* one wait or yield to the next.  The completion of a write is a step of  *)
(* its own, because a thread worker runs its handler before the fiber that *)
(* waits for it is resumed.  A call of async.write or async.read_until     *)
(* that the socket refuses throws, and no caller catches it: the fiber     *)
(* ends there, at one of the two pcs in Thrown.                            *)
(***************************************************************************)
EXTENDS Integers, Sequences, FiniteSets, ListScan

CONSTANTS
  Conns,          \* client connections
  Readers,        \* master_request_worker fibers
  Dispatchers,    \* master_dispatch_worker fibers
  MaxRequests,    \* bound: requests a client sends on one connection
  MaxKeepAlive,   \* max_keep_alive
  MaxConnections  \* max_connections

ASSUME PipelineAssumption ==
  /\ IsFiniteSet(Conns) /\ MaxRequests \in Nat /\ MaxKeepAlive \in Nat \ {0}
  /\ MaxConnections \in Nat \ {0}

None      == "none"
Responder == "response_worker"
Fibers    == Readers \cup {Responder}
Requests  == 1 .. MaxRequests
ErrorResponse   == 0   \* compose_response(code), among the requests' numbers
TimeoutResponse == -1  \* compose_response(code_408)
Messages == TimeoutResponse .. MaxRequests

ASSUME NamesAssumption == None \notin Conns /\ Responder \notin Readers

VARIABLES
  clist,      \* conn_list
  sock,       \* each connection's socket: new, open, closed
  cstate,     \* http_conn.state: established, busy, closed
  keep,       \* http_conn.keep_alive
  queue,      \* http_conn.request_queue, by the request's number
  idx,        \* http_conn.request_idx
  received,   \* http_conn.request_count: requests read so far
  answered,   \* requests whose session.response is set
  writing,    \* the outstanding async.write: its fiber and message, or <<>>
  out,        \* what the client received
  pc, at,     \* each fiber's position and connection
  result,     \* how the fiber's last write ended
  serving,    \* the request a dispatch worker is waiting for
  ready       \* master_pick_slave finds a ready slave (SlavePool has which)

conn     == <<sock, cstate, keep, queue, idx, received>>
fiber    == <<pc, at, result>>
wire     == <<writing, out>>
pipeline == <<clist, conn, answered, wire, fiber, serving>>
vars     == <<pipeline, ready>>

Thrown == {"overlap", "refused"}

Init ==
  /\ clist = <<>>
  /\ sock = [c \in Conns |-> "new"] /\ cstate = [c \in Conns |-> "established"]
  /\ keep = [c \in Conns |-> TRUE] /\ queue = [c \in Conns |-> <<>>]
  /\ idx = [c \in Conns |-> 0] /\ received = [c \in Conns |-> 0]
  /\ answered = [c \in Conns |-> {}]
  /\ writing = [c \in Conns |-> <<>>] /\ out = [c \in Conns |-> <<>>]
  /\ pc = [f \in Fibers |-> "scan"] /\ at = [f \in Fibers |-> None]
  /\ result = [f \in Fibers |-> None]
  /\ serving = [d \in Dispatchers |-> <<>>] /\ ready = FALSE

Move(f, to) == pc' = [pc EXCEPT ![f] = to]

(* A safe_shutdown is under way: the socket admits nothing.                *)
Draining(c) == sock[c] = "open" /\ \E f \in Fibers : pc[f] = "drain" /\ at[f] = c

(* async.write: refused while another write or a shutdown is under way.    *)
BeginWrite(f, c, m) ==
  /\ at' = [at EXCEPT ![f] = c]
  /\ \/ Draining(c) /\ Move(f, "refused") /\ UNCHANGED writing
     \/ ~Draining(c) /\ writing[c] # <<>> /\ Move(f, "overlap") /\ UNCHANGED writing
     \/ /\ ~Draining(c) /\ writing[c] = <<>>
        /\ Move(f, "write") /\ writing' = [writing EXCEPT ![c] = <<f, m>>]
-----------------------------------------------------------------------------
(* master_accept_worker.                                                   *)
Accept(c) ==
  /\ sock[c] = "new" /\ Len(clist) < MaxConnections
  /\ sock' = [sock EXCEPT ![c] = "open"]
  /\ clist' = Append(clist, c)
  /\ UNCHANGED <<cstate, keep, queue, idx, received, answered, wire, fiber, serving, ready>>
-----------------------------------------------------------------------------
(* master_request_worker.                                                  *)

Dead(c)     == cstate[c] = "closed" \/ sock[c] = "closed"
Readable(c) == ~Dead(c) /\ cstate[c] = "established" /\ keep[c]

(* The dead connections among the first k are erased; the list is the      *)
(* others with rest behind them.                                           *)
EraseDead(k, rest) ==
  \E kept \in Listings({i \in 1 .. k : ~Dead(clist[i])}) : clist' = At(clist, kept) \o rest

(* Mutant: the connection is not marked busy.                              *)
PickConnIdle(r) ==
  /\ pc[r] = "scan"
  /\ \E i \in DOMAIN clist :
       /\ Readable(clist[i]) /\ \A j \in 1 .. i - 1 : ~Readable(clist[j])
       /\ EraseDead(i - 1, Append(SubSeq(clist, i + 1, Len(clist)), clist[i]))
       /\ at' = [at EXCEPT ![r] = clist[i]]
  /\ Move(r, "read")
  /\ UNCHANGED <<conn, answered, wire, result, serving, ready>>

(* The scan erases dead connections up to the first readable one, which    *)
(* moves to the back and is marked busy; the read starts at once.          *)
PickConn(r) ==
  /\ pc[r] = "scan"
  /\ \E i \in DOMAIN clist :
       /\ Readable(clist[i]) /\ \A j \in 1 .. i - 1 : ~Readable(clist[j])
       /\ EraseDead(i - 1, Append(SubSeq(clist, i + 1, Len(clist)), clist[i]))
       /\ cstate' = [cstate EXCEPT ![clist[i]] = "busy"]
       /\ at' = [at EXCEPT ![r] = clist[i]]
  /\ Move(r, "read")
  /\ UNCHANGED <<sock, keep, queue, idx, received, answered, wire, result, serving, ready>>

(* No readable connection: the scan only erases the dead ones.             *)
SweepConns(r) ==
  /\ pc[r] = "scan"
  /\ \A i \in DOMAIN clist : ~Readable(clist[i])
  /\ \E i \in DOMAIN clist : Dead(clist[i])
  /\ EraseDead(Len(clist), <<>>)
  /\ UNCHANGED <<conn, answered, wire, fiber, serving, ready>>

(* read_http_header returns a session, from what it had buffered even if   *)
(* the socket was closed meanwhile; the connection is told to close by the *)
(* client or by max_keep_alive.                                            *)
ReadRequest(r) ==
  LET c == at[r] n == received[c] + 1
  IN /\ pc[r] = "read" /\ received[c] < MaxRequests
     /\ received' = [received EXCEPT ![c] = n]
     /\ \E close \in BOOLEAN :
          keep' = [keep EXCEPT ![c] = @ /\ ~close /\ n < MaxKeepAlive]
     /\ queue' = [queue EXCEPT ![c] = Append(@, n)]
     /\ cstate' = [cstate EXCEPT ![c] = "established"]
     /\ Move(r, "scan") /\ at' = [at EXCEPT ![r] = None]
     /\ UNCHANGED <<clist, sock, idx, answered, wire, result, serving, ready>>

(* The request is malformed or the read fails: an error response is        *)
(* written straight to the socket.                                         *)
RejectRequest(r) ==
  /\ pc[r] = "read"
  /\ BeginWrite(r, at[r], ErrorResponse)
  /\ UNCHANGED <<clist, conn, answered, out, result, serving, ready>>

(* The keep-alive deadline of the read has passed: a 408 is written.       *)
ReadTimeout(r) ==
  /\ pc[r] = "read"
  /\ BeginWrite(r, at[r], TimeoutResponse)
  /\ UNCHANGED <<clist, conn, answered, out, result, serving, ready>>

(* The client has finished sending, or reset the connection.               *)
ReadEof(r) ==
  /\ pc[r] = "read"
  /\ Move(r, "drain")
  /\ UNCHANGED <<clist, conn, answered, wire, at, result, serving, ready>>

(* The next line is to be read from a socket that is being shut down.      *)
ReadRefused(r) ==
  /\ pc[r] = "read" /\ Draining(at[r])
  /\ Move(r, "refused")
  /\ UNCHANGED <<clist, conn, answered, wire, at, result, serving, ready>>

(* The error response has been written or not: safe_shutdown follows.      *)
EndReject(r) ==
  /\ pc[r] = "write" /\ result[r] # None
  /\ Move(r, "drain") /\ result' = [result EXCEPT ![r] = None]
  /\ UNCHANGED <<clist, conn, answered, wire, at, serving, ready>>

(* safe_shutdown returns, true or false, and the connection is marked.     *)
EndShutdown(f) ==
  LET c == at[f]
  IN /\ pc[f] = "drain"
     /\ \/ writing[c] = <<>> /\ sock' = [sock EXCEPT ![c] = "closed"]
        \/ UNCHANGED sock
     /\ cstate' = [cstate EXCEPT ![c] = "closed"]
     /\ Move(f, "scan") /\ at' = [at EXCEPT ![f] = None]
     /\ UNCHANGED <<clist, keep, queue, idx, received, answered, wire, result, serving, ready>>
-----------------------------------------------------------------------------
(* master_dispatch_worker, the connection's side.                          *)

(* The slaves, who come, go, are taken and given back: external here.      *)
SlavesChange == ready' = ~ready /\ UNCHANGED pipeline

(* With a ready slave: the first connection in the list with a request     *)
(* that is not dispatched yet.  Without one the worker yields and looks    *)
(* again, for as long as it takes.                                         *)
Dispatch(d) ==
  /\ serving[d] = <<>> /\ ready /\ ready' \in BOOLEAN
  /\ \E i \in DOMAIN clist :
       LET c == clist[i]
       IN /\ idx[c] < Len(queue[c])
          /\ \A j \in 1 .. i - 1 : idx[clist[j]] >= Len(queue[clist[j]])
          /\ serving' = [serving EXCEPT ![d] = <<c, queue[c][idx[c] + 1]>>]
          /\ idx' = [idx EXCEPT ![c] = @ + 1]
  /\ UNCHANGED <<clist, sock, cstate, keep, queue, received, answered, wire, fiber>>

(* session.response is set: by a slave, or to an error.                    *)
Answer(d) ==
  /\ serving[d] # <<>>
  /\ answered' = [answered EXCEPT ![serving[d][1]] = @ \cup {serving[d][2]}]
  /\ serving' = [serving EXCEPT ![d] = <<>>]
  /\ UNCHANGED <<clist, conn, wire, fiber, ready>>
-----------------------------------------------------------------------------
(* master_response_worker.                                                 *)

FrontAnswered(c, q) == q # <<>> /\ Head(q) \in answered[c]

(* It serves the first connection that has any request queued; while that  *)
(* one's front request is not answered it only yields and looks again.     *)
PickResponse ==
  /\ pc[Responder] = "scan"
  /\ \E i \in DOMAIN clist :
       /\ \A j \in 1 .. i - 1 : queue[clist[j]] = <<>>
       /\ FrontAnswered(clist[i], queue[clist[i]])
       /\ BeginWrite(Responder, clist[i], Head(queue[clist[i]]))
  /\ UNCHANGED <<clist, conn, answered, out, result, serving, ready>>

(* Mutant: request_idx keeps its value when the queue moves on.            *)
WriteDoneKeepsIdx ==
  LET c == at[Responder] q == Tail(queue[c])
  IN /\ pc[Responder] = "write" /\ result[Responder] = "ok"
     /\ queue' = [queue EXCEPT ![c] = q]
     /\ result' = [result EXCEPT ![Responder] = None]
     /\ Move(Responder, "scan") /\ at' = [at EXCEPT ![Responder] = None]
     /\ UNCHANGED <<clist, sock, cstate, keep, idx, received, answered, wire, serving, ready>>

(* The response is written: the queue and request_idx move on, and the     *)
(* next answered request is written before anybody else runs.              *)
WriteDone ==
  LET c == at[Responder] q == Tail(queue[c])
  IN /\ pc[Responder] = "write" /\ result[Responder] = "ok"
     /\ queue' = [queue EXCEPT ![c] = q] /\ idx' = [idx EXCEPT ![c] = @ - 1]
     /\ result' = [result EXCEPT ![Responder] = None]
     /\ \/ FrontAnswered(c, q) /\ BeginWrite(Responder, c, Head(q))
        \/ /\ ~FrontAnswered(c, q) /\ (q # <<>> \/ keep[c])
           /\ Move(Responder, "scan") /\ at' = [at EXCEPT ![Responder] = None]
           /\ UNCHANGED writing
        \/ /\ q = <<>> /\ ~keep[c]
           /\ Move(Responder, "drain") /\ UNCHANGED <<at, writing>>
     /\ UNCHANGED <<clist, sock, cstate, keep, received, answered, out, serving, ready>>

(* Mutant: a failed write takes its request out of the queue as well.      *)
WriteFailedPops ==
  LET c == at[Responder]
  IN /\ pc[Responder] = "write" /\ result[Responder] = "failed"
     /\ queue' = [queue EXCEPT ![c] = Tail(@)]
     /\ idx' = [idx EXCEPT ![c] = @ - 1]
     /\ result' = [result EXCEPT ![Responder] = None]
     /\ Move(Responder, "scan") /\ at' = [at EXCEPT ![Responder] = None]
     /\ UNCHANGED <<clist, sock, cstate, keep, received, answered, wire, serving, ready>>

(* The write failed: the queue is dropped and the connection shut down.    *)
WriteFailed ==
  LET c == at[Responder]
  IN /\ pc[Responder] = "write" /\ result[Responder] = "failed"
     /\ keep' = [keep EXCEPT ![c] = FALSE]
     /\ queue' = [queue EXCEPT ![c] = <<>>]
     /\ result' = [result EXCEPT ![Responder] = None]
     /\ Move(Responder, "drain")
     /\ UNCHANGED <<clist, sock, cstate, idx, received, answered, wire, at, serving, ready>>

(* The handler of an outstanding write runs.                               *)
WriteCompletes(c) ==
  LET f == writing[c][1]
  IN /\ writing[c] # <<>>
     /\ writing' = [writing EXCEPT ![c] = <<>>]
     /\ \/ /\ sock[c] = "open"
           /\ result' = [result EXCEPT ![f] = "ok"]
           /\ out' = [out EXCEPT ![c] = Append(@, writing[c][2])]
        \/ /\ result' = [result EXCEPT ![f] = "failed"]
           /\ UNCHANGED out
     /\ UNCHANGED <<clist, conn, answered, pc, at, serving, ready>>
-----------------------------------------------------------------------------
Read(r) == ReadRequest(r) \/ RejectRequest(r) \/ ReadTimeout(r) \/ ReadEof(r)

ReaderStep(r) ==
  \/ PickConn(r) \/ SweepConns(r) \/ Read(r) \/ ReadRefused(r)
  \/ EndReject(r) \/ EndShutdown(r)

ResponderStep == PickResponse \/ WriteDone \/ WriteFailed \/ EndShutdown(Responder)

Step ==
  \/ \E c \in Conns : Accept(c) \/ WriteCompletes(c)
  \/ \E r \in Readers : ReaderStep(r)
  \/ \E d \in Dispatchers : Dispatch(d) \/ Answer(d)
  \/ ResponderStep

Next == Step \/ SlavesChange

(* run() resumes every fiber in turn, and a read ends at its deadline at   *)
(* the latest.  Nothing is said of writes, of the slaves and of how long a *)
(* dispatch takes: the waits for them have no deadline.                    *)
Fairness ==
  /\ \A r \in Readers : WF_vars(ReaderStep(r))
  /\ WF_vars(ResponderStep)
  /\ \A d \in Dispatchers : WF_vars(Dispatch(d))

Spec == Init /\ [][Next]_vars
FairSpec == Spec /\ Fairness
-----------------------------------------------------------------------------
(* Properties.                                                             *)

(* Every variable has its type; request_idx never goes below zero.         *)
TypeOK ==
  /\ clist \in Seq(Conns)
  /\ sock \in [Conns -> {"new", "open", "closed"}]
  /\ cstate \in [Conns -> {"established", "busy", "closed"}]
  /\ keep \in [Conns -> BOOLEAN]
  /\ queue \in [Conns -> Seq(Requests)] /\ idx \in [Conns -> 0 .. MaxRequests]
  /\ received \in [Conns -> 0 .. MaxRequests]
  /\ answered \in [Conns -> SUBSET Requests]
  /\ writing \in [Conns -> {<<>>} \cup (Fibers \X Messages)]
  /\ out \in [Conns -> Seq(Messages)]
  /\ pc \in [Fibers -> {"scan", "read", "write", "drain"} \cup Thrown]
  /\ at \in [Fibers -> Conns \cup {None}]
  /\ result \in [Fibers -> {None, "ok", "failed"}]
  /\ serving \in [Dispatchers -> {<<>>} \cup (Conns \X Requests)] /\ ready \in BOOLEAN

(* The responses a client receives on a connection are those of its        *)
(* requests, in their order, without a gap or a repetition, however the    *)
(* dispatch workers finish and whatever error responses come in between.   *)
Responses(c) == {i \in DOMAIN out[c] : out[c][i] \in Requests}    \* their positions
ResponsesInOrder ==
  \A c \in Conns : \A i \in Responses(c) :
    out[c][i] = Cardinality(Responses(c) \cap 1 .. i)

(* request_idx separates the requests that were handed out from those that *)
(* were not, across the pop and the decrement of the response worker; the  *)
(* one exception is a connection whose queue was dropped.                  *)
Dropped(c) == received[c] > Cardinality(Responses(c)) + Len(queue[c])
IdxExact ==
  \A c \in Conns :
    \/ Dropped(c)
    \/ /\ idx[c] <= Len(queue[c])
       /\ \A i \in DOMAIN queue[c] :
            i <= idx[c] <=> \/ queue[c][i] \in answered[c]
                            \/ \E d \in Dispatchers : serving[d] = <<c, queue[c][i]>>

(* A connection is read by one request worker at a time, and a request is  *)
(* in the hands of one dispatch worker.                                    *)
OneFiberEach ==
  /\ \A r, s \in Readers : at[r] # None /\ at[r] = at[s] => r = s
  /\ \A d, e \in Dispatchers : serving[d] # <<>> /\ serving[d] = serving[e] => d = e

(* What the master waits for without a deadline: that a client reads what  *)
(* is written to it, that a dispatch ends, that a slave is ready.          *)
WritesEnd     == \A c \in Conns : []<>(writing[c] = <<>>)
DispatchesEnd == \A d \in Dispatchers : []<>(serving[d] = <<>>)
SlavesStay    == <>[]ready

(* As long as these come, a queued request is answered or its connection   *)
(* is closed: the response worker, which serves the first connection that  *)
(* has a request and looks at no other one before that is answered, does   *)
(* not starve the others.  Exempt are a server in which a fiber was ended  *)
(* by an exception and one in which some safe_shutdown gave up.            *)
Settled(c) == queue[c] = <<>> \/ sock[c] = "closed" \/ \E f \in Fibers : pc[f] \in Thrown
GaveUp(c)  == cstate[c] = "closed" /\ sock[c] # "closed"
RequestsSettled ==
  WritesEnd /\ DispatchesEnd /\ SlavesStay /\ [](\A c \in Conns : ~GaveUp(c))
    => \A c \in Conns : []<>Settled(c)

(* Slave processing time does not eat into the idle allowance: a client    *)
(* that waits for a response is not told that its connection was idle.     *)
IdleOnly ==
  \A c \in Conns : \A r \in Readers : writing[c] = <<r, TimeoutResponse>> => queue[c] = <<>>
=============================================================================

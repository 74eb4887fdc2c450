----------------------------- MODULE SlavePool -----------------------------
(***************************************************************************)
(* The slave side of the master process (netutils.ecs): the spawn worker   *)
(* that admits slave connections and numbers them, the dispatch workers    *)
(* that send requests and heartbeats over them, and the slaves themselves. *)
(*                                                                         *)
(* Workers are fibers of one thread: an action is what a fiber does from   *)
(* one wait to the next.  A slave that lost its connection comes back on a *)
(* new one, so a node stands for one connection and is used once.  What a  *)
(* message carries is its request's number; losing the connection at any   *)
(* point of a send, and every deadline, is a nondeterministic choice.  A   *)
(* send has no deadline: a dispatch worker may stay in it.                 *)
(***************************************************************************)
EXTENDS Naturals, Sequences, FiniteSets, ListScan

CONSTANTS
  Nodes,           \* slave connections (bound)
  Dispatchers,     \* master_dispatch_worker fibers
  Requests,        \* sessions taken from the connections' queues (bound)
  Retriable,       \* those whose method is GET, HEAD or OPTIONS
  DispatchRetry    \* master_dispatch_retry

ASSUME PoolAssumption ==
  /\ IsFiniteSet(Nodes) /\ IsFiniteSet(Requests) /\ Retriable \subseteq Requests
  /\ DispatchRetry \in Nat

None    == "none"
Query   == "SLAVE_HEALTH_QUERY"
Confirm == "SLAVE_HEALTH_CONFIRM"
Failure == "error"    \* compose_response(error_code)

ASSUME NamesAssumption ==
  None \notin Nodes /\ Requests \cap {None, Query, Confirm, Failure} = {}

VARIABLES
  slist,      \* slave_list
  nstate,     \* slave_node.state: ready, busy, error; None before it is listed
  rank,       \* slave_node.rank
  deprecated, \* deprecated_rank
  spawning,   \* the node in master_spawn_worker's handshake, or None
  slave,      \* the slave's end of each connection: new, up, gone
  inbox,      \* sent by the master and not read by the slave
  outbox,     \* sent by the slave and not read by the master
  session,    \* each request: new, queued, taken, done
  response,   \* session.response
  attempts,   \* session.dispatch_attempts
  executed,   \* how often slaves ran the request's handler
  pc,         \* each dispatcher: scan, query, heartbeat, send, await, seek
  node, job   \* its node and its request, or None

pool     == <<slist, nstate, rank, deprecated, spawning>>
link     == <<slave, inbox, outbox>>
requests == <<session, response, attempts, executed>>
disp     == <<pc, node, job>>
vars     == <<pool, link, requests, disp>>

Ranks == 0 .. Cardinality(Nodes)

Init ==
  /\ slist = <<>> /\ nstate = [n \in Nodes |-> None] /\ rank = [n \in Nodes |-> 0]
  /\ deprecated = <<>> /\ spawning = None
  /\ slave = [n \in Nodes |-> "new"]
  /\ inbox = [n \in Nodes |-> <<>>] /\ outbox = [n \in Nodes |-> <<>>]
  /\ session = [q \in Requests |-> "new"] /\ response = [q \in Requests |-> None]
  /\ attempts = [q \in Requests |-> 0] /\ executed = [q \in Requests |-> 0]
  /\ pc = [d \in Dispatchers |-> "scan"]
  /\ node = [d \in Dispatchers |-> None] /\ job = [d \in Dispatchers |-> None]
-----------------------------------------------------------------------------
(* master_spawn_worker.                                                    *)

(* Mutant: the recycled ranks are not looked at.                           *)
SpawnAcceptCounts(n) ==
  /\ spawning = None /\ slave[n] = "new"
  /\ spawning' = n /\ slave' = [slave EXCEPT ![n] = "up"]
  /\ rank' = [rank EXCEPT ![n] = Len(slist)]
  /\ UNCHANGED <<slist, nstate, deprecated, inbox, outbox, requests, disp>>

(* A connection is accepted; its rank is a recycled one or the list's size.*)
SpawnAccept(n) ==
  /\ spawning = None /\ slave[n] = "new"
  /\ spawning' = n /\ slave' = [slave EXCEPT ![n] = "up"]
  /\ \/ /\ deprecated # <<>>
        /\ rank' = [rank EXCEPT ![n] = Head(deprecated)]
        /\ deprecated' = Tail(deprecated)
     \/ /\ deprecated = <<>>
        /\ rank' = [rank EXCEPT ![n] = Len(slist)] /\ UNCHANGED deprecated
  /\ UNCHANGED <<slist, nstate, inbox, outbox, requests, disp>>

(* The slave answered the handshake.                                       *)
SpawnOk ==
  /\ spawning # None
  /\ slist' = Append(slist, spawning)
  /\ nstate' = [nstate EXCEPT ![spawning] = "ready"]
  /\ spawning' = None
  /\ UNCHANGED <<rank, deprecated, link, requests, disp>>

(* It did not, in time or correctly: the connection is shut down.          *)
SpawnFails ==
  /\ spawning # None
  /\ slave' = [slave EXCEPT ![spawning] = "gone"]
  /\ spawning' = None
  /\ UNCHANGED <<slist, nstate, rank, deprecated, inbox, outbox, requests, disp>>
-----------------------------------------------------------------------------
(* master_pick_slave.                                                      *)

FirstReady(i) ==
  /\ i \in DOMAIN slist /\ nstate[slist[i]] = "ready"
  /\ \A j \in 1 .. i - 1 : nstate[slist[j]] # "ready"

NoneReady == \A i \in DOMAIN slist : nstate[slist[i]] # "ready"

(* The nodes in error among the first k go, their ranks are recycled, and  *)
(* the list is the others with rest behind them.                           *)
Failed(k) == {i \in 1 .. k : nstate[slist[i]] = "error"}
Erase(k, rest) ==
  \E gone \in Listings(Failed(k)), kept \in Listings((1 .. k) \ Failed(k)) :
    /\ deprecated' = deprecated \o At(rank, At(slist, gone))
    /\ slist' = At(slist, kept) \o rest

(* The scan up to the first ready node, which moves to the back.           *)
Pick(i) ==
  /\ FirstReady(i)
  /\ Erase(i - 1, Append(SubSeq(slist, i + 1, Len(slist)), slist[i]))

(* The scan when no node is ready.                                         *)
Sweep(d) ==
  /\ pc[d] \in {"scan", "seek"} /\ NoneReady
  /\ Failed(Len(slist)) # {} /\ Erase(Len(slist), <<>>)
  /\ UNCHANGED <<nstate, rank, spawning, link, requests, disp>>
-----------------------------------------------------------------------------
(* master_dispatch_worker.                                                 *)

(* The node is marked busy and a send over it starts.                      *)
Engage(d, n, q, to) ==
  /\ nstate' = [nstate EXCEPT ![n] = "busy"]
  /\ node' = [node EXCEPT ![d] = n] /\ job' = [job EXCEPT ![d] = q]
  /\ pc' = [pc EXCEPT ![d] = to]

(* The wait for a send is over: the message reaches the slave's end, or    *)
(* the connection broke behind it.                                         *)
Send(d, m, to) ==
  /\ \/ slave[node[d]] = "up" /\ inbox' = [inbox EXCEPT ![node[d]] = Append(@, m)]
     \/ UNCHANGED inbox
  /\ pc' = [pc EXCEPT ![d] = to]
  /\ UNCHANGED <<pool, slave, outbox, requests, node, job>>

Release(d, to) ==
  /\ node' = [node EXCEPT ![d] = None]
  /\ pc' = [pc EXCEPT ![d] = to]

NoRequest == \A q \in Requests : session[q] # "queued"

(* A ready node and a request: the request is taken and sent.              *)
Dispatch(d) ==
  /\ pc[d] = "scan"
  /\ \E i \in DOMAIN slist, q \in Requests :
       /\ session[q] = "queued"
       /\ Pick(i) /\ Engage(d, slist[i], q, "send")
       /\ session' = [session EXCEPT ![q] = "taken"]
  /\ UNCHANGED <<rank, spawning, link, response, attempts, executed>>

(* The frame of the request and its body are written.                      *)
RequestSent(d) == pc[d] = "send" /\ Send(d, job[d], "await")

(* A ready node, no request: a heartbeat, unless the last one is recent.   *)
Heartbeat(d) ==
  /\ pc[d] = "scan" /\ NoRequest
  /\ \E i \in DOMAIN slist :
       /\ Pick(i)
       /\ \/ Engage(d, slist[i], None, "query")
          \/ UNCHANGED <<nstate, disp>>
  /\ UNCHANGED <<rank, spawning, link, requests>>

(* The query is written, or the write failed: its result is not looked at. *)
QuerySent(d) == pc[d] = "query" /\ Send(d, Query, "heartbeat")

HeartbeatOk(d) ==
  LET n == node[d]
  IN /\ pc[d] = "heartbeat" /\ outbox[n] # <<>> /\ Head(outbox[n]) = Confirm
     /\ outbox' = [outbox EXCEPT ![n] = Tail(@)]
     /\ nstate' = [nstate EXCEPT ![n] = "ready"]
     /\ Release(d, "scan")
     /\ UNCHANGED <<slist, rank, deprecated, spawning, slave, inbox, requests, job>>

(* Deadline, broken connection or another answer: the node is shut down.   *)
HeartbeatFails(d) ==
  /\ pc[d] = "heartbeat"
  /\ nstate' = [nstate EXCEPT ![node[d]] = "error"]
  /\ Release(d, "scan")
  /\ UNCHANGED <<slist, rank, deprecated, spawning, link, requests, job>>

Respond(d, r) ==
  /\ response' = [response EXCEPT ![job[d]] = r]
  /\ session' = [session EXCEPT ![job[d]] = "done"]
  /\ job' = [job EXCEPT ![d] = None]

(* A frame arrives on the node's connection: it becomes the response.      *)
AwaitOk(d) ==
  LET n == node[d]
  IN /\ pc[d] = "await" /\ outbox[n] # <<>>
     /\ outbox' = [outbox EXCEPT ![n] = Tail(@)]
     /\ Respond(d, Head(outbox[n]))
     /\ nstate' = [nstate EXCEPT ![n] = "ready"]
     /\ Release(d, "scan")
     /\ UNCHANGED <<slist, rank, deprecated, spawning, slave, inbox, attempts, executed>>

(* Mutant: every method is dispatched again.                               *)
GiveUpAnyMethod(d) ==
  LET q == job[d]
      again == attempts[q] + 1 <= DispatchRetry
  IN /\ nstate' = [nstate EXCEPT ![node[d]] = "error"]
     /\ attempts' = [attempts EXCEPT ![q] = @ + 1]
     /\ \/ again /\ Release(d, "seek") /\ UNCHANGED <<session, response, job>>
        \/ ~again /\ Release(d, "scan") /\ Respond(d, Failure)
     /\ UNCHANGED <<slist, rank, deprecated, spawning, link, executed>>

(* Mutant: the node goes back to the pool after a failure.                 *)
GiveUpKeepsNode(d) ==
  LET q == job[d]
      again == q \in Retriable /\ attempts[q] + 1 <= DispatchRetry
  IN /\ nstate' = [nstate EXCEPT ![node[d]] = "ready"]
     /\ attempts' = [attempts EXCEPT ![q] = @ + 1]
     /\ \/ again /\ Release(d, "seek") /\ UNCHANGED <<session, response, job>>
        \/ ~again /\ Release(d, "scan") /\ Respond(d, Failure)
     /\ UNCHANGED <<slist, rank, deprecated, spawning, link, executed>>

(* The node is shut down, and the request is dispatched again or answered  *)
(* with an error.                                                          *)
GiveUp(d) ==
  LET q == job[d]
      again == q \in Retriable /\ attempts[q] + 1 <= DispatchRetry
  IN /\ nstate' = [nstate EXCEPT ![node[d]] = "error"]
     /\ attempts' = [attempts EXCEPT ![q] = IF q \in Retriable THEN @ + 1 ELSE @]
     /\ \/ again /\ Release(d, "seek") /\ UNCHANGED <<session, response, job>>
        \/ ~again /\ Release(d, "scan") /\ Respond(d, Failure)
     /\ UNCHANGED <<slist, rank, deprecated, spawning, link, executed>>

(* The frame or the body could not be written ...                          *)
SendFails(d) == pc[d] = "send" /\ GiveUp(d)

(* ... or no answer came in time.                                          *)
AwaitFails(d) == pc[d] = "await" /\ GiveUp(d)

(* Mutant: the caller forgets to mark the node it was given.               *)
SeekUnmarked(d) ==
  /\ pc[d] = "seek"
  /\ \E i \in DOMAIN slist :
       Pick(i) /\ node' = [node EXCEPT ![d] = slist[i]] /\ pc' = [pc EXCEPT ![d] = "send"]
  /\ UNCHANGED <<nstate, rank, spawning, link, requests, job>>

(* Another node is ready within the budget ...                             *)
Seek(d) ==
  /\ pc[d] = "seek"
  /\ \E i \in DOMAIN slist : Pick(i) /\ Engage(d, slist[i], job[d], "send")
  /\ UNCHANGED <<rank, spawning, link, requests>>

(* Mutant: the wait starts afresh.                                         *)
SeekTimeoutRestarts(d) == pc[d] = "seek" /\ UNCHANGED vars

(* ... or none is.                                                         *)
SeekTimeout(d) ==
  /\ pc[d] = "seek"
  /\ Respond(d, Failure) /\ pc' = [pc EXCEPT ![d] = "scan"]
  /\ UNCHANGED <<pool, link, attempts, executed, node>>
-----------------------------------------------------------------------------
(* slave_worker.                                                           *)

Reply(n, m) ==
  \/ outbox' = [outbox EXCEPT ![n] = Append(@, m)]
  \/ UNCHANGED outbox

SlaveConfirms(n) ==
  /\ slave[n] = "up" /\ inbox[n] # <<>> /\ Head(inbox[n]) = Query
  /\ inbox' = [inbox EXCEPT ![n] = Tail(@)]
  /\ Reply(n, Confirm)
  /\ UNCHANGED <<pool, slave, requests, disp>>

(* The handler runs and its response is sent.                              *)
SlaveExecutes(n) ==
  /\ slave[n] = "up" /\ inbox[n] # <<>> /\ Head(inbox[n]) \in Requests
  /\ inbox' = [inbox EXCEPT ![n] = Tail(@)]
  /\ executed' = [executed EXCEPT ![Head(inbox[n])] = @ + 1]
  /\ Reply(n, Head(inbox[n]))
  /\ UNCHANGED <<pool, slave, session, response, attempts, disp>>

(* Its keep-alive timeout, a read error or its death: what was not read    *)
(* is lost, what was sent still arrives.                                   *)
SlaveLeaves(n) ==
  /\ slave[n] = "up"
  /\ slave' = [slave EXCEPT ![n] = "gone"] /\ inbox' = [inbox EXCEPT ![n] = <<>>]
  /\ UNCHANGED <<pool, outbox, requests, disp>>

(* A request worker queues a request (MasterPipeline).                     *)
Arrive(q) ==
  /\ session[q] = "new" /\ session' = [session EXCEPT ![q] = "queued"]
  /\ UNCHANGED <<pool, link, response, attempts, executed, disp>>
-----------------------------------------------------------------------------
DispatcherStep(d) ==
  \/ Sweep(d) \/ Dispatch(d) \/ Heartbeat(d) \/ QuerySent(d) \/ HeartbeatOk(d)
  \/ HeartbeatFails(d) \/ RequestSent(d) \/ SendFails(d) \/ AwaitOk(d) \/ AwaitFails(d) \/ Seek(d)

Next ==
  \/ \E n \in Nodes : SpawnAccept(n) \/ SlaveConfirms(n) \/ SlaveExecutes(n) \/ SlaveLeaves(n)
  \/ SpawnOk \/ SpawnFails
  \/ \E q \in Requests : Arrive(q)
  \/ \E d \in Dispatchers : DispatcherStep(d) \/ SeekTimeout(d)

(* run() resumes every fiber; every receive has a deadline, and so has the *)
(* search for another slave.  A send has none: nothing is said of its end. *)
Fairness ==
  \A d \in Dispatchers :
    /\ WF_vars(HeartbeatOk(d) \/ HeartbeatFails(d))
    /\ WF_vars(AwaitOk(d) \/ AwaitFails(d))
    /\ WF_vars(Seek(d) \/ SeekTimeout(d))

Spec == Init /\ [][Next]_vars
FairSpec == Spec /\ Fairness
-----------------------------------------------------------------------------
(* Properties.                                                             *)

(* Every variable has its type; dispatch_attempts is bounded.              *)
TypeOK ==
  /\ slist \in Seq(Nodes) /\ nstate \in [Nodes -> {None, "ready", "busy", "error"}]
  /\ rank \in [Nodes -> Ranks] /\ deprecated \in Seq(Ranks)
  /\ spawning \in Nodes \cup {None} /\ slave \in [Nodes -> {"new", "up", "gone"}]
  /\ inbox \in [Nodes -> Seq(Requests \cup {Query})]
  /\ outbox \in [Nodes -> Seq(Requests \cup {Confirm})]
  /\ session \in [Requests -> {"new", "queued", "taken", "done"}]
  /\ response \in [Requests -> Requests \cup {None, Confirm, Failure}]
  /\ attempts \in [Requests -> 0 .. DispatchRetry + 1]
  /\ executed \in [Requests -> Nat]
  /\ pc \in [Dispatchers -> {"scan", "query", "heartbeat", "send", "await", "seek"}]
  /\ node \in [Dispatchers -> Nodes \cup {None}] /\ job \in [Dispatchers -> Requests \cup {None}]

(* A request that is not idempotent is executed at most once, whatever     *)
(* slaves time out or die after executing it; an idempotent one at most    *)
(* once more than it was dispatched again.                                 *)
ExecutionBounded ==
  \A q \in Requests : executed[q] <= IF q \in Retriable THEN 1 + DispatchRetry ELSE 1

(* A client gets its own request's response or an error: neither the late  *)
(* answer of a slave that timed out nor a heartbeat's is taken for it, and *)
(* a response means that the handler did run.                              *)
AnswerMatches ==
  \A q \in Requests :
    /\ response[q] \in {None, Failure, q}
    /\ response[q] = q => executed[q] >= 1

(* A node is busy exactly while one dispatch worker works with it: no node *)
(* is shared by two, none stays busy for ever after a failure.             *)
NodesExact ==
  /\ \A n \in Nodes : nstate[n] = "busy" <=> \E d \in Dispatchers : node[d] = n
  /\ \A d, e \in Dispatchers : node[d] # None /\ node[d] = node[e] => d = e

(* No two listed slaves have the same rank, and no listed slave a rank     *)
(* that waits to be given out, however often slaves die and come back, as  *)
(* long as no handshake failed: that one loses the rank it was given.      *)
HandshakesOk == \A n \in Nodes \ {spawning} : slave[n] = "gone" => nstate[n] # None
RanksDistinct ==
  HandshakesOk =>
    /\ \A i, j \in DOMAIN slist : rank[slist[i]] = rank[slist[j]] => i = j
    /\ \A i \in DOMAIN slist, k \in DOMAIN deprecated : rank[slist[i]] # deprecated[k]

(* A request that was taken is answered, whatever slaves die, answer late  *)
(* or never, as long as each send ends: send_content and the write of the  *)
(* body wait without a deadline for the slave to read.                     *)
SendsEnd == \A d \in Dispatchers : []<>(pc[d] # "send")
TakenAnswered == SendsEnd => \A q \in Requests : session[q] = "taken" ~> response[q] # None
=============================================================================

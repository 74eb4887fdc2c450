----------------------------- MODULE TcpSocket ------------------------------
(***************************************************************************)
(* The admission protocol of tcp::socket (include/network.hpp) and the     *)
(* operations that run behind it: synchronous and asynchronous I/O,        *)
(* connect/accept, the TLS handshake, close/shutdown and safe_shutdown     *)
(* (network.cpp).                                                          *)
(*                                                                         *)
(* A task is one activity on the socket: a synchronous call, or an         *)
(* asynchronous call together with the completion handler that ends it.    *)
(* Every load, store and read-modify-write of an atomic is a step of its   *)
(* own, so the interleavings are those of OS threads; fibers, which only   *)
(* switch at cs_runtime_yield, have a subset of them.  The atomics are     *)
(* sequentially consistent here.  A call that throws before it changed     *)
(* anything is a stuttering step.                                          *)
(***************************************************************************)
EXTENDS Integers, FiniteSets

CONSTANTS
  Tasks,    \* activities that use the socket
  Ops       \* the operations the instance exercises

VARIABLES
  open,       \* sock.is_open()
  tlsStream,  \* tls_stream != nullptr
  tlsEnabled, \* tls_enabled
  excl,       \* exclusive_operation
  busy,       \* read_operation and write_operation, by direction
  jobs,       \* async_jobs
  op,         \* the operation a task is executing
  pc,         \* the step it is about to take
  via,        \* the transport its I/O goes through, once chosen
  cancelled   \* asynchronous operations that sock.cancel() has aborted

sockVars == <<open, tlsStream, tlsEnabled>>
gate     == <<excl, busy, jobs>>
local    == <<via, cancelled>>
vars     == <<sockVars, gate, pc, op, local>>
-----------------------------------------------------------------------------
Directions == {"read", "write"}

(* receive and read, async.read_until and async.read, send and write take  *)
(* the same steps; peek is available() and peer_closed(), which probe the  *)
(* raw socket; connect and accept differ in what opens the descriptor.     *)
ReadOps    == {"read", "async_read", "peek"}
WriteOps   == {"write", "async_write"}
IoOps      == ReadOps \cup WriteOps
TlsOps     == {"connect_ssl", "async_connect_ssl"}
ExclOps    == {"connect", "async_connect", "accept", "async_accept",
               "close", "shutdown"} \cup TlsOps
AsyncOps   == {"async_read", "async_write", "async_connect", "async_accept",
               "async_connect_ssl"}
AllOps     == IoOps \cup ExclOps \cup {"safe_shutdown"}

Direction(o) == IF o \in ReadOps THEN "read" ELSE "write"

ASSUME TasksAssumption == IsFiniteSet(Tasks)
ASSUME OpsAssumption   == Ops \subseteq AllOps

(* Program counters, grouped by what the task holds at them.               *)
AdmittedPcs == {"admitted", "get_tls_raw", "io", "reissue", "finish"}
ReservedPcs == {"load", "count", "recheck", "uncount", "unreserve", "clear_dir"}
                 \cup AdmittedPcs
ChangingPcs == {"clear_enabled", "drop_stream", "raw_close"}
SlotPcs     == {"held", "enable", "handshake", "xio", "xend"}
DrainedPcs  == {"drained", "tls_shutdown", "end_draining"}
OwnerPcs    == SlotPcs \cup DrainedPcs \cup ChangingPcs
ExclPcs     == {"xjobs", "xabort", "xrelease", "cancel", "drain", "give_up"}
                 \cup OwnerPcs
WaitPcs     == {"xcas", "dcas", "retry_cancel", "retry_wait", "retry_cas"}
Pcs         == {"idle", "publish"} \cup ReservedPcs \cup ExclPcs \cup WaitPcs

Init ==
  /\ open = FALSE /\ tlsStream = FALSE /\ tlsEnabled = FALSE
  /\ excl = FALSE /\ busy = [d \in Directions |-> FALSE] /\ jobs = 0
  /\ op = [t \in Tasks |-> "none"]
  /\ pc = [t \in Tasks |-> "idle"]
  /\ via = [t \in Tasks |-> "none"]
  /\ cancelled = {}

(* Task t starts operation o at a program counter.                         *)
Enter(t, o, to) ==
  /\ pc[t] = "idle"
  /\ pc' = [pc EXCEPT ![t] = to]
  /\ op' = [op EXCEPT ![t] = o]

(* Task t moves from one program counter to another; back at idle it has   *)
(* returned from its operation.                                            *)
Step(t, from, to) ==
  /\ pc[t] = from
  /\ pc' = [pc EXCEPT ![t] = to]
  /\ op' = [op EXCEPT ![t] = IF to = "idle" THEN "none" ELSE @]

(* Where an operation continues once its last reservation is released: an  *)
(* asynchronous one still has to store has_done in its state.              *)
After(t) == IF op[t] \in AsyncOps THEN "publish" ELSE "idle"
-----------------------------------------------------------------------------
(* I/O admission: begin_io_job, try_begin_io_job and finish_io_job.        *)

ReserveDirection(t) ==
  \E o \in Ops \cap IoOps :
    /\ ~busy[Direction(o)]
    /\ Enter(t, o, "load")
    /\ busy' = [busy EXCEPT ![Direction(o)] = TRUE]
    /\ UNCHANGED <<sockVars, excl, jobs, local>>

LoadExclusive(t) ==
  /\ Step(t, "load", IF excl THEN "unreserve" ELSE "count")
  /\ UNCHANGED <<sockVars, gate, local>>

CountJob(t) ==
  /\ Step(t, "count", "recheck")
  /\ jobs' = jobs + 1
  /\ UNCHANGED <<sockVars, excl, busy, local>>

(* Mutants: the second test keeps the job it counted; it is not made at    *)
(* all.                                                                    *)

RecheckKeepsJob(t) ==
  /\ Step(t, "recheck", IF excl THEN "unreserve" ELSE "admitted")
  /\ UNCHANGED <<sockVars, gate, local>>

RecheckSkipped(t) ==
  /\ Step(t, "recheck", "admitted")
  /\ UNCHANGED <<sockVars, gate, local>>

RecheckExclusive(t) ==
  /\ Step(t, "recheck", IF excl THEN "uncount" ELSE "admitted")
  /\ UNCHANGED <<sockVars, gate, local>>

UncountJob(t) ==
  /\ Step(t, "uncount", "unreserve")
  /\ jobs' = jobs - 1
  /\ UNCHANGED <<sockVars, excl, busy, local>>

(* Mutant: the rejection runs finish_io_job, which takes the job back      *)
(* again.                                                                  *)

UnreserveAndFinish(t) ==
  /\ Step(t, "unreserve", "idle")
  /\ busy' = [busy EXCEPT ![Direction(op[t])] = FALSE]
  /\ jobs' = jobs - 1
  /\ UNCHANGED <<sockVars, excl, local>>

UnreserveDirection(t) ==
  /\ Step(t, "unreserve", "idle")
  /\ busy' = [busy EXCEPT ![Direction(op[t])] = FALSE]
  /\ UNCHANGED <<sockVars, excl, jobs, local>>

FinishJob(t) ==
  /\ Step(t, "finish", "clear_dir")
  /\ jobs' = jobs - 1
  /\ via' = [via EXCEPT ![t] = "none"]
  /\ UNCHANGED <<sockVars, excl, busy, cancelled>>

ClearDirection(t) ==
  /\ Step(t, "clear_dir", After(t))
  /\ busy' = [busy EXCEPT ![Direction(op[t])] = FALSE]
  /\ UNCHANGED <<sockVars, excl, jobs, local>>

(* The completion handler's last statement, has_done.store(true).          *)
PublishDone(t) ==
  /\ Step(t, "publish", "idle")
  /\ UNCHANGED <<sockVars, gate, local>>
-----------------------------------------------------------------------------
(* The I/O itself.                                                         *)

(* A synchronous call tests the tls_stream pointer; peek stays on the raw  *)
(* socket.                                                                 *)
StartSyncIo(t) ==
  /\ op[t] \notin AsyncOps
  /\ Step(t, "admitted", "io")
  /\ via' = [via EXCEPT ![t] = IF op[t] = "peek" THEN "peek"
                               ELSE IF tlsStream THEN "tls" ELSE "raw"]
  /\ UNCHANGED <<sockVars, gate, cancelled>>

(* Mutant: an asynchronous call forgets to ask is_ssl().                   *)

StartAsyncIoRaw(t) ==
  /\ op[t] \in AsyncOps
  /\ Step(t, "admitted", "io")
  /\ via' = [via EXCEPT ![t] = "raw"]
  /\ UNCHANGED <<sockVars, gate, cancelled>>

(* An asynchronous one asks is_ssl() first and fetches the stream next; a  *)
(* failing initiation runs the catch block, which ends the reservation.    *)
StartAsyncIo(t) ==
  /\ op[t] \in AsyncOps
  /\ \/ tlsEnabled /\ Step(t, "admitted", "get_tls_raw") /\ UNCHANGED via
     \/ ~tlsEnabled /\ Step(t, "admitted", "io") /\ via' = [via EXCEPT ![t] = "raw"]
  /\ UNCHANGED <<sockVars, gate, cancelled>>

GetTlsRaw(t) ==
  /\ IF tlsStream
       THEN Step(t, "get_tls_raw", "io") /\ via' = [via EXCEPT ![t] = "tls"]
       ELSE Step(t, "get_tls_raw", "finish") /\ UNCHANGED via
  /\ UNCHANGED <<sockVars, gate, cancelled>>

(* The call returns, fails, or its final completion handler starts.        *)
CompleteIo(t) ==
  /\ Step(t, "io", "finish")
  /\ cancelled' = cancelled \ {t}
  /\ UNCHANGED <<sockVars, gate, via>>

(* A composed operation (async_read, async_read_until, async_write) got    *)
(* part of its data; asio's intermediate handler then starts the next one. *)
PartialIo(t) ==
  /\ op[t] \in AsyncOps /\ t \notin cancelled
  /\ Step(t, "io", "reissue")
  /\ UNCHANGED <<sockVars, gate, local>>

ReissueIo(t) ==
  /\ Step(t, "reissue", "io")
  /\ UNCHANGED <<sockVars, gate, local>>
-----------------------------------------------------------------------------
(* Exclusive operations: begin_exclusive_operation and its end.            *)

(* begin_tls_handshake tests tls_enabled before it reserves anything.      *)
StartExclusive(t) ==
  \E o \in Ops \cap ExclOps :
    /\ o \in TlsOps => ~tlsEnabled
    /\ Enter(t, o, "xcas")
    /\ UNCHANGED <<sockVars, gate, local>>

AcquireExclusive(t) ==
  /\ Step(t, "xcas", IF excl THEN "idle" ELSE "xjobs")
  /\ excl' = TRUE
  /\ UNCHANGED <<sockVars, busy, jobs, local>>

ReserveSlot(t) ==
  /\ Step(t, "xjobs", IF jobs = 0 THEN "held" ELSE "xabort")
  /\ jobs' = IF jobs = 0 THEN 1 ELSE jobs
  /\ UNCHANGED <<sockVars, excl, busy, local>>

AbandonExclusive(t) ==
  /\ Step(t, "xabort", "idle")
  /\ excl' = FALSE
  /\ UNCHANGED <<sockVars, busy, jobs, local>>

ReleaseSlot(t) ==
  /\ Step(t, "xend", "xrelease")
  /\ jobs' = jobs - 1
  /\ UNCHANGED <<sockVars, excl, busy, local>>

ReleaseExclusive(t) ==
  /\ Step(t, "xrelease", After(t))
  /\ excl' = FALSE
  /\ UNCHANGED <<sockVars, busy, jobs, local>>
-----------------------------------------------------------------------------
(* What exclusive operations do with the socket they own.                  *)

MayOpen == open' = TRUE \/ UNCHANGED open

(* connect opens the descriptor before it connects, and a refused          *)
(* connection leaves it open; opening may fail.                            *)
Connect(t) ==
  /\ op[t] = "connect"
  /\ Step(t, "held", "xend")
  /\ MayOpen
  /\ UNCHANGED <<tlsStream, tlsEnabled, gate, local>>

(* accept refuses an open socket, and otherwise opens it if it succeeds.   *)
Accept(t) ==
  /\ op[t] = "accept"
  /\ Step(t, "held", "xend")
  /\ MayOpen
  /\ UNCHANGED <<tlsStream, tlsEnabled, gate, local>>

(* async_connect opens the descriptor when it is called, async_accept when *)
(* it completes.                                                           *)
StartAsyncConnect(t) ==
  /\ op[t] \in {"async_connect", "async_accept"}
  /\ Step(t, "held", "xio")
  /\ IF op[t] = "async_connect" THEN MayOpen ELSE UNCHANGED open
  /\ UNCHANGED <<tlsStream, tlsEnabled, gate, local>>

CompleteAsyncConnect(t) ==
  /\ Step(t, "xio", "xend")
  /\ IF op[t] = "async_accept" THEN MayOpen ELSE UNCHANGED open
  /\ cancelled' = cancelled \ {t}
  /\ UNCHANGED <<tlsStream, tlsEnabled, gate, via>>

(* close and shutdown: a TLS stream is shut down and cleared first; close  *)
(* then closes the descriptor.                                             *)
StartClose(t) ==
  /\ op[t] \in {"close", "shutdown"}
  /\ Step(t, "held", IF tlsStream           THEN "clear_enabled"
                     ELSE IF op[t] = "close" THEN "raw_close"
                     ELSE "xend")
  /\ UNCHANGED <<sockVars, gate, local>>

(* init_ssl: refused on a closed socket or a second stream, and when the   *)
(* options or the trust store cannot be used.                              *)
InitSsl(t) ==
  /\ op[t] \in TlsOps
  /\ \/ /\ open /\ ~tlsStream
        /\ Step(t, "held", "enable")
        /\ tlsStream' = TRUE
     \/ /\ Step(t, "held", "xend")
        /\ UNCHANGED tlsStream
  /\ UNCHANGED <<open, tlsEnabled, gate, local>>

EnableTls(t) ==
  /\ Step(t, "enable", "handshake")
  /\ tlsEnabled' = TRUE
  /\ UNCHANGED <<open, tlsStream, gate, local>>

(* A failed handshake clears the stream before the reservation ends.       *)
Handshake(t) ==
  /\ \/ t \notin cancelled /\ Step(t, "handshake", "xend")
     \/ Step(t, "handshake", "clear_enabled")
  /\ cancelled' = cancelled \ {t}
  /\ UNCHANGED <<sockVars, gate, via>>

(* Mutant: clear_ssl drops the stream and leaves tls_enabled.              *)

ClearEnabledSkipped(t) ==
  /\ Step(t, "clear_enabled", "drop_stream")
  /\ UNCHANGED <<sockVars, gate, local>>

(* clear_ssl: the flag is lowered before the stream goes.                  *)
ClearEnabled(t) ==
  /\ Step(t, "clear_enabled", "drop_stream")
  /\ tlsEnabled' = FALSE
  /\ UNCHANGED <<open, tlsStream, gate, local>>

DropStream(t) ==
  /\ Step(t, "drop_stream",
          IF op[t] \in {"close", "safe_shutdown"} THEN "raw_close" ELSE "xend")
  /\ tlsStream' = FALSE
  /\ UNCHANGED <<open, tlsEnabled, gate, local>>

RawClose(t) ==
  /\ Step(t, "raw_close", IF op[t] = "close" THEN "xend" ELSE "end_draining")
  /\ open' = FALSE
  /\ UNCHANGED <<tlsStream, tlsEnabled, gate, local>>
-----------------------------------------------------------------------------
(* safe_shutdown.                                                          *)

(* sock.cancel() aborts what asio has outstanding on the raw socket: not a *)
(* synchronous call, not an accept (outstanding on the acceptor), and not  *)
(* an operation whose intermediate handler is yet to start the next read.  *)
Outstanding ==
  {u \in Tasks : \/ pc[u] = "io"        /\ op[u] \in AsyncOps
                 \/ pc[u] = "xio"       /\ op[u] = "async_connect"
                 \/ pc[u] = "handshake" /\ op[u] = "async_connect_ssl"}

StartSafeShutdown(t) ==
  /\ "safe_shutdown" \in Ops
  /\ open
  /\ Enter(t, "safe_shutdown", "dcas")
  /\ UNCHANGED <<sockVars, gate, local>>

BeginDraining(t) ==
  /\ Step(t, "dcas", IF excl THEN "retry_cancel" ELSE "cancel")
  /\ excl' = TRUE
  /\ UNCHANGED <<sockVars, busy, jobs, local>>

(* Mutant: the rival operation is ended by closing the socket under it.    *)

CancelRivalCloses(t) ==
  /\ Step(t, "retry_cancel", "retry_wait")
  /\ cancelled' = cancelled \cup Outstanding
  /\ open' = FALSE
  /\ UNCHANGED <<tlsStream, tlsEnabled, gate, via>>

(* Another exclusive operation is in flight: cancel it, wait for its job   *)
(* to go away or for the deadline, and try once more.                      *)
CancelRival(t) ==
  /\ Step(t, "retry_cancel", "retry_wait")
  /\ cancelled' = cancelled \cup Outstanding
  /\ UNCHANGED <<sockVars, gate, via>>

EndRetryWait(t) ==
  /\ Step(t, "retry_wait", "retry_cas")
  /\ UNCHANGED <<sockVars, gate, local>>

RetryDraining(t) ==
  /\ Step(t, "retry_cas", IF excl THEN "idle" ELSE "cancel")
  /\ excl' = TRUE
  /\ UNCHANGED <<sockVars, busy, jobs, local>>

(* Mutant: pending operations are ended by closing the socket, not         *)
(* cancel().                                                               *)

CancelPendingCloses(t) ==
  /\ Step(t, "cancel", "drain")
  /\ cancelled' = cancelled \cup Outstanding
  /\ open' = FALSE
  /\ UNCHANGED <<tlsStream, tlsEnabled, gate, via>>

CancelPending(t) ==
  /\ Step(t, "cancel", "drain")
  /\ cancelled' = cancelled \cup Outstanding
  /\ UNCHANGED <<sockVars, gate, via>>

DrainDone(t) ==
  /\ jobs = 0
  /\ Step(t, "drain", "drained")
  /\ UNCHANGED <<sockVars, gate, local>>

DrainTimeout(t) ==
  /\ jobs > 0
  /\ Step(t, "drain", "give_up")
  /\ UNCHANGED <<sockVars, gate, local>>

(* Mutant: a plain socket returns without being closed.                    *)

CheckTlsNoClose(t) ==
  /\ Step(t, "drained", IF tlsEnabled THEN "tls_shutdown" ELSE "end_draining")
  /\ UNCHANGED <<sockVars, gate, local>>

CheckTls(t) ==
  /\ Step(t, "drained", IF tlsEnabled THEN "tls_shutdown" ELSE "raw_close")
  /\ UNCHANGED <<sockVars, gate, local>>

(* async_shutdown ends by itself, with an error, or because the timer      *)
(* closed the raw socket under it.                                         *)
TlsShutdown(t) ==
  /\ Step(t, "tls_shutdown", "clear_enabled")
  /\ open' = FALSE \/ UNCHANGED open
  /\ UNCHANGED <<tlsStream, tlsEnabled, gate, local>>

(* ~exclusive_guard, after the socket was closed or when it gave up.       *)
EndDraining(t) ==
  /\ \/ Step(t, "end_draining", "idle")
     \/ Step(t, "give_up", "idle")
  /\ excl' = FALSE
  /\ UNCHANGED <<sockVars, busy, jobs, local>>
-----------------------------------------------------------------------------
Admission(t) ==
  \/ ReserveDirection(t) \/ LoadExclusive(t) \/ CountJob(t)
  \/ RecheckExclusive(t) \/ UncountJob(t)    \/ UnreserveDirection(t)
  \/ FinishJob(t)        \/ ClearDirection(t) \/ PublishDone(t)

Io(t) ==
  \/ StartSyncIo(t) \/ StartAsyncIo(t) \/ GetTlsRaw(t)
  \/ CompleteIo(t)  \/ PartialIo(t)    \/ ReissueIo(t)

Exclusive(t) ==
  \/ StartExclusive(t)   \/ AcquireExclusive(t) \/ ReserveSlot(t)
  \/ AbandonExclusive(t) \/ ReleaseSlot(t)      \/ ReleaseExclusive(t)

Connecting(t) ==
  Connect(t) \/ Accept(t) \/ StartAsyncConnect(t) \/ CompleteAsyncConnect(t)

Securing(t) == InitSsl(t) \/ EnableTls(t) \/ Handshake(t)

Closing(t) == StartClose(t) \/ ClearEnabled(t) \/ DropStream(t) \/ RawClose(t)

Draining(t) ==
  \/ StartSafeShutdown(t) \/ BeginDraining(t) \/ CancelRival(t)
  \/ EndRetryWait(t)      \/ RetryDraining(t) \/ CancelPending(t)

Drained(t) ==
  DrainDone(t) \/ DrainTimeout(t) \/ CheckTls(t) \/ TlsShutdown(t) \/ EndDraining(t)

TaskStep(t) ==
  \/ Admission(t)  \/ Io(t)       \/ Exclusive(t)
  \/ Connecting(t) \/ Securing(t) \/ Closing(t)
  \/ Draining(t)   \/ Drained(t)

Next == \E t \in Tasks : TaskStep(t)

Spec == Init /\ [][Next]_vars
-----------------------------------------------------------------------------
(* Properties.                                                             *)

(* The task holds one unit of async_jobs.                                  *)
Counted(t) ==
  \/ pc[t] \in {"recheck", "uncount"} \cup AdmittedPcs \cup SlotPcs
  \/ pc[t] \in ChangingPcs /\ op[t] # "safe_shutdown"

(* Every variable has its type; in particular async_jobs, a size_t that is *)
(* decremented without a test, never goes below zero.                      *)
TypeOK ==
  /\ open \in BOOLEAN /\ tlsStream \in BOOLEAN /\ tlsEnabled \in BOOLEAN
  /\ excl \in BOOLEAN
  /\ busy \in [Directions -> BOOLEAN]
  /\ jobs \in Nat
  /\ op \in [Tasks -> AllOps \cup {"none"}]
  /\ pc \in [Tasks -> Pcs]
  /\ via \in [Tasks -> {"none", "peek", "raw", "tls"}]
  /\ cancelled \subseteq Tasks

(* async_jobs is exactly the number of reservations: the increment of      *)
(* try_begin_io_job that its re-check takes back, the slot of an exclusive *)
(* operation, and every release on an error path balance.                  *)
JobsExact == jobs = Cardinality({t \in Tasks : Counted(t)})

(* exclusive_operation is set exactly while one task is between winning    *)
(* and releasing it: no error path of begin_exclusive_operation or of      *)
(* safe_shutdown leaves it set, and none clears another task's.            *)
ExclusiveExact ==
  /\ excl <=> \E t \in Tasks : pc[t] \in ExclPcs
  /\ \A t, u \in Tasks : pc[t] \in ExclPcs /\ pc[u] \in ExclPcs => t = u

(* read_operation and write_operation are set exactly while one task has   *)
(* reserved the direction: finish_io_job's late store, after async_jobs    *)
(* was already released, never clears the next task's reservation.         *)
DirectionExact ==
  \A d \in Directions :
    LET Users == {t \in Tasks : pc[t] \in ReservedPcs /\ Direction(op[t]) = d}
    IN /\ busy[d] <=> Users # {}
       /\ \A t, u \in Users : t = u

(* Whatever a rejection or an error path takes back, the three atomics are *)
(* together exactly what the tasks hold (network.hpp:400-490).             *)
ReservationsBalance == JobsExact /\ ExclusiveExact /\ DirectionExact

(* While a task owns the socket (a granted exclusive operation, or a       *)
(* safe_shutdown that saw async_jobs drop to zero) no other task is inside *)
(* an I/O call or owns it too: the double check of try_begin_io_job.       *)
OwnerExcludes ==
  \A t, u \in Tasks :
    pc[t] \in OwnerPcs /\ t # u => pc[u] \notin AdmittedPcs \cup OwnerPcs

(* I/O in progress goes through the stream the socket has now: neither a   *)
(* destroyed TLS stream nor, once TLS is on, the bare descriptor; and      *)
(* get_tls_raw() after is_ssl() does not fail.                             *)
TransportCurrent ==
  \A t \in Tasks :
    /\ pc[t] \in {"io", "reissue"} /\ via[t] # "peek" => (via[t] = "tls") = tlsStream
    /\ pc[t] = "get_tls_raw" => tlsStream

(* is_ssl() tells the truth whenever no exclusive operation is under way,  *)
(* and a closed descriptor keeps no TLS stream.                            *)
TlsCoherent ==
  ~excl => /\ tlsEnabled = tlsStream
           /\ tlsStream => open

(* A safe_shutdown that got past the drain leaves nothing behind: the      *)
(* socket is closed and has no TLS state when the reservation ends.        *)
ShutdownComplete ==
  \A t \in Tasks : pc[t] = "end_draining" => ~open /\ ~tlsStream /\ ~tlsEnabled

(* No step opens, closes or re-secures the socket under an admitted I/O    *)
(* operation.                                                              *)
IoKeepsTransport ==
  [][(\E t \in Tasks : pc[t] \in AdmittedPcs) => UNCHANGED sockVars]_vars

(* The socket implements SocketGate: admission happens at the re-check of  *)
(* exclusive_operation, ownership at the compare-exchange of async_jobs or *)
(* at the load that ends the drain.                                        *)
Role(t) ==
  CASE pc[t] \in AdmittedPcs -> Direction(op[t])
    [] pc[t] \in OwnerPcs    -> "owner"
    [] OTHER                 -> "none"

Gate == INSTANCE SocketGate
          WITH role <- [t \in Tasks |-> Role(t)],
               transport <- [open |-> open, tls |-> tlsStream]

ImplementsGate == Gate!GateSpec
=============================================================================

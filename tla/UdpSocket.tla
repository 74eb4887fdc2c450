----------------------------- MODULE UdpSocket ------------------------------
(***************************************************************************)
(* udp::socket (include/network.hpp) with the asynchronous receive_from    *)
(* and send_to and with safe_close (network.cpp).  Tasks and steps are as  *)
(* in TcpSocket: every access of an atomic is a step.  What differs: the   *)
(* only exclusive operation is close, the descriptor is opened outside the *)
(* protocol, and safe_close waits for the jobs before it reserves the      *)
(* socket, without cancelling them.                                        *)
(***************************************************************************)
EXTENDS Integers, FiniteSets

CONSTANT Tasks   \* activities that use the socket

ASSUME UdpAssumption == IsFiniteSet(Tasks)

VARIABLES
  open,  \* sock.is_open()
  excl,  \* exclusive_operation
  busy,  \* read_operation and write_operation, by direction
  jobs,  \* async_jobs
  op,    \* the operation a task is executing
  pc     \* the step it is about to take

vars == <<open, excl, busy, jobs, op, pc>>

Directions == {"read", "write"}
ReadOps    == {"available", "receive_from", "async_receive_from"}
WriteOps   == {"send_to", "async_send_to"}
AsyncOps   == {"async_receive_from", "async_send_to"}
CloseOps   == {"close", "safe_close"}
AllOps     == ReadOps \cup WriteOps \cup CloseOps

Direction(o) == IF o \in ReadOps THEN "read" ELSE "write"

AdmittedPcs == {"io", "finish"}
ReservedPcs == {"load", "count", "recheck", "uncount", "unreserve", "clear_dir"}
                 \cup AdmittedPcs
OwnerPcs    == {"raw_close", "xend"}
ExclPcs     == {"xjobs", "xabort", "xrelease"} \cup OwnerPcs
Pcs         == {"idle", "publish", "drain", "last_test", "xcas"} \cup ReservedPcs \cup ExclPcs

Init ==
  /\ open = FALSE /\ excl = FALSE /\ busy = [d \in Directions |-> FALSE] /\ jobs = 0
  /\ op = [t \in Tasks |-> "none"] /\ pc = [t \in Tasks |-> "idle"]

Enter(t, o, to) ==
  /\ pc[t] = "idle"
  /\ pc' = [pc EXCEPT ![t] = to] /\ op' = [op EXCEPT ![t] = o]

Step(t, from, to) ==
  /\ pc[t] = from
  /\ pc' = [pc EXCEPT ![t] = to]
  /\ op' = [op EXCEPT ![t] = IF to = "idle" THEN "none" ELSE @]
-----------------------------------------------------------------------------
(* open_v4 and open_v6 do not go through the admission protocol.           *)
Open(t) ==
  /\ pc[t] = "idle" /\ ~open
  /\ open' = TRUE
  /\ UNCHANGED <<excl, busy, jobs, op, pc>>

(* begin_io_job and try_begin_io_job.                                      *)
ReserveDirection(t) ==
  \E o \in ReadOps \cup WriteOps :
    /\ ~busy[Direction(o)]
    /\ Enter(t, o, "load")
    /\ busy' = [busy EXCEPT ![Direction(o)] = TRUE]
    /\ UNCHANGED <<open, excl, jobs>>

LoadExclusive(t) ==
  /\ Step(t, "load", IF excl THEN "unreserve" ELSE "count")
  /\ UNCHANGED <<open, excl, busy, jobs>>

CountJob(t) ==
  /\ Step(t, "count", "recheck")
  /\ jobs' = jobs + 1
  /\ UNCHANGED <<open, excl, busy>>

(* Mutant: the second test is not made.                                    *)
RecheckSkipped(t) ==
  /\ Step(t, "recheck", "io")
  /\ UNCHANGED <<open, excl, busy, jobs>>

RecheckExclusive(t) ==
  /\ Step(t, "recheck", IF excl THEN "uncount" ELSE "io")
  /\ UNCHANGED <<open, excl, busy, jobs>>

UncountJob(t) ==
  /\ Step(t, "uncount", "unreserve")
  /\ jobs' = jobs - 1
  /\ UNCHANGED <<open, excl, busy>>

(* Mutant: a refused operation leaves its direction reserved.              *)
UnreserveNothing(t) ==
  /\ Step(t, "unreserve", "idle")
  /\ UNCHANGED <<open, excl, busy, jobs>>

UnreserveDirection(t) ==
  /\ Step(t, "unreserve", "idle")
  /\ busy' = [busy EXCEPT ![Direction(op[t])] = FALSE]
  /\ UNCHANGED <<open, excl, jobs>>

(* The call returns or fails, or its completion handler starts.            *)
PerformIo(t) ==
  /\ Step(t, "io", "finish")
  /\ UNCHANGED <<open, excl, busy, jobs>>

(* finish_io_job.                                                          *)
FinishJob(t) ==
  /\ Step(t, "finish", "clear_dir")
  /\ jobs' = jobs - 1
  /\ UNCHANGED <<open, excl, busy>>

ClearDirection(t) ==
  /\ Step(t, "clear_dir", IF op[t] \in AsyncOps THEN "publish" ELSE "idle")
  /\ busy' = [busy EXCEPT ![Direction(op[t])] = FALSE]
  /\ UNCHANGED <<open, excl, jobs>>

(* The completion handler's last statement, has_done.store(true).          *)
PublishDone(t) ==
  /\ Step(t, "publish", "idle")
  /\ UNCHANGED <<open, excl, busy, jobs>>
-----------------------------------------------------------------------------
(* close: begin_exclusive_close, sock.close(), end_exclusive_close.        *)
StartClose(t) ==
  /\ Enter(t, "close", "xcas")
  /\ UNCHANGED <<open, excl, busy, jobs>>

AcquireExclusive(t) ==
  /\ Step(t, "xcas", IF excl THEN "idle" ELSE "xjobs")
  /\ excl' = TRUE
  /\ UNCHANGED <<open, busy, jobs>>

ReserveSlot(t) ==
  /\ Step(t, "xjobs", IF jobs = 0 THEN "raw_close" ELSE "xabort")
  /\ jobs' = IF jobs = 0 THEN 1 ELSE jobs
  /\ UNCHANGED <<open, excl, busy>>

AbandonExclusive(t) ==
  /\ Step(t, "xabort", "idle")
  /\ excl' = FALSE
  /\ UNCHANGED <<open, busy, jobs>>

RawClose(t) ==
  /\ Step(t, "raw_close", "xend")
  /\ open' = FALSE
  /\ UNCHANGED <<excl, busy, jobs>>

ReleaseSlot(t) ==
  /\ Step(t, "xend", "xrelease")
  /\ jobs' = jobs - 1
  /\ UNCHANGED <<open, excl, busy>>

ReleaseExclusive(t) ==
  /\ Step(t, "xrelease", "idle")
  /\ excl' = FALSE
  /\ UNCHANGED <<open, busy, jobs>>
-----------------------------------------------------------------------------
(* safe_close: a closed socket is done.                                    *)
StartSafeClose(t) ==
  /\ open
  /\ Enter(t, "safe_close", "drain")
  /\ UNCHANGED <<open, excl, busy, jobs>>

(* The loop ends because a load found no job, or at the deadline.          *)
EndDrain(t) ==
  /\ Step(t, "drain", "last_test")
  /\ UNCHANGED <<open, excl, busy, jobs>>

(* The last test of async_jobs, then close().                              *)
LastTest(t) ==
  /\ Step(t, "last_test", IF jobs > 0 THEN "idle" ELSE "xcas")
  /\ UNCHANGED <<open, excl, busy, jobs>>
-----------------------------------------------------------------------------
Admission(t) ==
  \/ ReserveDirection(t) \/ LoadExclusive(t) \/ CountJob(t)  \/ RecheckExclusive(t)
  \/ UncountJob(t) \/ UnreserveDirection(t)  \/ PerformIo(t) \/ FinishJob(t)
  \/ ClearDirection(t) \/ PublishDone(t)

Closing(t) ==
  \/ StartClose(t) \/ AcquireExclusive(t) \/ ReserveSlot(t) \/ AbandonExclusive(t)
  \/ RawClose(t) \/ ReleaseSlot(t) \/ ReleaseExclusive(t)
  \/ StartSafeClose(t) \/ EndDrain(t) \/ LastTest(t)

Next == \E t \in Tasks : Open(t) \/ Admission(t) \/ Closing(t)

Spec == Init /\ [][Next]_vars
-----------------------------------------------------------------------------
(* Every variable has its type; async_jobs never wraps below zero.         *)
TypeOK ==
  /\ open \in BOOLEAN /\ excl \in BOOLEAN
  /\ busy \in [Directions -> BOOLEAN] /\ jobs \in Nat
  /\ op \in [Tasks -> AllOps \cup {"none"}] /\ pc \in [Tasks -> Pcs]

(* async_jobs, exclusive_operation and the direction flags are exactly     *)
(* what the tasks hold, on every rejection and error path; a direction has *)
(* one user and the socket one closing task.                               *)
ReservationsExact ==
  /\ jobs = Cardinality({t \in Tasks :
                           pc[t] \in {"recheck", "uncount"} \cup AdmittedPcs \cup OwnerPcs})
  /\ excl <=> \E t \in Tasks : pc[t] \in ExclPcs
  /\ \A d \in Directions :
       busy[d] <=> \E t \in Tasks : pc[t] \in ReservedPcs /\ Direction(op[t]) = d
  /\ \A t, u \in Tasks :
       t # u => /\ ~(pc[t] \in ExclPcs /\ pc[u] \in ExclPcs)
                /\ ~(pc[t] \in ReservedPcs /\ pc[u] \in ReservedPcs
                       /\ Direction(op[t]) = Direction(op[u]))

(* The descriptor is not closed under an admitted operation, although the  *)
(* wait of safe_close and the reservation of close are separate steps.     *)
NoCloseUnderIo ==
  [][(\E t \in Tasks : pc[t] \in AdmittedPcs) => (open => open')]_vars
=============================================================================

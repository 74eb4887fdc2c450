---------------------------- MODULE SafeShutdown ----------------------------
(***************************************************************************)
(* One call of tcp safe_shutdown (network.cpp) together with what it waits *)
(* for: an asynchronous read that is still pending, the TLS close-notify,  *)
(* the timer that bounds it, and the event loop that has to run their      *)
(* handlers.  The admission protocol around the call is TcpSocket's; here  *)
(* the call has won exclusive_operation and no other operation is          *)
(* admitted.                                                               *)
(*                                                                         *)
(* The loop is asio's, as in EventLoop: it stops when no work is left, and *)
(* a stopped loop runs nothing until it is restarted.  Without a worker    *)
(* the call polls it itself.                                               *)
(***************************************************************************)
EXTENDS Naturals

CONSTANT Hosts   \* [guard, worker]: what else keeps and drives the loop

ASSUME HostsAssumption == Hosts \subseteq [guard : BOOLEAN, worker : BOOLEAN]

VARIABLES
  host,       \* the host this call runs in
  stmt,       \* the statement of safe_shutdown
  result,     \* what it returned, or "none"
  success,    \* its local flag
  stopped,    \* io.stopped()
  read,       \* the asynchronous read: none, outstanding, step, queued
  shut,       \* async_shutdown: none, outstanding, queued, done
  timer,      \* the close-notify timer: none, armed, queued, aborted
  timedOut,   \* tls_shutdown_state::timed_out
  raw,        \* the raw socket
  tls         \* tls_enabled and tls_stream

call  == <<stmt, result, success>>
async == <<read, shut, timer>>
sock  == <<timedOut, raw, tls>>
callVars ==  <<host, call, stopped, async, sock>>

Jobs == IF read = "none" THEN 0 ELSE 1

NoWork ==
  /\ ~host.guard /\ ~host.worker
  /\ read = "none" /\ shut \in {"none", "done"} /\ timer = "none"

WorkFinished == stopped' = (stopped \/ NoWork')

CallInit ==
  /\ host \in Hosts
  /\ stmt = "begin" /\ result = "none" /\ success = TRUE
  /\ stopped \in {s \in BOOLEAN : s => ~host.guard /\ ~host.worker}
  /\ read \in {"none", "outstanding", "step", "queued"}
  /\ shut = "none" /\ timer = "none"
  /\ timedOut = FALSE /\ raw = TRUE /\ tls \in BOOLEAN

(* The loop is polled: by a worker at any time, otherwise by the poll()    *)
(* inside the two waiting loops of the call.                               *)
Driven == ~stopped /\ (host.worker \/ stmt \in {"drain", "tls_wait"})

Goto(from, to) == stmt = from /\ stmt' = to
-----------------------------------------------------------------------------
(* The call.                                                               *)

(* async::restart(): only when no worker is counted.                       *)
RestartLoop ==
  /\ Goto("begin", "cancel")
  /\ stopped' = (stopped /\ host.worker)
  /\ UNCHANGED <<host, result, success, async, sock>>

(* raw cancel: an outstanding read is aborted; one whose intermediate      *)
(* handler is already running is not.                                      *)
Cancel ==
  /\ Goto("cancel", "drain")
  /\ read' = IF read = "outstanding" THEN "queued" ELSE read
  /\ UNCHANGED <<host, result, success, stopped, shut, timer, sock>>

DrainEnds ==
  /\ Jobs = 0
  /\ Goto("drain", IF tls THEN "tls_shutdown" ELSE "raw_close")
  /\ UNCHANGED <<host, result, success, stopped, async, sock>>

DrainExpires ==
  /\ Jobs > 0
  /\ Goto("drain", "returned")
  /\ success' = FALSE /\ result' = "false"
  /\ UNCHANGED <<host, stopped, async, sock>>

(* async_shutdown, then the timer; an exception before the first was       *)
(* started skips the wait, one after it closes the socket to end it.       *)
StartTlsShutdown ==
  /\ Goto("tls_shutdown", "tls_wait")
  /\ \/ /\ shut' = "outstanding" /\ timer' = "armed"
        /\ UNCHANGED <<success, raw>>
     \/ /\ shut' = "done" /\ success' = FALSE
        /\ UNCHANGED <<timer, raw>>
     \/ /\ shut' = "queued" /\ success' = FALSE /\ raw' = FALSE
        /\ UNCHANGED timer
  /\ UNCHANGED <<host, result, stopped, read, timedOut, tls>>

(* Mutants: the wait also ends at the timeout; the timeout is not          *)
(* reported.                                                               *)

EndTlsWaitEarly ==
  /\ shut = "done" \/ timedOut
  /\ Goto("tls_wait", "raw_close")
  /\ success' = (success /\ ~timedOut)
  /\ tls' = FALSE
  /\ UNCHANGED <<host, result, stopped, async, timedOut, raw>>

EndTlsWaitForgets ==
  /\ shut = "done"
  /\ Goto("tls_wait", "raw_close")
  /\ tls' = FALSE
  /\ UNCHANGED <<host, result, success, stopped, async, timedOut, raw>>

(* The wait ends; reset_ssl destroys the stream.                           *)
EndTlsWait ==
  /\ shut = "done"
  /\ Goto("tls_wait", "raw_close")
  /\ success' \in (IF timedOut THEN {FALSE} ELSE {success, FALSE})
  /\ tls' = FALSE
  /\ UNCHANGED <<host, result, stopped, async, timedOut, raw>>

(* Raw shutdown and close of a socket that is still open, each of which    *)
(* may report an error; then the guard ends the reservation.               *)
CloseRaw ==
  /\ Goto("raw_close", "returned")
  /\ raw' = FALSE
  /\ \/ success /\ result' = "true"
     \/ (~success \/ raw) /\ result' = "false"
  /\ UNCHANGED <<host, success, stopped, async, timedOut, tls>>
-----------------------------------------------------------------------------
(* What completes in the kernel.                                           *)

(* The peer sends what the read waits for, or only a part of it, which     *)
(* the driver of the loop has to pick up.                                  *)
PeerSends ==
  /\ read = "outstanding"
  /\ \/ read' = "queued"
     \/ Driven /\ read' = "step"
  /\ UNCHANGED <<host, call, stopped, shut, timer, sock>>

(* The peer answers the close-notify, or the connection breaks.            *)
PeerClosesTls ==
  /\ shut = "outstanding"
  /\ shut' = "queued"
  /\ UNCHANGED <<host, call, stopped, read, timer, sock>>

TimerExpires ==
  /\ timer = "armed"
  /\ timer' = "queued"
  /\ UNCHANGED <<host, call, stopped, read, shut, sock>>
-----------------------------------------------------------------------------
(* The loop runs a handler.                                               *)

RunReadHandler ==
  /\ Driven /\ read = "queued"
  /\ read' = "none"
  /\ UNCHANGED <<host, shut, timer>>
  /\ WorkFinished
  /\ UNCHANGED <<call, sock>>

(* The intermediate handler of a composed read starts the next one.        *)
ReissueRead ==
  /\ Driven /\ read = "step"
  /\ read' = "outstanding"
  /\ UNCHANGED <<host, call, stopped, shut, timer, sock>>

RunShutdownHandler ==
  /\ Driven /\ shut = "queued"
  /\ shut' = "done"
  /\ timer' = IF timer = "armed" THEN "aborted" ELSE timer
  /\ UNCHANGED <<host, read>>
  /\ WorkFinished
  /\ UNCHANGED <<call, sock>>

(* Mutant: the handler closes nothing.                                     *)

RunTimerHandlerIdle ==
  /\ Driven /\ timer \in {"queued", "aborted"}
  /\ timer' = "none"
  /\ UNCHANGED <<host, call, stopped, read, shut, sock>>

(* The timer's handler does nothing when it was cancelled or the shutdown  *)
(* is over; otherwise it closes the raw socket, which aborts it.           *)
RunTimerHandler ==
  /\ Driven /\ timer \in {"queued", "aborted"}
  /\ timer' = "none"
  /\ IF timer = "aborted" \/ shut = "done"
       THEN UNCHANGED <<shut, timedOut, raw>>
       ELSE /\ timedOut' = TRUE /\ raw' = FALSE
            /\ shut' = "queued"
  /\ UNCHANGED <<host, read>>
  /\ WorkFinished
  /\ UNCHANGED <<call, tls>>
-----------------------------------------------------------------------------
Script == \/ RestartLoop \/ Cancel \/ DrainEnds \/ DrainExpires
          \/ StartTlsShutdown \/ EndTlsWait \/ CloseRaw
Kernel == PeerSends \/ PeerClosesTls \/ TimerExpires
Loop   == RunReadHandler \/ ReissueRead \/ RunShutdownHandler \/ RunTimerHandler

(* The wait for the close-notify polls and yields, also when nothing ever  *)
(* comes of it; and a call that has returned does nothing more.            *)
PollAndYield == stmt = "tls_wait" /\ shut # "done" /\ UNCHANGED callVars
Finished     == stmt = "returned" /\ UNCHANGED callVars

CallNext == Script \/ Kernel \/ Loop \/ PollAndYield \/ Finished

(* The calling thread and the loop's driver are scheduled, and time        *)
(* passes; the peer owes nothing.                                          *)
Fairness == WF_callVars(Script) /\ WF_callVars(Loop) /\ WF_callVars(TimerExpires)

CallSpec == CallInit /\ [][CallNext]_callVars /\ Fairness
-----------------------------------------------------------------------------
(* Properties.                                                             *)

(* Every variable has its type.                                            *)
CallTypeOK ==
  /\ host \in Hosts
  /\ stmt \in {"begin", "cancel", "drain", "tls_shutdown", "tls_wait", "raw_close", "returned"}
  /\ result \in {"none", "true", "false"} /\ success \in BOOLEAN /\ stopped \in BOOLEAN
  /\ read \in {"none", "outstanding", "step", "queued"}
  /\ shut \in {"none", "outstanding", "queued", "done"}
  /\ timer \in {"none", "armed", "queued", "aborted"}
  /\ timedOut \in BOOLEAN /\ raw \in BOOLEAN /\ tls \in BOOLEAN

(* The TLS stream is destroyed only when no operation uses it any more:    *)
(* neither the read nor async_shutdown, not even after a timeout.          *)
StreamQuiescent == [][tls /\ ~tls' => read = "none" /\ shut = "done"]_callVars

(* true means a clean end: everything drained, TLS closed, nothing left.   *)
TrueMeansClosed ==
  result = "true" => ~raw /\ ~tls /\ read = "none" /\ ~timedOut

(* If a work guard or a worker keeps the loop running, the call returns,   *)
(* whatever the peer does (network.cpp:1297-1380).                         *)
ReturnsIfKept == (host.guard \/ host.worker) ~> stmt = "returned"
=============================================================================

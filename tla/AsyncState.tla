----------------------------- MODULE AsyncState -----------------------------
(***************************************************************************)
(* The buffers of async.state objects (network.cpp, namespace async): what *)
(* read_until, read and write put into them, what get_result and           *)
(* get_buffer take out, and the flags that say which of it may be touched. *)
(*                                                                         *)
(* One TCP socket.  A byte is the position it has in the peer's stream     *)
(* (1, 2, ...); a byte of outgoing data is Out.  The pattern of read_until *)
(* is two bytes long and ends at the positions in Ends, so it can be cut   *)
(* in two by the network as well as by get_buffer.                         *)
(*                                                                         *)
(* The script is one thread; handlers run on a thread worker at any moment *)
(* and their two visible effects, giving the direction back to the socket  *)
(* and storing has_done, are two steps.                                    *)
(***************************************************************************)
EXTENDS Integers, Sequences, FiniteSets

CONSTANTS
  States,     \* async.state objects, each used by the script from when it likes
  StreamLen,  \* bound: bytes the peer sends
  Ends,       \* positions at which an occurrence of the pattern ends
  MaxRequest  \* bound: largest size asked of read, get_buffer and write

ASSUME AsyncStateAssumption ==
  /\ StreamLen \in Nat /\ MaxRequest \in Nat \ {0}
  /\ Ends \subseteq 2..StreamLen

Out   == 0
NoOne == "no one"
ASSUME NoOneAssumption == NoOne \notin States

VARIABLES
  st,         \* state_type of every state: init, isRead, done, bytes, buf, ec
  op,         \* operation outstanding on the state, "start" inside the call
              \* of read_until, "finish" between the handler's two steps
  prep,       \* read: the region of prepare(n) filled so far, not yet committed
  want,       \* read: n, while it is under way
  saved,      \* what the running call of read_until restores if it cannot start
  reader,     \* begin_async_read's reservation: the state that holds it
  writer,     \* begin_async_write's reservation
  got,        \* bytes of the peer's stream the socket has handed out
  delivered   \* what get_result and get_buffer returned for each state

vars == <<st, op, prep, want, saved, reader, writer, got, delivered>>

Bytes(a, b) == [i \in 1..(b - a) |-> a + i]     \* the stream from a + 1 to b

Fresh == [init |-> FALSE, isRead |-> FALSE, done |-> FALSE,
          bytes |-> 0, buf |-> <<>>, ec |-> "ok"]

\* previous_init, previous_is_read, previous_has_done, previous_ec
Flags(x) == [init |-> x.init, isRead |-> x.isRead, done |-> x.done, ec |-> x.ec]

Init ==
  /\ st = [s \in States |-> Fresh] /\ op = [s \in States |-> "none"]
  /\ prep = [s \in States |-> <<>>] /\ want = [s \in States |-> 0]
  /\ saved = Flags(Fresh)
  /\ reader = NoOne /\ writer = NoOne /\ got = 0
  /\ delivered = [s \in States |-> <<>>]

(***************************************************************************)
(* asio::async_read_until: the match it reports is the first one.          *)
(***************************************************************************)
EndsAt(buf, i) == i > 1 /\ buf[i] \in Ends /\ buf[i - 1] = buf[i] - 1

HasMatch(buf) == \E i \in DOMAIN buf : EndsAt(buf, i)

FirstEnd(buf) ==
  CHOOSE i \in DOMAIN buf :
    EndsAt(buf, i) /\ \A j \in DOMAIN buf : EndsAt(buf, j) => i <= j

(***************************************************************************)
(* The script's calls.  A call that throws before it changed anything (the *)
(* last operation is not done, the direction is taken) is a guard.         *)
(***************************************************************************)
Settled(s) == ~(st[s].init /\ ~st[s].done)

Quiet == \A s \in States : op[s] # "start"    \* no call of read_until is running

ReadUntil(s) ==
  /\ Quiet /\ Settled(s) /\ reader = NoOne
  /\ reader' = s
  /\ saved' = Flags(st[s])
  /\ st' = [st EXCEPT ![s].init = TRUE, ![s].isRead = TRUE,
                      ![s].done = FALSE, ![s].ec = "ok"]
  /\ op' = [op EXCEPT ![s] = "start"]
  /\ UNCHANGED <<prep, want, writer, got, delivered>>

UntilStarted(s) ==
  /\ op[s] = "start"
  /\ op' = [op EXCEPT ![s] = "until"]
  /\ saved' = Flags(Fresh)
  /\ UNCHANGED <<st, prep, want, reader, writer, got, delivered>>

\* mutant: the catch block forgets has_done
UntilNotStartedNotDone(s) ==
  /\ op[s] = "start"
  /\ op' = [op EXCEPT ![s] = "none"]
  /\ reader' = NoOne
  /\ st' = [st EXCEPT ![s].init = saved.init, ![s].isRead = saved.isRead,
                      ![s].ec = saved.ec]
  /\ saved' = Flags(Fresh)
  /\ UNCHANGED <<prep, want, writer, got, delivered>>

\* async_read_until throws (no memory, say): the catch block
UntilNotStarted(s) ==
  /\ op[s] = "start"
  /\ op' = [op EXCEPT ![s] = "none"]
  /\ reader' = NoOne
  /\ st' = [st EXCEPT ![s].init = saved.init, ![s].isRead = saved.isRead,
                      ![s].ec = saved.ec, ![s].done = saved.done]
  /\ saved' = Flags(Fresh)
  /\ UNCHANGED <<prep, want, writer, got, delivered>>

\* read and write return a new state; one that could not start is dropped
Read(s, n) ==
  /\ Quiet /\ ~st[s].init /\ reader = NoOne
  /\ reader' = s
  /\ st' = [st EXCEPT ![s].init = TRUE, ![s].isRead = TRUE]
  /\ op' = [op EXCEPT ![s] = "read"]
  /\ want' = [want EXCEPT ![s] = n]
  /\ UNCHANGED <<prep, saved, writer, got, delivered>>

Write(s, n) ==
  /\ Quiet /\ ~st[s].init /\ writer = NoOne
  /\ writer' = s
  /\ st' = [st EXCEPT ![s].init = TRUE, ![s].buf = [i \in 1..n |-> Out]]
  /\ op' = [op EXCEPT ![s] = "write"]
  /\ UNCHANGED <<prep, want, saved, reader, got, delivered>>

Take(s, n) ==      \* copy n bytes out of the buffer and consume them
  /\ delivered' = [delivered EXCEPT ![s] = @ \o SubSeq(st[s].buf, 1, n)]
  /\ UNCHANGED <<op, prep, want, saved, reader, writer, got>>

GetResult(s) ==
  /\ Quiet /\ st[s].isRead /\ st[s].done /\ st[s].bytes > 0
  /\ Take(s, st[s].bytes)
  /\ st' = [st EXCEPT ![s].buf = SubSeq(@, st[s].bytes + 1, Len(@)),
                      ![s].bytes = 0]

\* mutant: get_buffer leaves bytes_transferred alone
GetBufferKeepsBytes(s, m) ==
  LET n == IF m < Len(st[s].buf) THEN m ELSE Len(st[s].buf) IN
  /\ Quiet /\ st[s].isRead /\ st[s].done /\ Len(st[s].buf) > 0
  /\ Take(s, n)
  /\ st' = [st EXCEPT ![s].buf = SubSeq(@, n + 1, Len(@))]

GetBuffer(s, m) ==
  LET n == IF m < Len(st[s].buf) THEN m ELSE Len(st[s].buf) IN
  /\ Quiet /\ st[s].isRead /\ st[s].done /\ Len(st[s].buf) > 0
  /\ Take(s, n)
  /\ st' = [st EXCEPT ![s].buf = SubSeq(@, n + 1, Len(@)),
                      ![s].bytes = IF @ > n THEN @ - n ELSE 0]

(***************************************************************************)
(* The handlers.                                                           *)
(***************************************************************************)
\* Up to the return of end_async_read: result, error, the direction is free.
ReadDone(s, n, e, buf) ==
  /\ st' = [st EXCEPT ![s].bytes = n, ![s].ec = e, ![s].buf = buf]
  /\ op' = [op EXCEPT ![s] = "finish"]
  /\ reader' = NoOne
  /\ want' = [want EXCEPT ![s] = 0]
  /\ UNCHANGED <<saved, writer, delivered>>

\* The buffer held a match already: a read of no bytes, then the handler.
UntilMatched(s) ==
  /\ op[s] = "until" /\ HasMatch(st[s].buf)
  /\ ReadDone(s, FirstEnd(st[s].buf), "ok", st[s].buf)
  /\ UNCHANGED <<prep, got>>

\* k bytes arrive and are committed; the operation ends or reads on
UntilReceives(s, k) ==
  LET buf == st[s].buf \o Bytes(got, got + k) IN
  /\ op[s] = "until" /\ ~HasMatch(st[s].buf) /\ got + k <= StreamLen
  /\ got' = got + k
  /\ UNCHANGED prep
  /\ IF HasMatch(buf)
     THEN ReadDone(s, FirstEnd(buf), "ok", buf)
     ELSE /\ st' = [st EXCEPT ![s].buf = buf]
          /\ UNCHANGED <<op, want, saved, reader, writer, delivered>>

\* End of file, reset, cancel(), a descriptor that is not open: asio reports no
\* bytes, even if the buffer holds a match.
UntilFails(s) ==
  /\ op[s] = "until"
  /\ ReadDone(s, 0, "error", st[s].buf)
  /\ UNCHANGED <<prep, got>>

\* mutant: bytes that came before an error are not committed
CommitOnSuccess(s, region, e) ==
  /\ ReadDone(s, IF e = "ok" THEN Len(region) ELSE 0, e,
              IF e = "ok" THEN st[s].buf \o region ELSE st[s].buf)
  /\ prep' = [prep EXCEPT ![s] = <<>>]

\* on_done of read begins with commit(bytes)
Commit(s, region, e) ==
  /\ ReadDone(s, Len(region), e, st[s].buf \o region)
  /\ prep' = [prep EXCEPT ![s] = <<>>]

ReadReceives(s, k) ==
  LET region == prep[s] \o Bytes(got, got + k) IN
  /\ op[s] = "read" /\ Len(region) <= want[s] /\ got + k <= StreamLen
  /\ got' = got + k
  /\ IF Len(region) = want[s]
     THEN Commit(s, region, "ok")
     ELSE /\ prep' = [prep EXCEPT ![s] = region]
          /\ UNCHANGED <<st, op, want, saved, reader, writer, delivered>>

ReadFails(s) ==
  /\ op[s] = "read"
  /\ Commit(s, prep[s], "error")
  /\ UNCHANGED got

\* asio consumes what was sent, all of it or the n bytes before the error
WriteDone(s, n) ==
  /\ op[s] = "write" /\ n <= Len(st[s].buf)
  /\ st' = [st EXCEPT ![s].bytes = n, ![s].buf = SubSeq(@, n + 1, Len(@)),
                      ![s].ec = IF n = Len(st[s].buf) THEN "ok" ELSE "error"]
  /\ op' = [op EXCEPT ![s] = "finish"]
  /\ writer' = NoOne
  /\ UNCHANGED <<prep, want, saved, reader, got, delivered>>

StoreHasDone(s) ==
  /\ op[s] = "finish"
  /\ op' = [op EXCEPT ![s] = "none"]
  /\ st' = [st EXCEPT ![s].done = TRUE]
  /\ UNCHANGED <<prep, want, saved, reader, writer, got, delivered>>

Call(s) ==
  \/ ReadUntil(s) \/ UntilStarted(s) \/ UntilNotStarted(s)
  \/ GetResult(s)
  \/ \E n \in 1..MaxRequest : Read(s, n) \/ Write(s, n) \/ GetBuffer(s, n)

Handler(s) ==
  \/ UntilMatched(s) \/ UntilFails(s) \/ ReadFails(s) \/ StoreHasDone(s)
  \/ \E k \in 1..StreamLen : UntilReceives(s, k) \/ ReadReceives(s, k)
  \/ \E n \in 0..MaxRequest : WriteDone(s, n)

Next == \E s \in States : Call(s) \/ Handler(s)

Spec == Init /\ [][Next]_vars

-----------------------------------------------------------------------------
(***************************************************************************)
(* Properties.                                                             *)
(***************************************************************************)
\* Every variable of network.cpp's state_type has a value of its type.
TypeOK ==
  /\ st \in [States -> [init : BOOLEAN, isRead : BOOLEAN, done : BOOLEAN,
                        bytes : Nat, buf : Seq(0..StreamLen),
                        ec : {"ok", "error"}]]
  /\ op \in [States -> {"none", "start", "until", "read", "write", "finish"}]
  /\ prep \in [States -> Seq(1..StreamLen)] /\ want \in [States -> Nat]
  /\ saved \in [init : BOOLEAN, isRead : BOOLEAN, done : BOOLEAN,
                ec : {"ok", "error"}]
  /\ reader \in States \cup {NoOne} /\ writer \in States \cup {NoOne}
  /\ got \in 0..StreamLen /\ delivered \in [States -> Seq(0..StreamLen)]

\* What went through a state, in the order the script gets it; Out is not the
\* peer's.
Held(s)   == delivered[s] \o st[s].buf \o prep[s]
Has(s, b) == \E i \in DOMAIN Held(s) : Held(s)[i] = b

\* No byte of the stream is lost, given twice or moved past a later one by
\* read_until, read, get_result and get_buffer (network.cpp:766-794, 960-1024),
\* whichever states they are used on, in whatever order they are mixed, and
\* wherever an operation fails: each state has its bytes in the order of the
\* stream, and every byte taken from the socket is in exactly one state.
StreamExact ==
  /\ \A s \in States : \A i, j \in DOMAIN Held(s) :
       /\ Held(s)[i] <= got
       /\ i < j /\ Held(s)[i] # Out /\ Held(s)[j] # Out => Held(s)[i] < Held(s)[j]
  /\ \A b \in 1..got : \E s \in States : \A t \in States : Has(t, b) <=> t = s

\* bytes_transferred never exceeds the buffer when get_result may use it
\* (network.cpp:774: iterators past the end otherwise), although get_buffer
\* takes bytes behind its back and a failed read_until leaves it alone.
ResultInBounds ==
  \A s \in States : st[s].isRead /\ st[s].done => st[s].bytes <= Len(st[s].buf)

\* A state that says "not done" has an operation that will say otherwise: a
\* wait() on it (network.cpp:832) would never return after a read_until that
\* threw.  An operation between its start and end_async_read has its direction
\* of the socket to itself (network.cpp:964-1030).
PendingOwned ==
  \A s \in States :
    /\ ~Settled(s) <=> op[s] # "none"
    /\ op[s] \in {"start", "until", "read"} <=> reader = s
    /\ op[s] = "write" <=> writer = s

=============================================================================

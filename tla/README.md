# covscript-network in TLA+

A verification project for covscript-network: the CovScript extension
`network.cpp` / `include/network.hpp` (sockets, TLS, asynchronous operations
over asio) and the packages written on top of it (`netutils.ecs`,
`argparse.ecs`).  The modules model the parts whose correctness depends on
interleavings, time-outs and failure paths; TLC checks them on small instances
and TLAPS proves the central ones for every instance.

Running the checks (inside this directory):

    tlc -workers 2 -config TcpSocket.cfg MCTcpSocket
    for m in *Proofs.tla; do tlapm $m; done

`PROJECT.json` lists all runs, the source lines of every definition, the
mutants that show each property can fail, the hazards and the findings.

## 1. The system

| Component | State | Operations | Interacts with |
|---|---|---|---|
| TCP socket (`network.hpp` 388-814) | descriptor, `tls_stream`, `tls_enabled`, `exclusive_operation`, `read_operation`, `write_operation`, `async_jobs` | connect, accept, connect_ssl, receive/read, send/write, available, peer_closed, shutdown, close, safe_shutdown, and async accept/connect/connect_ssl/read_until/read/write | event loop (completion handlers), TLS trust |
| Event loop (`network.cpp` 631-738, 1108-1140) | `thread_executors`, `lifecycle_mutex`, the io_context's work and stopped flag, worker threads, work guards | poll, poll_once, restart, work_guard, thread_worker construction and destruction, state.wait | every asynchronous operation |
| Asynchronous state (`network.cpp` 741-855, 960-1106) | `has_done`, `ec`, buffer, `bytes_transferred` | get_result, get_buffer, available, eof, wait, wait_for | sockets, scripts |
| UDP socket (`network.hpp` 835-1045, `network.cpp` 1382-1407) | the same flags and counter | receive_from, send_to, close, safe_close, async forms | event loop |
| TLS trust (`network.hpp` 64-362, `network.cpp` 73-138) | options, trust report | parse options, load trust stores | socket |
| Framing (`network.cpp` 140-168, `netutils.ecs` 120-203) | - | to/from_fixed_hex, send_content, receive_content | master/slave protocol |
| HTTP server, one process (`netutils.ecs` 318-725) | connection, read buffer, keep-alive counters | read_http_header, call_http_handler, simple_worker | sockets, file cache |
| HTTP server, master/slave (`netutils.ecs` 728-1157) | conn_list with request queues, slave_list, deprecated_rank | accept, request, dispatch, response and spawn fibers; slave loop | framing, sockets |
| File cache and paths (`netutils.ecs` 218-287, 1889-1904) | mtime_map, content_map | read_file, path_normalize | HTTP server |
| HTTP client (`netutils.ecs` 1163-1846) | connection, response buffer | http_request, post, streaming | sockets |
| Argument parser (`argparse.ecs`) | declared options | parse | - |
| asio (`include/asio`) | third party, vendored | - | treated as external: modelled by what the code relies on |

What is hard about it.  CovScript programs are single-threaded fibers that
switch at `cs_runtime_yield`, but `async.thread_worker` runs completion
handlers on OS threads, and an embedding may run several interpreters.  The
socket therefore has a lock-free admission protocol: an I/O call reserves its
direction and a unit of `async_jobs`, an exclusive operation takes
`exclusive_operation` and requires `async_jobs = 0`, and each side tests the
other twice.  `safe_shutdown` takes the exclusive flag first and then waits for
the jobs, cancels, times out, and finally runs a TLS close-notify that races a
timer.  The event loop may be driven by scripts or by workers, never by both,
may stop, and may be restarted only when nobody runs it.

What makes each component correct:

- TCP socket: reservations are given back exactly once on every path; whoever
  replaces the descriptor or the TLS stream is alone; no I/O uses a destroyed
  stream or bypasses a live one; a completed shutdown leaves nothing behind.
- Event loop: the executor count is exact; one kind of driver at a time;
  restart happens alone; guards outlive workers; completed operations are
  delivered; destructors return.
- safe_shutdown: returns; `true` means a clean end; the stream is destroyed
  only when quiescent; a late timer does no harm.
- Asynchronous state: bytes are handed out once, in order; a failed start
  leaves the state as it was.
- Master/slave: one response per request, in order; non-idempotent requests
  run at most once; ranks of live slaves are distinct.
- TLS trust: a stream that carries data was authenticated by an issuer, and for
  the host, its own call agreed to; a report is about the stream it is asked of.
- HTTP server: requests are framed exactly, whatever their bodies look like;
  nothing follows a response that announced the end; a client that is slow to
  send cannot keep a worker for ever (one that does not read its response can);
  the cache gives out the present content of a file, except where the
  modification time cannot tell.
- HTTP client: a returned body is the body that was sent; a complete response
  is returned; every socket goes through `safe_shutdown` before another is
  opened.

The hazards behind these properties are listed line by line in `PROJECT.json`.

## 2. Modules

| Module | Models | Shown by |
|---|---|---|
| `SocketGate` | abstract: what admission promises (admit, own, leave, replace) | refined by `TcpSocket` |
| `TcpSocket` | admission, I/O, exclusive operations, TLS life cycle, safe_shutdown | runs, proofs |
| `TcpSocketProofs` | theorems about `TcpSocket` and `SafeShutdown` | TLAPS |
| `EventLoop` | global_settings, workers, guards, restart, wait | runs, proofs |
| `EventLoopProofs` | theorems about `EventLoop` | TLAPS |
| `SafeShutdown` | one safe_shutdown with its read, close-notify, timer and loop | run, proofs |
| `UdpSocket` | admission, asynchronous operations, close and safe_close of UDP | run, proofs |
| `UdpSocketProofs` | theorems about `UdpSocket` | TLAPS |
| `MasterPipeline` | master, client side: connections, request queues, request, dispatch and response workers | runs, proofs |
| `MasterPipelineProofs` | theorems about `MasterPipeline` | TLAPS |
| `SlavePool` | master, slave side: ranks, dispatch with retries, heartbeats; the slaves | run, proofs |
| `SlavePoolProofs` | theorems about `SlavePool` | TLAPS |
| `ListScan` | the loops that erase from a list while they walk over it, for both | |
| `AsyncState` | buffers and flags of async.state over read_until, read, write, get_result, get_buffer | run, proofs |
| `AsyncStateProofs` | theorems about `AsyncState` | TLAPS |
| `TlsTrust` | connect_ssl's options, trust anchors, verification and reports | run, proofs |
| `HttpClient` | http_request: endpoints, header blocks, the three framings of a body | run, proofs |
| `HttpClientProofs` | theorems about `HttpClient` and `TlsTrust` | TLAPS |
| `HttpServer` | simple_worker, read_http_header, call_http_handler, stop(); composes `FileCache` | run, proofs |
| `FileCache` | http_server.read_file | run of `HttpServer`, proofs |
| `HttpServerProofs` | theorems about `HttpServer` and `FileCache` | TLAPS |
| `MC...` | instances and symmetry of the module they are named after | |

### TcpSocket

A task is one activity on one socket: a synchronous call, or an asynchronous
call with the handler that ends it.  `pc` is the next atomic access, `op` the
operation.  The variables are the fields of `tcp::socket`; `via` remembers
which transport an I/O call chose (raw descriptor, TLS stream, or a peek of the
raw socket) and `cancelled` which operations `sock.cancel()` aborted.

Each load, store, compare-exchange or fetch-add of the code is an action:
`ReserveDirection`, `LoadExclusive`, `CountJob`, `RecheckExclusive` are
`begin_io_job`; `UncountJob`, `UnreserveDirection` its rejections; `FinishJob`,
`ClearDirection` are `finish_io_job`; `AcquireExclusive`, `ReserveSlot`,
`AbandonExclusive`, `ReleaseSlot`, `ReleaseExclusive` are
`begin/end_exclusive_operation`.  `InitSsl`, `EnableTls`, `Handshake`,
`ClearEnabled`, `DropStream` are `init_ssl`, the handshake and `clear_ssl`.
`StartSafeShutdown` to `EndDraining` are `safe_shutdown`, its retry path
included.  A call that throws before it has changed anything is a stuttering
step.

Abstractions: payloads, endpoints and TLS options do not appear; an operation
may fail wherever the code has an error path.  The atomics are sequentially
consistent, while the code asks for acquire/release.  `receive`/`read` and
`send`/`write` are one operation each, as are `async.read` and
`async.read_until`: their steps on the modelled state are the same.
A descriptor's `close()` is taken to close it even when it reports an error.

### EventLoop

A script is an OS thread (or the fibers of one) that calls the async
namespace.  `executors`, `mutex` and `stopped` are `thread_executors`,
`lifecycle_mutex` and `io.stopped()`; every access is an action.  The asio
scheduler is external: it runs ready handlers in order, stops when its work
(guards, pending operations, queued handlers) drops to zero or when it is
polled without any, and runs nothing while stopped.  A worker object goes
through off, counted, its thread's loop (drain, test, block), exit, dead, off.
`SpawnThrows` is `std::thread` failing; `WorkerPoll` and `WorkerBlock` may end
the thread by a handler's exception.

### SafeShutdown

The waiting half of `safe_shutdown`, after it has won the exclusive flag: the
restart of the loop, cancel, the drain with its deadline, `async_shutdown`
against the timer, destruction of the stream, raw close.  `host` says whether a
work guard or a worker exists.  Handlers run when the loop is not stopped and
somebody polls: a worker, or the call itself inside its two waiting loops.  The
early `true` for a descriptor that is not open (network.cpp 1252) comes before
all this and is no step of the module.

### UdpSocket

The same steps as in TcpSocket, with the differences of the code: `close` is
the only exclusive operation, opening the descriptor does not go through the
protocol (`Open`), and `safe_close` first waits for `async_jobs = 0`
(`EndDrain`, which also stands for the deadline), tests it once more
(`LastTest`) and then calls `close`, without having stopped new operations.

### MasterPipeline

The workers of the master are fibers of one thread, so an action is what a
fiber does between two waits; the handler of a write is separate
(`WriteCompletes`) because a thread worker runs it before the fiber resumes.
`clist`, `cstate`, `keep`, `queue`, `idx`, `received` are `conn_list` and the
fields of `http_conn`.  `PickConn` and `SweepConns` are the request worker's
scan, `ReadRequest`, `RejectRequest`, `ReadTimeout`, `ReadEof` and
`ReadRefused` the outcomes of `read_http_header`, `EndReject` and `EndShutdown`
what follows; `Dispatch` and `Answer` the dispatch worker seen from a
connection; `PickResponse`, `WriteDone`, `WriteFailed` the response worker.
`ready` says whether `master_pick_slave` finds a slave; it changes at any time
(`SlavesChange`), and without one the dispatch worker yields and looks again.
`writing` is the outstanding write of a connection with its author, and `out`
what the client got.  An `async.write` or `async.read_until` that the socket
refuses throws; nobody catches it, and the fiber stays at `overlap` or
`refused`.  Requests are numbers per connection; what is in them, parsing and
the reason of a rejection are abstracted.  `safe_shutdown` is one step that
closes the socket when no write is outstanding, or gives up and returns false.

The scan of `PickConn` and `SweepConns` erases dead connections as it goes
(`EraseDead`).  `ListScan` says what such a loop leaves: the elements at a set
of positions, in the order they had.  It is stated (the one increasing listing
of the positions) instead of computed by recursion, because the proofs need to
reason about it.

### SlavePool

`slist`, `nstate`, `rank`, `deprecated` are `slave_list`, the fields of
`slave_node` and `deprecated_rank`.  A node is one connection: a slave that
comes back gets a new one.  `Pick` and `Sweep` are `master_pick_slave`,
`Dispatch` to `SeekTimeout` the dispatch worker, `SpawnAccept`, `SpawnOk`,
`SpawnFails` the spawn worker, `SlaveConfirms`, `SlaveExecutes`, `SlaveLeaves`
the slave.  Sending is a wait of its own, of a request (`RequestSent`,
`SendFails`) and of a heartbeat (`QuerySent`), because `send_content` waits
without a deadline (netutils.ecs 121, 1018) while the wait for the answer has
one (`AwaitFails`); `GiveUp` is what the two failures have in common.  `inbox`
and `outbox` are the two directions of the connection; a frame may be lost with
its connection, and every deadline may pass at any time.  `executed` counts
runs of a request's handler.  Shutting a dead node down is part of the step
that gives up on it.

### FileCache

A file on disk has a version of its content and a modification time, and
`Rewrite` gives it a new version with any time: the one it had (two writes
within a tick of the clock), a newer or an older one.  A content is the
sequence of the versions its chunks were read from, so that a mixture is
visible.  `Hit`, `Miss`, `ReadChunk`, `Store` are `read_file`, by any number of
fibers, with an await before every chunk; `StoreShort` is a file that could not
be opened or whose read failed, which the code does not ask about and caches
like any other.  `hash_map.insert` replaces an existing entry.  `spoilt` is not
in the code: it has the paths whose entry was disturbed in one of the three
ways that the two maps do not show.

### AsyncState

`st` has the fields of `state_type`; a byte is its position in the peer's
stream, so that loss, repetition and order can be stated.  `ReadUntil` is
`read_until` up to the call of asio, `UntilStarted` and `UntilNotStarted` its
two ends, the second one the catch block that restores what the call had
overwritten.  A handler has two visible steps: giving the direction back, and
storing `has_done` (`StoreHasDone`); between them the script may start the
next operation on another state.  `read` fills a region of the buffer that is
committed in its handler (`prep`, `Commit`); `read_until` commits as it goes.
The pattern is two bytes long and can be cut by the network and by
`get_buffer`.  `write` is there because a state keeps its unsent bytes after
an error and may be given to `read_until` next: they come before the bytes of
the peer.  One socket and one script thread; UDP's `receive_from` and
`send_to` use a fresh state for one datagram and have nothing to keep.

### TlsTrust

`InitSsl` is `parse_ssl_options`, `init_ssl`, `configure_client_context` and
`configure_client_stream`: it tries the sources of the mode (`Tried`), any of
which may fail to load, and records the report before the stream exists.  A
certificate is the source that holds its issuer, and whether it names the
host; `HandshakeOk` is what OpenSSL accepts with the anchors and the
verification the stream was given.  `ClearSsl` is `clear_ssl` with its flag,
used by a failed handshake, `safe_shutdown`, `shutdown` and `close`.  The
environment is read at its first use and kept (`cached`).

### HttpClient

CR and LF are tokens of their own and a body may hold them; a status line with
its headers is one token and a chunk-size line another, so every delimiter can
be cut by the network.  `pending` is the field of the same name;
`UntilReceives` and `ReadReceives` are the asynchronous reads with a fresh
state each.  `GetsLine` is `read_until_limited` returning, `TakePending` to
`ExactFails` are `read_exact`, `SizeLine` to `TrailerLine` are
`read_chunked_body`, `HeaderClose` and `RestEnds` a body that ends with the
connection.  The server may break off anywhere, and any wait may fail.  `sock`
is the client's socket: `CloseSocket` is `safe_shutdown`, which closes it or
gives up (network.cpp 1279, 1308); one it gave up on is "stuck", and "retried"
once it was tried again, as `connect_target` does first of all (in `Request`)
and `close()` whenever it is called (`CloseCalled`).  `ResolveFails` is a name
that is not found.
`result.why` is not in the code: it tells the properties which failure it was.

A response is what it says (interim blocks, framing, body, trailer), where its
body is cut into chunks, and the tokens it is sent as (`wire`).  `IsResponse`
says which token lies where, so that no recursion is needed and a proof can
look any token up; MCHttpClient builds its responses by concatenation, and TLC
evaluates `IsResponse` on each of them.  A "garbled" response announces chunks
and sends something else; it has no end, so `CompleteReturned` is not about it.

### HttpServer

A token is a line with its CRLF, or a byte of a body; a body may hold
something that looks like a line, which a reader that lost its place would
take for a header.  `LineReceives` to `ReadFails` are `read_http_header` with
`rbuf` the buffer of `read_state`; `Session` takes the part of the body that
came with the header, `BodyReceives` reads the rest.  `Enter` to `Decide` are
the second half of the worker's loop.  A handler is a bound function, which
may set `session.connection` and may send nothing, a static file (through
`FileCache`), or nothing at all, answered with 404 or 403 by a composed
response or by the page bound to that code.  A bound function has the socket and
may have closed it when it returns, which `Decide` finds.  `Stop` and `Dropped`
are `stop()`: in this mode it closes no connection, it drops the fibers.  One
worker is modelled in full.  All that it shares with the others is the cache,
so of those there are the calls of `read_file` (`OthersServe`), at any time.

A client is a sequence of requests, the place at which each begins (`at`) and
the tokens it sends (`stream`); `IsClient` ties the three together token by
token (`Token`), for the same reason as `IsResponse`.

## 3. Runs

| Run | Instance | Shows |
|---|---|---|
| tcp_socket | 3 tasks, all 14 operations, symmetry | `TypeOK`, `ReservationsBalance`, `OwnerExcludes`, `TransportCurrent`, `TlsCoherent`, `ShutdownComplete`, `IoKeepsTransport`, refinement of `SocketGate` |
| event_loop_safety | 2 scripts, 2 workers, 1 operation, symmetry | `ExecutorsExact`, `OneDriver`, `RestartAlone` |
| event_loop_fibers | 1 script, 2 workers | `GuardedLoopRuns`, `JoinReturns`, `WaitServed` |
| safe_shutdown | every host | `TrueMeansClosed`, `StreamQuiescent`, `ReturnsIfKept` |
| udp_socket | 3 tasks, all operations, symmetry | `ReservationsExact`, `NoCloseUnderIo` |
| master_pipeline | 2 connections of 2 requests, 2 request and 2 dispatch workers | order, `request_idx`, one fiber each, `RequestsSettled` |
| master_pipeline_idle | 1 connection, 1 request worker | `IdleOnly` fails (finding) |
| slave_pool | 2 nodes, 2 dispatch workers, two GETs and a POST, 1 retry | executions, answers, nodes, ranks, `TakenAnswered` |
| async_state | 3 states, 4 bytes with 2 patterns, requests of 1 or 2 bytes, symmetry | `StreamExact`, `ResultInBounds`, `PendingOwned` |
| tls_trust | 2 sockets, 1 variable, 2 CA options, 1 platform path, symmetry | `Authenticated`, `ReportMatches` |
| http_client | 2 endpoints, 2 requests, 14 responses | `BodyExact`, `CompleteReturned`, `SocketsReleased` |
| http_server | 1 connection of any of 7 clients, 2 fibers on 1 file of 2 chunks, 2 versions and 2 times | `RequestsExact`, `ResponsesExact`, `CacheCurrent`, `WorkerReturns` |

Bounds.  Three tasks give an owner, an operation it conflicts with, and a third
one that slips in between; the proofs remove the bound.  In EventLoop two
scripts and two workers cover every pair of roles (poller, restarter, builder,
destroyer against a worker that starts or ends); `MaxGuards` and `MaxWakes`
bound the script's guards and the destructor's wake-up handlers left in the
queue: one guard can be taken and dropped repeatedly, and a wake-up handler
has no effect but to be run.  An operation is reused, so that any number of
operations happen one after another.  SafeShutdown is finite by itself.
MasterPipeline: two connections compete for the workers and for the place in
the list; two pipelined requests give a queue with a front and a rest, of which
the slaves may finish the rest first, and the keep-alive limit is reached by
the second.  SlavePool: with one retry, a request
can fail on its first node and be sent to the second, which is the last one it
may try; the ranks need a live node and one that takes the place of a dead one.
AsyncState: three states let one hold leftovers of a read, one of a write and
one an operation under way; four bytes hold a pattern that is cut, one behind
another in one buffer, and bytes in front of a pattern.  TlsTrust: every
combination of options on two sockets, one of which may be in the middle of a
handshake; more files of a kind behave like the one.  HttpClient: every framing
with a body that looks like a delimiter, one that is too long, too many interim
blocks (`MaxInterim` is 1 instead of 10), and a chunk of two tokens so that
every longer read takes several; two requests, so that the second one meets
what the first one left.  HttpServer: the keep-alive limit is 2 and one client
sends 3 requests, each limit on sizes is passed by a request, and a file is
rewritten while it is read by one fiber or by both and between two reads; one
rewrite with two times gives a new time, the same one, and one that the cache
does not have yet.  One connection is enough because nothing but the cache
outlives it: `NewConnection` sets all variables of a connection, and the proofs
have any number of them.

Fairness.  EventLoop: weak fairness of each worker (an OS thread) and of a
script inside a call; strong fairness for taking `lifecycle_mutex`, which is
held only for short sections, and for starting a thread (the system is not out
of threads for ever); a waiting script keeps polling, which is the loop of
`wait_impl`.  Nothing is assumed of the peer.  SafeShutdown: the calling thread
and the driver of the loop are scheduled, and the timer expires; again the peer
owes nothing.  MasterPipeline: `run()` resumes every fiber in turn, and a read
ends at its deadline at the latest; the client need not send anything.  Writes,
dispatches and slaves are not fair, because the waits for them have no
deadline.  `RequestsSettled` has them as premises: writes end (`WritesEnd`),
the dispatches of handed out requests end (`DispatchesEnd`), and from some time
on a slave is ready whenever one is looked for (`SlavesStay`).  What it adds is
that nothing else can hold a request up.  SlavePool: only the steps that end a
wait with a deadline (`receive_content_s`, the search for another slave) are
fair.  Sends are not, and `TakenAnswered` has their end as its premise
(`SendsEnd`); a slave that took a request need not do anything.  HttpServer:
the worker's fiber is resumed (`run()` resumes every fiber in turn), which
includes that a deadline passes, because `wait_for` is polled, and that the
wait for the write of a response ends: that one has no deadline in the code
(netutils.ecs 707), so the client has to read, or the connection to break.  The
client need not send anything.

`RequestsSettled` exempts a server in which a fiber was ended by an exception
(with the response worker gone nothing is written any more) and one in which a
`safe_shutdown` gave up: a request worker that still reads from such a
connection may queue a request behind a stale `request_idx`, which is never
dispatched and holds up the response worker.  `RanksDistinct` exempts a pool in
which a handshake failed; section 5 says what happens then.

`GuardedLoopRuns`, `JoinReturns` and `WaitServed` are checked for one script thread, which is
how one interpreter uses the library.  With two OS threads the first two fail: a work
guard dropped between another thread's `stopped()` test and its new guard
leaves the loop stopped under a counted worker, and a worker whose drain loop
always finds another handler never tests `running`.

## 4. Proofs

`TcpSocketProofs` proves, for any finite set of tasks and any set of
operations: `TypeCorrect`, `ReservationsExact` (`ReservationsBalance`), `MutualExclusion` (`OwnerExcludes`), `TransportSafe`
(`TransportCurrent`), `TlsFlagSafe` (`TlsCoherent`), `ShutdownSafe`
(`ShutdownComplete`), `TransportStable` (`IoKeepsTransport`) and
`SocketRefinesGate` (`ImplementsGate`).  The assumptions are that `Tasks` is
finite and that `Ops` is a set of the known operations.

The argument.  None of these is inductive alone.  `GateInv` says that the
shared flags and the counter are exactly what the program counters hold
(`ReservationsBalance`: `JobsExact`, `ExclusiveExact`, `DirectionExact`), that a program counter fits
its operation, and `OwnerExcludes`.  An owner appears either at the
compare-exchange of `async_jobs` from 0, or at the drain's load of 0: by
`JobsExact` no task is counted then, so none is admitted.  A task is admitted
only at the second load of `exclusive_operation`, where by `ExclusiveExact`
nobody can be an owner.  The counter is a cardinality, so each step adds or
removes one element of a finite set.  `TlsInv` follows the TLS flag, stream and
descriptor through the owner's program counters, and `TransportCurrent` needs
both: the stream changes only in an owner's step, and then nobody is inside an
I/O call.  `IInv` is the conjunction; the refinement maps a task's role from
its program counter and uses `IInv` for the guards of the abstract actions.

The module also has the waiting half of the call: `ShutdownTrueMeansClosed`
(`TrueMeansClosed`) and `ShutdownStreamQuiescent` (`StreamQuiescent`, a property
of steps) hold of `SafeShutdown`, by `CloseInv`.  It says what every statement
of the call may rely on: up to the close-notify neither it nor its timer
exists, behind the drain no read is left, and behind the wait the
close-notify is done or was never started (`Over`), so that a timer that fires
late changes nothing.  The one way to return true is from there, without the
timer having cut the close-notify short.

`HttpServerProofs` proves `FibersCacheCurrent` (`CacheCurrent`) of `FileCache`,
for any sets of fibers and paths and any number of chunks and versions, from
`CacheAssumption` (both numbers positive).  `CacheCurrent` speaks of an entry
that nobody is reading; the invariant (`EntryInv`) adds what the readers have.
As long as nothing disturbed the entry and the recorded time is the file's,
every fiber that reads the file has read the present version only, so whichever
of them ends last stores all of it.  A rewrite under another time makes the
recorded time wrong and the statement empty; the next miss makes it true again,
by starting from nothing if it is alone and by marking the entry if it is not.
`ServerImplementsCache` shows that every step of the server is a step of the
cache or leaves it alone, which gives `ServerCacheCurrent`.

It also proves `ServerRequestsExact` (`RequestsExact`) and
`ServerResponsesExact` (`ResponsesExact`) for every set of clients and any
limits.  `RequestsExact` says nothing of a request half read.  `ServerInv` does:
`rbuf` is always the part of the stream from a known place to where the socket
was read (`Window`), namely the beginning of the next request between requests
(`BoundaryInv`), behind the header lines so far (`LineInv`), or behind the part
of the body so far (`BodyInv`, with `rbuf` empty while bytes are missing).  A
line of the body is never taken for a header, because the place at which a
header is read is always one where `IsClient` has a header.  For the responses,
none is ahead of the request being served, and one that announces the end is
the last (`ReplyInv`).

`HttpClientProofs` proves, for every set of responses, any limits and any
numbers of endpoints and requests, `ClientBodyExact` (`BodyExact`),
`ClientCompleteReturned` (`CompleteReturned`) and `ClientSocketsReleased`
(`SocketsReleased`).  `ClientInv` has a place `u` in the response such that the
first `u` tokens were used, `pending` holds those behind them and the buffer of
the read under way the rest of what was taken (`At`); and it says what the used
ones have become, wherever `http_request` stands (`Phase`, one conjunct per
place: after so many header blocks, in the middle of a body, before the size
line of chunk c + 1, in chunk c, in the CRLF behind it, at the trailer).  The
places are computed from the response (`HeadEnd`, `Mark`), and the facts about
what lies there are lemmas on `IsResponse` (`HeadAt`, `SizeAt`, `ChunkAt`,
`TrailerAt`, `PlainAt`).  `FirstLine` gives the first delimiter behind a place,
so a body that holds CR and LF is never searched.  For `CompleteReturned`: when
a read ends although everything came, what was taken holds the delimiter that
was looked for (`LineComes`); it is neither in `pending` nor in the bytes of the
read (`ReadInv`), so it lies across the two (`CutBetween`), which is
`CutDelimiter`.  For a length or a chunk the bytes that are missing lie within
the response (`ExactComes`), so the end of the connection cannot come first.
`SocketsReleased` needs to tell the first attempt of a request from those that
follow a failed one, which the number of endpoints left does (`SockInv`).

The module also proves `AlwaysAuthenticated` (`Authenticated`) and
`AlwaysReported` (`ReportMatches`) of `TlsTrust` for any set of sockets and any
sources, without an assumption on the constants.  The invariant `TrustInv` adds
that a stream's anchors are among those its own call allows (`StreamInv`: the
lemma `TriedAllowed` goes through the modes, and the cached environment, once
read, holds only the two variables) and that a socket which is secured has a
stream, so that `init_ssl`, which asks for none, cannot change what a secured
stream rests on.  What OpenSSL accepts is the external action `HandshakeOk`.

`UdpSocketProofs` proves `UdpReservations` (`ReservationsExact`) and
`UdpCloseSafe` (`NoCloseUnderIo`, a property of steps) for any finite set of
tasks.  The invariant ties `async_jobs`, `exclusive_operation` and the
direction flags to the program counters, as for TCP; that `safe_close` drains
before it takes the flag plays no part, the compare-exchange from 0 does.

`EventLoopProofs` proves `ExecutorsCounted` (`ExecutorsExact`), `SingleDriver`
(`OneDriver`) and `RestartIsAlone` (`RestartAlone`) for any finite sets of
scripts, workers and operations.  `lifecycle_mutex` protects the increments of
`thread_executors` and not its decrements, so what a script found under the
lock (`AloneInv`: nobody is counted) stays true until it unlocks.  For the
count itself one has to know that a worker object is in the hands of one
script, and how far its thread is then (`ObjectInv`).  `OneScriptGuards`
(`GuardedLoopRuns`) has the hypothesis that there is one script thread; section
3 says what two can do.

`SlavePoolProofs` proves `ExecutionsLimited` (`ExecutionBounded`), `AnswersOwn`
(`AnswerMatches`), `NodesOwned` (`NodesExact`) and `RanksUnique`
(`RanksDistinct`) for any finite sets of nodes and requests, any dispatch workers
and any retry limit.  A connection carries at most one message, and only while
its node is in use or given up (`LinkInv`), so an answer found on it is the one
that is waited for.  The bound on executions is inductive only for `Load`, the
executions plus the copies of the request that a slave may still execute:
giving up on a slave does not stop it.  The ranks in the list, those given back
and the one in the handshake are distinct and smaller than their number, which
is what makes `slave_list.size`, taken when none was given back, a new one.

`MasterPipelineProofs` proves `ResponsesOrdered` (`ResponsesInOrder`),
`FibersAlone` (`OneFiberEach`) and `IdxSeparates` (`IdxExact`) for any finite
set of connections, any workers and any number of requests.  A connection is
described by four numbers, requests read, queued, handed out and answered.
`CountInv` says that either they fit together, with the moment between the end
of a write and `pop_front` accounted for (`Whole`), or the queue was dropped
after a failed write and `request_idx` is stale, and then at most one more
request is read and it is not handed out (`Cut`).  This is why a stale
`request_idx` does not put a response in the wrong place.

`AsyncStateProofs` proves `StreamKept` (`StreamExact`), `ResultsBounded`
(`ResultInBounds`) and `OperationsOwned` (`PendingOwned`) for any set of states,
any stream, any positions of the pattern and any sizes.  `Local` is what holds
of one state: an unused one is empty, what a running `read_until` saved describes
a settled one, a writing one has only its own data, a region is prepared only
under `read`, and a direction has one owner.  A step touches one state
(`Others`), and for the stream it is one of three kinds (`Kind`): bytes move
inside the state (`get_result`, `get_buffer`, `commit`), the next bytes of the
stream come to its end, or it has only outgoing bytes and changes those.  The
position that `async_read_until` reports is the least one by the least-number
principle (`Smallest`, from the well-foundedness of `<`).

The assumptions of all these are the named ASSUMEs of the modules: finite sets
where something is counted, the numbers that configure a server or a client,
that requests and responses are well-formed (`IsClient`, `IsResponse`; garbled
and invalid ones included), and that the
markers (`None`, `NoOne`, `Wake`, ...) are not members of the sets they mark.
TLC evaluates them in every run.

Only model-checked: the liveness properties (`JoinReturns`, `WaitServed`,
`ReturnsIfKept`, `RequestsSettled`, `TakenAnswered`, `WorkerReturns`), because
fairness is outside what the prover handles.  Every safety property of a
passing run is also a theorem; `GuardedLoopRuns` has one script thread as its
hypothesis there, as in its run.

## 5. Findings

One has a run whose property fails:

- `master_pipeline_idle`: the deadline of the read-ahead is computed before the
  previous request is answered, so a slow slave costs the client a 408 and its
  response, against the comment at netutils.ecs 920-922.

The others were seen while modelling and are steps of the models, or
exceptions named in their properties.

In the library:

- With neither a work guard nor a worker, draining the last operation stops the
  loop; the close-notify and its timer are started on a stopped loop and the
  wait at network.cpp 1358 never ends, although the comment at 1311-1312 counts
  on the timer.  `ReturnsIfKept` has the guard or the worker as its premise for
  this reason.
- A `read_until` that fails leaves `bytes_transferred` at zero (network.cpp
  977): `get_result` returns nothing, and the bytes that came are to be had
  from `get_buffer` only, where CNI_API.md 348 names both.
- A state that a failed `write` left with unsent bytes may be given to
  `read_until`; they are then found in front of what the peer sends.
- The comment at network.hpp 174 says that the platform's certificate paths are
  tried only if `set_default_verify_paths` fails; line 310 tries them always.
- safe_shutdown cancels once (network.cpp 1297).  A composed read that is
  between two of its steps at that moment starts the next one afterwards and
  keeps `async_jobs` above zero until the deadline (comment at 1293-1294).
- CNI_API.md 344 promises an unlimited wait for asynchronous tasks; the code
  gives up after `NETWORK_SAFE_SHUTDOWN_TIMEOUT_MS`, as README.md 85 says.

In netutils:

- The request worker reads ahead and writes its error responses itself: they
  overtake the responses to earlier pipelined requests (NETUTILS.md 24), and
  when the response worker is writing to the same socket the second
  `async.write` throws and ends its fiber (NETUTILS.md 295), which is the
  program counter `overlap`.
- A failed handshake loses the recycled rank it took, and a later slave is
  given the rank of a live one (netutils.ecs 768-770, NETUTILS.md 115).
- The response worker waits for a write without a deadline (netutils.ecs 912),
  and there is one of it: a client that does not read keeps all others from
  their responses.  `WritesEnd` is a premise of `RequestsSettled` for this
  reason.  The single-process worker has the same wait (707), for one client.
- Without a ready slave a request waits for ever (netutils.ecs 966-973), although
  NETUTILS.md 386 says that the master finally answers with an error code;
  `SlavesStay` is the premise.
- `send_content` and the write of a request's body wait without a deadline
  (netutils.ecs 121, 1018): a slave that stops reading keeps the dispatch worker
  and the request, and `master_dispatch_retry` does not come into play.
  `SendsEnd` and `DispatchesEnd` are the premises.
- The file cache records the modification time before the content is read
  (netutils.ecs 1897).  Until the read has ended, another fiber is given the old
  content under the new time.  And an entry may stay wrong for good
  (NETUTILS.md 192) in three cases: the file is rewritten with the time that is
  recorded; a read fails, and what came of it is cached (205-213); a read that
  began under an older time ends after one under the newer.  `CacheCurrent`
  names the four and fails without any of them.
- `safe_shutdown` may give up and return false with the socket open (network.cpp
  1279, 1308), and the HTTP client does not look at the result.  At the end of a
  request the socket is kept and tried again by the next one (netutils.ecs
  1334); an attempt on an endpoint that failed gets one try, and its socket is
  replaced whether it was closed or not (1344).
- The HTTP client looks for a delimiter in `pending`, then in the bytes of one
  `async.read_until` (netutils.ecs 1387, 1398).  A delimiter that is cut
  between the two is found by neither: the client waits for another one, and
  gives up a complete response at the end of the connection.
  `CompleteReturned` names this case as its exception.
- `read_until_limited` compares the size of all that is pending, body included,
  with the limit of the line (netutils.ecs 1422): a short header may be refused
  because a long body came with it.
- A body without a length is returned as a success when the wait for its next
  part times out (netutils.ecs 1605-1613), and that last part is not counted
  against `http_max_body_size`.
- In a single process `stop()` shuts no connection down: `conn_list` belongs to
  the master (netutils.ecs 2163), and a fiber in the middle of a request is
  dropped with its socket after one more timeslice.

## 6. Where it could go on

- An abstract server that answers every request once, in order, refined by
  HttpServer and MasterPipeline; `ResponsesExact`, `ResponsesInOrder` and
  `IdxExact` are the facts the refinements need.
- The composition of MasterPipeline and SlavePool, by proof rather than by TLC:
  the dispatch worker is the only thing they share.

## 7. Not modelled

- MasterPipeline and SlavePool are separate: each has the other as a
  nondeterministic neighbour.  Their product is out of TLC's reach with two
  connections and two nodes, and with one of each nothing interesting happens.
- Routing, path normalisation, URL parsing, hex conversion, the argument parser
  and openai_client's JSON are sequential work on strings and keep no state that
  another step could find changed; unit tests reach them.
- Proxy handlers (`bind_proxy`) are an HTTP client inside a handler; the two
  modules are not composed.
- Weak memory: the atomics are sequentially consistent in the models.
- CNI registration tables, OpenSSL itself, logging and message texts, header
  formatting, and the vendored asio, of which the models have what the code
  relies on.

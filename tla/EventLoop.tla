----------------------------- MODULE EventLoop ------------------------------
(***************************************************************************)
(* Who drives asio's io_context, and when it may stop: global_settings     *)
(* (poll, poll_one), thread_worker objects and their threads, restart(),   *)
(* work_guard() and state.wait() of network.cpp.                           *)
(*                                                                         *)
(* A script is an OS thread (or a fiber) that calls the async namespace.   *)
(* Every access to thread_executors, to the stopped flag and to            *)
(* lifecycle_mutex is a step of its own.  The scheduler of asio is         *)
(* modelled by what the code relies on: it stops when its outstanding work *)
(* drops to zero or when it is polled without work, it runs no handler     *)
(* while stopped, and it runs ready handlers in order.                     *)
(***************************************************************************)
EXTENDS Naturals, Sequences, FiniteSets

CONSTANTS
  Scripts,     \* threads or fibers that call the async API
  Workers,     \* thread_worker objects
  Ops,         \* asynchronous operations
  MaxGuards,   \* bound on the work guards the scripts keep
  MaxWakes     \* bound on the wake-up handlers left in the queue

ASSUME SetsAssumption ==
  /\ IsFiniteSet(Scripts) /\ IsFiniteSet(Workers) /\ IsFiniteSet(Ops)
  /\ MaxGuards \in Nat /\ MaxWakes \in Nat

None == "none"
Wake == "wake"          \* the empty handler the destructor posts

ASSUME NamesAssumption == None \notin Scripts \cup Workers \cup Ops /\ Wake \notin Ops

VARIABLES
  executors,   \* thread_executors
  mutex,       \* who holds lifecycle_mutex, or None
  stopped,     \* io.stopped()
  guards,      \* work guards held by scripts
  held,        \* workers whose own work_guard exists
  opState,     \* an operation's life: none, pending, ready, done
  queue,       \* handlers ready to run, in order
  running,     \* the running flag of each worker object
  wpc,         \* the step each worker thread is about to take
  spc,         \* the step each script is about to take
  goal,        \* why a script took lifecycle_mutex
  obj,         \* the worker object a script builds or destroys
  waits        \* the operation a script is in state.wait() for

loop     == <<executors, mutex, stopped>>
work     == <<guards, held, opState, queue>>
threads  == <<running, wpc>>
scripts  == <<spc, goal, obj, waits>>
vars     == <<loop, work, threads, scripts>>

LoopPcs    == {"drain", "test", "block"}     \* inside executor()
CountedPcs == {"counted", "exit"} \cup LoopPcs
WorkerPcs  == {"off", "dead"} \cup CountedPcs
LockedPcs  == {"poll_check", "polling", "unlock", "check", "restart", "create", "count"}
ScriptPcs  == {"idle", "poll_lock", "lock", "spawn", "spawn_failed", "post", "join",
               "release"} \cup LockedPcs

Pending == {o \in Ops : opState[o] = "pending"}

(* asio's outstanding work: guards, operations and queued handlers.        *)
NoWork == guards = 0 /\ held = {} /\ Pending = {} /\ queue = <<>>

(* Work went away in this step: the scheduler stops when none is left.     *)
WorkFinished == stopped' = (stopped \/ NoWork')

Init ==
  /\ executors = 0 /\ mutex = None /\ stopped = FALSE
  /\ guards = 0 /\ held = {}
  /\ opState = [o \in Ops |-> "none"] /\ queue = <<>>
  /\ running = [w \in Workers |-> FALSE]
  /\ wpc = [w \in Workers |-> "off"]
  /\ spc = [s \in Scripts |-> "idle"]
  /\ goal = [s \in Scripts |-> None]
  /\ obj = [s \in Scripts |-> None]
  /\ waits = [s \in Scripts |-> None]

(* A script that is not inside a call.                                     *)
Free(s) == spc[s] = "idle" /\ waits[s] = None

SStep(s, from, to) == spc[s] = from /\ spc' = [spc EXCEPT ![s] = to]
WStep(w, from, to) == wpc[w] = from /\ wpc' = [wpc EXCEPT ![w] = to]

Lock(s)   == mutex = None /\ mutex' = s
Unlock(s) == mutex = s /\ mutex' = None

(* The scheduler takes the first ready handler and runs it to its end.     *)
RunHandler ==
  /\ ~stopped /\ queue # <<>>
  /\ queue' = Tail(queue)
  /\ opState' = [o \in Ops |-> IF o = Head(queue) THEN "done" ELSE opState[o]]
  /\ UNCHANGED <<guards, held>>
  /\ WorkFinished

NothingToRun == stopped \/ queue = <<>>
-----------------------------------------------------------------------------
(* Operations and guards.                                                  *)

StartOp(s, o) ==
  /\ Free(s) /\ opState[o] = "none"
  /\ opState' = [opState EXCEPT ![o] = "pending"]
  /\ UNCHANGED <<loop, guards, held, queue, threads, scripts>>

(* The kernel finishes an operation: its handler is ready.                 *)
OpReady(o) ==
  /\ opState[o] = "pending"
  /\ opState' = [opState EXCEPT ![o] = "ready"]
  /\ queue' = Append(queue, o)
  /\ UNCHANGED <<loop, guards, held, threads, scripts>>

(* The script has consumed the result and drops the state.                 *)
Forget(o) ==
  /\ opState[o] = "done" /\ \A s \in Scripts : waits[s] # o
  /\ opState' = [opState EXCEPT ![o] = "none"]
  /\ UNCHANGED <<loop, guards, held, queue, threads, scripts>>

(* ~work_guard: without lifecycle_mutex.                                   *)
DropGuard(s) ==
  /\ Free(s) /\ guards > 0
  /\ guards' = guards - 1
  /\ UNCHANGED <<held, opState, queue>>
  /\ WorkFinished
  /\ UNCHANGED <<executors, mutex, threads, scripts>>
-----------------------------------------------------------------------------
(* poll() and poll_one(), and wait(), which repeats poll() and a yield     *)
(* until the operation is done.                                            *)

BeginWait(s, o) ==
  /\ Free(s) /\ opState[o] # "none"
  /\ waits' = [waits EXCEPT ![s] = o]
  /\ UNCHANGED <<loop, work, threads, spc, goal, obj>>

EndWait(s) ==
  /\ spc[s] = "idle" /\ waits[s] # None /\ opState[waits[s]] = "done"
  /\ waits' = [waits EXCEPT ![s] = None]
  /\ UNCHANGED <<loop, work, threads, spc, goal, obj>>

(* wait_for gives up: the operation stays pending.                         *)
WaitTimeout(s) ==
  /\ spc[s] = "idle" /\ waits[s] # None
  /\ waits' = [waits EXCEPT ![s] = None]
  /\ UNCHANGED <<loop, work, threads, spc, goal, obj>>

(* The lock-free fast path returns when a worker is counted.               *)
PollFast(s) ==
  /\ executors = 0
  /\ \E how \in {"poll", "poll_one"} :
       /\ waits[s] # None => how = "poll"
       /\ goal' = [goal EXCEPT ![s] = how]
  /\ SStep(s, "idle", "poll_lock")
  /\ UNCHANGED <<loop, work, threads, obj, waits>>

PollLock(s) ==
  /\ SStep(s, "poll_lock", "poll_check") /\ Lock(s)
  /\ UNCHANGED <<executors, stopped, work, threads, goal, obj, waits>>

(* Mutant: poll() trusts its first test and does not repeat it under the   *)
(* lock.                                                                   *)

PollCheckOnce(s) ==
  /\ SStep(s, "poll_check", "polling")
  /\ stopped' = (stopped \/ NoWork)
  /\ UNCHANGED <<executors, mutex, work, threads, goal, obj, waits>>

(* The second test, under the lock; io.poll() without work stops.          *)
PollCheck(s) ==
  /\ SStep(s, "poll_check", IF executors = 0 THEN "polling" ELSE "unlock")
  /\ stopped' = (stopped \/ (executors = 0 /\ NoWork))
  /\ UNCHANGED <<executors, mutex, work, threads, goal, obj, waits>>

PollRun(s) ==
  /\ SStep(s, "polling", IF goal[s] = "poll" THEN "polling" ELSE "unlock")
  /\ RunHandler
  /\ UNCHANGED <<executors, mutex, threads, goal, obj, waits>>

PollEnd(s) ==
  /\ SStep(s, "polling", "unlock") /\ NothingToRun
  /\ UNCHANGED <<loop, work, threads, goal, obj, waits>>

LeaveMutex(s) ==
  /\ SStep(s, "unlock", IF goal[s] = "worker" THEN "spawn" ELSE "idle")
  /\ Unlock(s)
  /\ goal' = [goal EXCEPT ![s] = None]
  /\ UNCHANGED <<executors, stopped, work, threads, obj, waits>>
-----------------------------------------------------------------------------
(* restart(), work_guard() and the constructor of thread_worker: all three *)
(* restart a stopped loop under the lock when no worker is counted.        *)

BeginLifecycle(s) ==
  /\ Free(s)
  /\ \/ /\ goal' = [goal EXCEPT ![s] = "restart"]
        /\ UNCHANGED <<obj, running>>
     \/ /\ guards < MaxGuards
        /\ goal' = [goal EXCEPT ![s] = "guard"]
        /\ UNCHANGED <<obj, running>>
     \/ \E w \in Workers :
          /\ wpc[w] = "off" /\ \A u \in Scripts : obj[u] # w
          /\ goal' = [goal EXCEPT ![s] = "worker"]
          /\ obj' = [obj EXCEPT ![s] = w]
          /\ running' = [running EXCEPT ![w] = TRUE]
  /\ spc' = [spc EXCEPT ![s] = "lock"]
  /\ UNCHANGED <<loop, work, wpc, waits>>

LifecycleLock(s) ==
  /\ SStep(s, "lock", "check") /\ Lock(s)
  /\ UNCHANGED <<executors, stopped, work, threads, goal, obj, waits>>

(* Mutants: a stopped loop is restarted whoever drives it; it is never     *)
(* restarted.                                                              *)

CheckStoppedOnly(s) ==
  /\ SStep(s, "check", IF stopped THEN "restart" ELSE "create")
  /\ UNCHANGED <<loop, work, threads, goal, obj, waits>>

CheckNothing(s) ==
  /\ SStep(s, "check", "create")
  /\ UNCHANGED <<loop, work, threads, goal, obj, waits>>

CheckStopped(s) ==
  /\ SStep(s, "check", IF executors = 0 /\ stopped THEN "restart" ELSE "create")
  /\ UNCHANGED <<loop, work, threads, goal, obj, waits>>

Restart(s) ==
  /\ SStep(s, "restart", "create")
  /\ stopped' = FALSE
  /\ UNCHANGED <<executors, mutex, work, threads, goal, obj, waits>>

Create(s) ==
  /\ SStep(s, "create", IF goal[s] = "worker" THEN "count" ELSE "unlock")
  /\ guards' = IF goal[s] = "guard" THEN guards + 1 ELSE guards
  /\ held' = IF goal[s] = "worker" THEN held \cup {obj[s]} ELSE held
  /\ UNCHANGED <<loop, opState, queue, threads, goal, obj, waits>>

CountExecutor(s) ==
  /\ SStep(s, "count", "unlock")
  /\ executors' = executors + 1
  /\ wpc' = [wpc EXCEPT ![obj[s]] = "counted"]
  /\ UNCHANGED <<mutex, stopped, work, running, goal, obj, waits>>

(* std::thread starts the worker, or throws and the count is taken back.   *)
Spawn(s) ==
  /\ SStep(s, "spawn", "idle")
  /\ wpc' = [wpc EXCEPT ![obj[s]] = "drain"]
  /\ obj' = [obj EXCEPT ![s] = None]
  /\ UNCHANGED <<loop, work, running, goal, waits>>

SpawnThrows(s) ==
  /\ SStep(s, "spawn", "spawn_failed")
  /\ UNCHANGED <<loop, work, threads, goal, obj, waits>>

(* Mutant: the catch block forgets the count.                              *)

SpawnFailedKeepsCount(s) ==
  /\ SStep(s, "spawn_failed", "release")
  /\ wpc' = [wpc EXCEPT ![obj[s]] = "dead"]
  /\ UNCHANGED <<loop, work, running, goal, obj, waits>>

SpawnFailed(s) ==
  /\ SStep(s, "spawn_failed", "release")
  /\ executors' = executors - 1
  /\ wpc' = [wpc EXCEPT ![obj[s]] = "dead"]
  /\ UNCHANGED <<mutex, stopped, work, running, goal, obj, waits>>
-----------------------------------------------------------------------------
(* ~thread_worker: clear running, post a wake-up, join, drop the guard.    *)

Destroy(s, w) ==
  /\ wpc[w] # "off" /\ \A u \in Scripts : obj[u] # w
  /\ Free(s)
  /\ Cardinality({i \in DOMAIN queue : queue[i] = Wake}) < MaxWakes
  /\ SStep(s, "idle", "post")
  /\ running' = [running EXCEPT ![w] = FALSE]
  /\ obj' = [obj EXCEPT ![s] = w]
  /\ UNCHANGED <<loop, work, wpc, goal, waits>>

Post(s) ==
  /\ SStep(s, "post", "join")
  /\ queue' = Append(queue, Wake) \/ UNCHANGED queue
  /\ UNCHANGED <<loop, guards, held, opState, threads, goal, obj, waits>>

Join(s) ==
  /\ SStep(s, "join", "release") /\ wpc[obj[s]] = "dead"
  /\ UNCHANGED <<loop, work, threads, goal, obj, waits>>

(* The members are destroyed: the worker's guard goes last.                *)
Release(s) ==
  /\ SStep(s, "release", "idle")
  /\ held' = held \ {obj[s]}
  /\ wpc' = [wpc EXCEPT ![obj[s]] = "off"]
  /\ running' = [running EXCEPT ![obj[s]] = FALSE]
  /\ obj' = [obj EXCEPT ![s] = None]
  /\ UNCHANGED <<guards, opState, queue>>
  /\ WorkFinished
  /\ UNCHANGED <<executors, mutex, goal, waits>>
-----------------------------------------------------------------------------
(* executor(): the worker thread's loop.                                   *)

(* while (io.poll_one() > 0); a handler that throws ends the loop.         *)
WorkerPoll(w) ==
  /\ \/ WStep(w, "drain", "drain") \/ WStep(w, "drain", "exit")
  /\ RunHandler
  /\ UNCHANGED <<executors, mutex, running, scripts>>

WorkerEmpty(w) ==
  /\ WStep(w, "drain", "test") /\ NothingToRun
  /\ UNCHANGED <<loop, work, running, scripts>>

(* Mutant: the loop does not look at running.                              *)

WorkerTestForgets(w) ==
  /\ WStep(w, "test", "block")
  /\ UNCHANGED <<loop, work, running, scripts>>

WorkerTest(w) ==
  /\ WStep(w, "test", IF running[w] THEN "block" ELSE "exit")
  /\ UNCHANGED <<loop, work, running, scripts>>

(* run_one_for: one handler, which may throw, or nothing until the timeout.*)
WorkerBlock(w) ==
  /\ \/ (WStep(w, "block", "drain") \/ WStep(w, "block", "exit")) /\ RunHandler
     \/ WStep(w, "block", "drain") /\ UNCHANGED <<stopped, work>>
  /\ UNCHANGED <<executors, mutex, running, scripts>>

(* The thread's last statement, without lifecycle_mutex.                   *)
WorkerExit(w) ==
  /\ WStep(w, "exit", "dead")
  /\ executors' = executors - 1
  /\ UNCHANGED <<mutex, stopped, work, running, scripts>>
-----------------------------------------------------------------------------
ScriptStep(s) ==
  \/ PollLock(s) \/ PollCheck(s) \/ PollRun(s) \/ PollEnd(s) \/ LeaveMutex(s)
  \/ LifecycleLock(s) \/ CheckStopped(s) \/ Restart(s) \/ Create(s)
  \/ CountExecutor(s) \/ Spawn(s) \/ SpawnThrows(s) \/ SpawnFailed(s)
  \/ Post(s) \/ Join(s) \/ Release(s) \/ EndWait(s)

ScriptCall(s) ==
  \/ \E o \in Ops : StartOp(s, o) \/ BeginWait(s, o)
  \/ DropGuard(s) \/ WaitTimeout(s) \/ PollFast(s) \/ BeginLifecycle(s)
  \/ \E w \in Workers : Destroy(s, w)

WorkerStep(w) ==
  WorkerPoll(w) \/ WorkerEmpty(w) \/ WorkerTest(w) \/ WorkerBlock(w) \/ WorkerExit(w)

Next ==
  \/ \E s \in Scripts : ScriptStep(s) \/ ScriptCall(s)
  \/ \E w \in Workers : WorkerStep(w)
  \/ \E o \in Ops : OpReady(o) \/ Forget(o)

(* A worker is an OS thread and is scheduled; a script finishes the call   *)
(* it is in; std::mutex is granted eventually; the system is not out of    *)
(* threads forever; wait() keeps polling.                                  *)
Fairness ==
  /\ \A w \in Workers : WF_vars(WorkerStep(w))
  /\ \A s \in Scripts :
       /\ WF_vars(ScriptStep(s))
       /\ SF_vars(PollLock(s)) /\ SF_vars(LifecycleLock(s)) /\ SF_vars(Spawn(s))
       /\ WF_vars(waits[s] # None /\ PollFast(s))

Spec == Init /\ [][Next]_vars
FairSpec == Spec /\ Fairness
-----------------------------------------------------------------------------
(* Properties.                                                             *)

(* Every variable has its type; thread_executors, a size_t, never wraps.   *)
TypeOK ==
  /\ executors \in Nat /\ mutex \in Scripts \cup {None} /\ stopped \in BOOLEAN
  /\ guards \in Nat /\ held \subseteq Workers
  /\ opState \in [Ops -> {"none", "pending", "ready", "done"}]
  /\ queue \in Seq(Ops \cup {Wake})
  /\ running \in [Workers -> BOOLEAN] /\ wpc \in [Workers -> WorkerPcs]
  /\ spc \in [Scripts -> ScriptPcs]
  /\ goal \in [Scripts -> {None, "poll", "poll_one", "restart", "guard", "worker"}]
  /\ obj \in [Scripts -> Workers \cup {None}]
  /\ waits \in [Scripts -> Ops \cup {None}]

(* thread_executors counts exactly the workers that may drive the loop,    *)
(* also when a thread cannot be started or a handler throws.               *)
ExecutorsExact == executors = Cardinality({w \in Workers : wpc[w] \in CountedPcs})

(* One kind of driver at a time: while a script is inside io.poll() no     *)
(* worker is inside its loop and no other script polls, although workers   *)
(* leave the count without taking lifecycle_mutex.                         *)
OneDriver ==
  \A s \in Scripts :
    spc[s] = "polling" => /\ \A w \in Workers : wpc[w] \notin LoopPcs
                          /\ \A u \in Scripts : spc[u] = "polling" => u = s

(* io.restart() is called only when nobody is inside run or poll, as asio  *)
(* demands, and only on a stopped loop.                                    *)
RestartAlone ==
  \A s \in Scripts :
    spc[s] = "restart" => /\ stopped
                          /\ \A w \in Workers : wpc[w] \notin LoopPcs
                          /\ \A u \in Scripts : spc[u] # "polling"

(* With a single script thread, a loop that somebody guards, or that a     *)
(* worker drives, is not stopped.                                          *)
GuardedLoopRuns ==
  guards > 0 \/ (\E w \in Workers : wpc[w] \in CountedPcs) => ~stopped

(* A completed operation somebody waits for is delivered, whoever drives   *)
(* the loop meanwhile: a worker may fail to start before the wait or end   *)
(* under it, and the handler is then run by the wait's own poll().         *)
WaitServed ==
  \A s \in Scripts, o \in Ops :
    waits[s] = o /\ opState[o] = "ready" /\ ~stopped
      ~> waits[s] # o \/ opState[o] = "done"

(* The destructor of thread_worker returns.                                *)
JoinReturns == \A s \in Scripts : spc[s] = "join" ~> spc[s] = "idle"
=============================================================================

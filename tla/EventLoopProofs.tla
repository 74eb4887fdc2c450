-------------------------- MODULE EventLoopProofs ---------------------------
(***************************************************************************)
(* Who drives the loop, for any finite sets of scripts, workers and        *)
(* operations, and, for one script, that a loop somebody guards runs.      *)
(*                                                                         *)
(* lifecycle_mutex protects the increments of thread_executors, but its    *)
(* decrements happen without it.  So what a script has found under the     *)
(* lock (no worker is counted) stays true until it unlocks, and that is    *)
(* all that poll() and restart() need.                                     *)
(***************************************************************************)
EXTENDS EventLoop, FiniteSetTheorems, TLAPS

(* The workers that thread_executors should count.                         *)
Counted == {w \in Workers : wpc[w] \in CountedPcs}

(* A script holds lifecycle_mutex exactly at the statements it protects.   *)
MutexExact == \A s \in Scripts : mutex = s <=> spc[s] \in LockedPcs

(* The steps of a script that has a worker object in its hands.            *)
BuildPcs == {"lock", "check", "restart", "create", "count"}
FailPcs  == {"spawn", "spawn_failed"}
EndPcs   == {"post", "join", "release"}

(* The thread of the worker object in a script's hands is as far as the    *)
(* script has come with it.                                                *)
ObjectFits(s) ==
  /\ goal[s] = "worker" => spc[s] \in BuildPcs \cup {"unlock"}
  /\ spc[s] = "count" => goal[s] = "worker"
  /\ goal[s] = "worker" \/ spc[s] \in FailPcs \cup EndPcs <=> obj[s] \in Workers
  /\ goal[s] = "worker" /\ spc[s] \in BuildPcs => wpc[obj[s]] = "off"
  /\ goal[s] = "worker" /\ spc[s] = "unlock" => wpc[obj[s]] = "counted"
  /\ spc[s] \in FailPcs => wpc[obj[s]] = "counted"
  /\ spc[s] \in {"post", "join"} => wpc[obj[s]] \notin {"off", "counted"}
  /\ spc[s] = "release" => wpc[obj[s]] = "dead"

(* An object is in the hands of one script; a thread that is counted but   *)
(* not started is in some script's.                                        *)
ObjectInv ==
  /\ \A s \in Scripts : ObjectFits(s)
  /\ \A s, u \in Scripts : obj[s] # None /\ obj[s] = obj[u] => s = u
  /\ \A w \in Workers : wpc[w] = "counted" => \E s \in Scripts : obj[s] = w

(* What the test of thread_executors under the lock has found still holds. *)
AloneInv ==
  \A s \in Scripts :
    /\ spc[s] \in {"polling", "restart"} => Counted = {}
    /\ spc[s] = "restart" => stopped

IInv == TypeOK /\ MutexExact /\ ObjectInv /\ ExecutorsExact /\ AloneInv

(* With one script: whoever guards the loop keeps it from stopping, and    *)
(* the guard of a worker outlives its thread.                              *)
GuardInv ==
  /\ stopped => guards = 0 /\ held = {}
  /\ \A s \in Scripts : spc[s] = "create" => ~stopped
  /\ \A s \in Scripts : spc[s] = "count" => obj[s] \in held
  /\ \A w \in Workers : wpc[w] # "off" => w \in held
-----------------------------------------------------------------------------
(* Facts about the set of counted workers.                                 *)

LEMMA CountedFinite == IsFiniteSet(Counted) /\ IsFiniteSet(Counted')
BY SetsAssumption, FS_Subset DEF Counted

(* The count follows a worker that is counted, ...                         *)
LEMMA WorkerCounted ==
  ASSUME ExecutorsExact, NEW w \in Workers, w \notin Counted,
         Counted' = Counted \cup {w}, executors' = executors + 1
  PROVE  ExecutorsExact'
<1>1. Cardinality(Counted \cup {w}) = Cardinality(Counted) + 1
  BY CountedFinite, FS_AddElement
<1> QED BY <1>1 DEF ExecutorsExact, Counted

(* ... one that leaves, ...                                                *)
LEMMA WorkerLeaves ==
  ASSUME ExecutorsExact, NEW w \in Counted,
         Counted' = Counted \ {w}, executors' = executors - 1
  PROVE  ExecutorsExact' /\ executors \in Nat \ {0}
<1>1. Cardinality(Counted \ {w}) = Cardinality(Counted) - 1
  BY CountedFinite, FS_RemoveElement
<1>2. Cardinality(Counted) \in Nat /\ Cardinality(Counted) # 0
  BY CountedFinite, FS_EmptySet, FS_CardinalityType
<1> QED BY <1>1, <1>2 DEF ExecutorsExact, Counted

(* ... and a step that changes neither.                                    *)
LEMMA CountedSame ==
  ASSUME ExecutorsExact, Counted' = Counted, executors' = executors
  PROVE  ExecutorsExact'
BY DEF ExecutorsExact, Counted

LEMMA NobodyCounted ==
  ASSUME ExecutorsExact, executors = 0
  PROVE  Counted = {}
BY CountedFinite, FS_EmptySet DEF ExecutorsExact, Counted
-----------------------------------------------------------------------------
(* Types.                                                                  *)

LEMMA RunHandlerType ==
  ASSUME TypeOK, RunHandler
  PROVE  /\ queue' \in Seq(Ops \cup {Wake}) /\ stopped' \in BOOLEAN
         /\ opState' \in [Ops -> {"none", "pending", "ready", "done"}]
         /\ guards' = guards /\ held' = held
<1>1. queue' \in Seq(Ops \cup {Wake})
  BY DEF TypeOK, RunHandler
<1>2. opState' \in [Ops -> {"none", "pending", "ready", "done"}]
  BY DEF TypeOK, RunHandler
<1>3. stopped' \in BOOLEAN
  BY DEF TypeOK, RunHandler, WorkFinished
<1> QED BY <1>1, <1>2, <1>3 DEF RunHandler

LEMMA TypeScript ==
  ASSUME TypeOK, ObjectInv, ExecutorsExact, NEW s \in Scripts, ScriptStep(s)
  PROVE  TypeOK'
<1> USE DEF TypeOK, SStep, Lock, Unlock, ScriptPcs, LockedPcs, WorkerPcs, CountedPcs,
     LoopPcs, loop, work, threads, scripts
<1>1. CASE PollLock(s) \/ LifecycleLock(s)
  BY <1>1 DEF PollLock, LifecycleLock
<1>2. CASE PollCheck(s) \/ PollEnd(s)
  BY <1>2 DEF PollCheck, PollEnd
<1>3. CASE PollRun(s)
  BY <1>3, RunHandlerType DEF PollRun
<1>4. CASE LeaveMutex(s)
  BY <1>4 DEF LeaveMutex
<1>5. CASE CheckStopped(s) \/ Restart(s)
  BY <1>5 DEF CheckStopped, Restart
<1>6. CASE Create(s)
  BY <1>6 DEF Create, ObjectInv, ObjectFits
<1>7. CASE CountExecutor(s)
  <2>1. wpc' \in [Workers -> WorkerPcs] /\ spc' \in [Scripts -> ScriptPcs]
    BY <1>7 DEF CountExecutor
  <2>2. executors' \in Nat
    BY <1>7 DEF CountExecutor
  <2> QED BY <1>7, <2>1, <2>2 DEF CountExecutor
<1>8. CASE Spawn(s) \/ SpawnThrows(s)
  BY <1>8 DEF Spawn, SpawnThrows
<1>9. CASE SpawnFailed(s)
  <2>1. obj[s] \in Counted /\ Counted' = Counted \ {obj[s]}
    BY <1>9 DEF SpawnFailed, ObjectInv, ObjectFits, FailPcs, EndPcs, Counted
  <2>2. executors \in Nat \ {0}
    BY <1>9, <2>1, WorkerLeaves DEF SpawnFailed
  <2>3. wpc' \in [Workers -> WorkerPcs] /\ spc' \in [Scripts -> ScriptPcs]
    BY <1>9 DEF SpawnFailed
  <2>4. executors' \in Nat
    BY <1>9, <2>2 DEF SpawnFailed
  <2> QED BY <1>9, <2>3, <2>4 DEF SpawnFailed
<1>10. CASE Post(s)
  BY <1>10, SMTT(30) DEF Post
<1>11. CASE Join(s) \/ EndWait(s)
  BY <1>11 DEF Join, EndWait
<1>12. CASE Release(s)
  BY <1>12 DEF Release, WorkFinished
<1> QED
  BY <1>1, <1>2, <1>3, <1>4, <1>5, <1>6, <1>7, <1>8, <1>9, <1>10, <1>11, <1>12
     DEF ScriptStep

LEMMA TypeCall ==
  ASSUME TypeOK, NEW s \in Scripts, ScriptCall(s)
  PROVE  TypeOK'
<1> USE DEF TypeOK, SStep, Free, ScriptPcs, LockedPcs, loop, work, threads, scripts
<1>1. ASSUME NEW o \in Ops, StartOp(s, o) \/ BeginWait(s, o) PROVE TypeOK'
  BY <1>1 DEF StartOp, BeginWait
<1>2. CASE DropGuard(s)
  BY <1>2 DEF DropGuard, WorkFinished
<1>3. CASE WaitTimeout(s) \/ PollFast(s)
  BY <1>3, SMTT(30) DEF WaitTimeout, PollFast
<1>4. CASE BeginLifecycle(s)
  BY <1>4 DEF BeginLifecycle
<1>5. ASSUME NEW w \in Workers, Destroy(s, w) PROVE TypeOK'
  BY <1>5 DEF Destroy
<1> QED BY <1>1, <1>2, <1>3, <1>4, <1>5 DEF ScriptCall

LEMMA TypeWorker ==
  ASSUME TypeOK, ExecutorsExact, NEW w \in Workers, WorkerStep(w)
  PROVE  TypeOK'
<1> USE DEF TypeOK, WStep, WorkerPcs, CountedPcs, LoopPcs, loop, work, threads, scripts
<1>1. CASE WorkerPoll(w)
  BY <1>1, RunHandlerType DEF WorkerPoll
<1>2. CASE WorkerEmpty(w) \/ WorkerTest(w)
  BY <1>2 DEF WorkerEmpty, WorkerTest
<1>3. CASE WorkerBlock(w)
  BY <1>3, RunHandlerType DEF WorkerBlock
<1>4. CASE WorkerExit(w)
  <2>1. w \in Counted /\ Counted' = Counted \ {w}
    BY <1>4 DEF WorkerExit, Counted
  <2>2. executors \in Nat \ {0}
    BY <1>4, <2>1, WorkerLeaves DEF WorkerExit
  <2> QED BY <1>4, <2>2 DEF WorkerExit
<1> QED BY <1>1, <1>2, <1>3, <1>4 DEF WorkerStep

LEMMA TypeKernel ==
  ASSUME TypeOK, NEW o \in Ops, OpReady(o) \/ Forget(o)
  PROVE  TypeOK'
<1> USE DEF TypeOK, loop, threads, scripts
<1>1. CASE OpReady(o)
  <2>1. queue' \in Seq(Ops \cup {Wake})
    BY <1>1 DEF OpReady
  <2> QED BY <1>1, <2>1 DEF OpReady
<1>2. CASE Forget(o)
  BY <1>2 DEF Forget
<1> QED BY <1>1, <1>2
-----------------------------------------------------------------------------
(* lifecycle_mutex: taken from None, given back by its holder.             *)
LEMMA MutexStep ==
  ASSUME TypeOK, MutexExact, Next
  PROVE  MutexExact'
<1> USE NamesAssumption DEF TypeOK, MutexExact, SStep, Lock, Unlock, LockedPcs, loop,
     work, threads, scripts
<1>1. ASSUME NEW s \in Scripts, ScriptStep(s) PROVE MutexExact'
  <2>1. CASE PollLock(s) \/ LifecycleLock(s)
    BY <2>1 DEF PollLock, LifecycleLock
  <2>2. CASE LeaveMutex(s)
    BY <2>2 DEF LeaveMutex
  <2>3. CASE PollCheck(s) \/ PollRun(s) \/ PollEnd(s) \/ CheckStopped(s) \/ Restart(s)
             \/ Create(s) \/ CountExecutor(s)
    BY <2>3 DEF PollCheck, PollRun, PollEnd, CheckStopped, Restart, Create,
       CountExecutor
  <2>4. CASE Spawn(s) \/ SpawnThrows(s) \/ SpawnFailed(s) \/ Post(s) \/ Join(s)
             \/ Release(s) \/ EndWait(s)
    BY <2>4 DEF Spawn, SpawnThrows, SpawnFailed, Post, Join, Release, EndWait
  <2> QED BY <1>1, <2>1, <2>2, <2>3, <2>4 DEF ScriptStep
<1>2. ASSUME NEW s \in Scripts, ScriptCall(s) PROVE MutexExact'
  <2>1. CASE PollFast(s) \/ BeginLifecycle(s) \/ \E w \in Workers : Destroy(s, w)
    <3>1. mutex' = mutex /\ spc[s] = "idle"
      BY <2>1 DEF PollFast, BeginLifecycle, Destroy, Free
    <3>2. PICK to \in {"poll_lock", "lock", "post"} : spc' = [spc EXCEPT ![s] = to]
      BY <2>1 DEF PollFast, BeginLifecycle, Destroy
    <3> QED BY <3>1, <3>2
  <2>2. CASE DropGuard(s) \/ WaitTimeout(s) \/ \E o \in Ops : StartOp(s, o) \/ BeginWait(s, o)
    BY <2>2 DEF DropGuard, WaitTimeout, StartOp, BeginWait
  <2> QED BY <1>2, <2>1, <2>2 DEF ScriptCall
<1>3. ASSUME NEW w \in Workers, WorkerStep(w) PROVE MutexExact'
  BY <1>3 DEF WorkerStep, WorkerPoll, WorkerEmpty, WorkerTest, WorkerBlock, WorkerExit
<1>4. ASSUME NEW o \in Ops, OpReady(o) \/ Forget(o) PROVE MutexExact'
  BY <1>4 DEF OpReady, Forget
<1> QED BY <1>1, <1>2, <1>3, <1>4 DEF Next

(* A thread_worker object under construction or destruction: its script    *)
(* and its thread keep in step.                                            *)
LEMMA ObjectStep ==
  ASSUME TypeOK, ObjectInv, Next
  PROVE  ObjectInv'
<1> USE NamesAssumption DEF TypeOK, ObjectInv, ObjectFits, BuildPcs, FailPcs, EndPcs, SStep, WStep,
     loop, work, threads, scripts
<1>1. ASSUME NEW s \in Scripts, ScriptStep(s) PROVE ObjectInv'
  <2>1. CASE PollLock(s) \/ PollCheck(s) \/ PollRun(s) \/ PollEnd(s)
    BY <2>1 DEF PollLock, PollCheck, PollRun, PollEnd
  <2>2. CASE LeaveMutex(s)
    <3>1. /\ goal'[s] = None /\ spc[s] = "unlock"
          /\ spc'[s] = IF goal[s] = "worker" THEN "spawn" ELSE "idle"
          /\ UNCHANGED <<obj, wpc>>
          /\ \A u \in Scripts : u # s => goal'[u] = goal[u] /\ spc'[u] = spc[u]
      BY <2>2 DEF LeaveMutex
    <3>2. ObjectFits(s)'
      BY <3>1 DEF None
    <3>3. \A u \in Scripts : u # s => ObjectFits(u)'
      BY <3>1
    <3> QED BY <3>1, <3>2, <3>3
  <2>3. CASE LifecycleLock(s) \/ CheckStopped(s) \/ Restart(s)
    BY <2>3 DEF LifecycleLock, CheckStopped, Restart
  <2>4. CASE Create(s)
    BY <2>4 DEF Create
  <2>5. CASE CountExecutor(s)
    BY <2>5 DEF CountExecutor
  <2>6. CASE Spawn(s)
    BY <2>6 DEF Spawn
  <2>7. CASE SpawnThrows(s)
    BY <2>7 DEF SpawnThrows
  <2>8. CASE SpawnFailed(s)
    BY <2>8 DEF SpawnFailed
  <2>9. CASE Post(s) \/ Join(s) \/ EndWait(s)
    BY <2>9 DEF Post, Join, EndWait
  <2>10. CASE Release(s)
    BY <2>10 DEF Release
  <2> QED BY <1>1, <2>1, <2>2, <2>3, <2>4, <2>5, <2>6, <2>7, <2>8, <2>9, <2>10
             DEF ScriptStep
<1>2. ASSUME NEW s \in Scripts, ScriptCall(s) PROVE ObjectInv'
  <2>1. CASE PollFast(s)
    BY <2>1 DEF PollFast
  <2>2. CASE BeginLifecycle(s)
    <3>1. /\ spc[s] = "idle" /\ spc'[s] = "lock" /\ wpc' = wpc
          /\ \A u \in Scripts : u # s => /\ goal'[u] = goal[u] /\ spc'[u] = spc[u]
                                        /\ obj'[u] = obj[u]
      BY <2>2 DEF BeginLifecycle, Free
    <3>2. CASE obj' = obj /\ goal'[s] # "worker"
      <4>1. ObjectFits(s)'
        BY <3>1, <3>2
      <4>2. \A u \in Scripts : u # s => ObjectFits(u)'
        BY <3>1
      <4> QED BY <3>1, <3>2, <4>1, <4>2
    <3>3. CASE \E w \in Workers : /\ wpc[w] = "off" /\ \A u \in Scripts : obj[u] # w
                                  /\ obj'[s] = w /\ goal'[s] = "worker"
      <4>1. ObjectFits(s)'
        BY <3>1, <3>3
      <4>2. \A u \in Scripts : u # s => ObjectFits(u)'
        BY <3>1
      <4>3. \A w \in Workers : wpc'[w] = "counted" => \E u \in Scripts : obj'[u] = w
        <5> SUFFICES ASSUME NEW w \in Workers, wpc[w] = "counted"
                     PROVE  \E u \in Scripts : obj'[u] = w
          BY <3>1
        <5>1. PICK u \in Scripts : obj[u] = w
          OBVIOUS
        <5>2. u # s
          BY <3>1, <5>1
        <5> QED BY <3>1, <5>1, <5>2
      <4>4. \A u, v \in Scripts : obj'[u] # None /\ obj'[u] = obj'[v] => u = v
        BY <3>1, <3>3
      <4> QED BY <4>1, <4>2, <4>3, <4>4
    <3> QED BY <2>2, <3>2, <3>3 DEF BeginLifecycle
  <2>3. ASSUME NEW w \in Workers, Destroy(s, w) PROVE ObjectInv'
    <3>1. /\ spc[s] = "idle" /\ spc'[s] = "post" /\ obj'[s] = w
          /\ UNCHANGED <<wpc, goal>> /\ wpc[w] # "off" /\ \A u \in Scripts : obj[u] # w
          /\ \A u \in Scripts : u # s => spc'[u] = spc[u] /\ obj'[u] = obj[u]
      BY <2>3 DEF Destroy
    <3>2. obj[s] \notin Workers /\ goal[s] # "worker" /\ wpc[w] # "counted"
      BY <3>1
    <3>3. ObjectFits(s)'
      BY <3>1, <3>2
    <3>4. \A u \in Scripts : u # s => ObjectFits(u)'
      BY <3>1
    <3>5. \A u, v \in Scripts : obj'[u] # None /\ obj'[u] = obj'[v] => u = v
      BY <3>1
    <3>6. \A x \in Workers : wpc'[x] = "counted" => \E u \in Scripts : obj'[u] = x
      BY <3>1, <3>2
    <3> QED BY <3>3, <3>4, <3>5, <3>6
  <2>4. CASE DropGuard(s) \/ WaitTimeout(s) \/ \E o \in Ops : StartOp(s, o) \/ BeginWait(s, o)
    BY <2>4 DEF DropGuard, WaitTimeout, StartOp, BeginWait
  <2> QED BY <1>2, <2>1, <2>2, <2>3, <2>4 DEF ScriptCall
<1>3. ASSUME NEW w \in Workers, WorkerStep(w) PROVE ObjectInv'
  BY <1>3 DEF WorkerStep, WorkerPoll, WorkerEmpty, WorkerTest, WorkerBlock, WorkerExit
<1>4. ASSUME NEW o \in Ops, OpReady(o) \/ Forget(o) PROVE ObjectInv'
  BY <1>4 DEF OpReady, Forget
<1> QED BY <1>1, <1>2, <1>3, <1>4 DEF Next

(* thread_executors: one increment under the lock, one decrement by the    *)
(* thread's last statement or by the catch block of the constructor.       *)
LEMMA ExecutorsStep ==
  ASSUME TypeOK, ObjectInv, ExecutorsExact, Next
  PROVE  ExecutorsExact'
<1> USE DEF TypeOK, SStep, WStep, CountedPcs, LoopPcs, loop, work, threads, scripts
<1>1. ASSUME NEW s \in Scripts, ScriptStep(s) PROVE ExecutorsExact'
  <2>1. CASE CountExecutor(s)
    <3>1. obj[s] \in Workers /\ wpc[obj[s]] = "off"
      BY <2>1 DEF CountExecutor, ObjectInv, ObjectFits, BuildPcs
    <3>2. obj[s] \notin Counted /\ Counted' = Counted \cup {obj[s]}
      BY <2>1, <3>1 DEF CountExecutor, Counted
    <3> QED BY <2>1, <3>1, <3>2, WorkerCounted DEF CountExecutor
  <2>2. CASE SpawnFailed(s)
    <3>1. obj[s] \in Counted /\ Counted' = Counted \ {obj[s]}
      BY <2>2 DEF SpawnFailed, ObjectInv, ObjectFits, FailPcs, EndPcs, Counted
    <3> QED BY <2>2, <3>1, WorkerLeaves DEF SpawnFailed
  <2>3. CASE Spawn(s)
    <3>1. Counted' = Counted
      BY <2>3 DEF Spawn, ObjectInv, ObjectFits, FailPcs, EndPcs, Counted
    <3> QED BY <2>3, <3>1, CountedSame DEF Spawn
  <2>4. CASE Release(s)
    <3>1. Counted' = Counted
      BY <2>4 DEF Release, ObjectInv, ObjectFits, FailPcs, EndPcs, Counted
    <3> QED BY <2>4, <3>1, CountedSame DEF Release
  <2>5. CASE PollLock(s) \/ PollCheck(s) \/ PollRun(s) \/ PollEnd(s) \/ LeaveMutex(s)
             \/ LifecycleLock(s) \/ CheckStopped(s) \/ Restart(s) \/ Create(s)
             \/ SpawnThrows(s) \/ Post(s) \/ Join(s) \/ EndWait(s)
    BY <2>5 DEF PollLock, PollCheck, PollRun, PollEnd, LeaveMutex, LifecycleLock,
       CheckStopped, Restart, Create, SpawnThrows, Post, Join, EndWait, ExecutorsExact
  <2> QED BY <1>1, <2>1, <2>2, <2>3, <2>4, <2>5 DEF ScriptStep
<1>2. ASSUME NEW s \in Scripts, ScriptCall(s) PROVE ExecutorsExact'
  BY <1>2 DEF ScriptCall, StartOp, BeginWait, DropGuard, WaitTimeout, PollFast,
     BeginLifecycle, Destroy, ExecutorsExact
<1>3. ASSUME NEW w \in Workers, WorkerStep(w) PROVE ExecutorsExact'
  <2>1. CASE WorkerExit(w)
    <3>1. w \in Counted /\ Counted' = Counted \ {w}
      BY <2>1 DEF WorkerExit, Counted
    <3> QED BY <2>1, <3>1, WorkerLeaves DEF WorkerExit
  <2>2. CASE WorkerPoll(w) \/ WorkerEmpty(w) \/ WorkerTest(w) \/ WorkerBlock(w)
    <3>1. Counted' = Counted
      BY <2>2 DEF WorkerPoll, WorkerEmpty, WorkerTest, WorkerBlock, Counted
    <3>2. executors' = executors
      BY <2>2 DEF WorkerPoll, WorkerEmpty, WorkerTest, WorkerBlock
    <3> QED BY <3>1, <3>2, CountedSame
  <2> QED BY <1>3, <2>1, <2>2 DEF WorkerStep
<1>4. ASSUME NEW o \in Ops, OpReady(o) \/ Forget(o) PROVE ExecutorsExact'
  BY <1>4 DEF OpReady, Forget, ExecutorsExact
<1> QED BY <1>1, <1>2, <1>3, <1>4 DEF Next

(* Nobody joins the count while a script polls or is about to restart:     *)
(* that takes the lock it holds.  And only a restart clears stopped.       *)
LEMMA AloneStep ==
  ASSUME IInv, Next
  PROVE  AloneInv'
<1> USE DEF IInv, TypeOK, AloneInv, SStep, WStep, CountedPcs, LoopPcs, loop, work,
     threads, scripts
<1>1. ASSUME NEW s \in Scripts, ScriptStep(s) PROVE AloneInv'
  <2>1. CASE PollCheck(s)
    BY <2>1, NobodyCounted DEF PollCheck, Counted
  <2>2. CASE CheckStopped(s)
    BY <2>2, NobodyCounted DEF CheckStopped, Counted
  <2>3. CASE CountExecutor(s)
    <3>1. \A u \in Scripts : u # s => spc[u] \notin {"polling", "restart"}
      BY <2>3 DEF CountExecutor, MutexExact, LockedPcs
    <3> QED BY <2>3, <3>1 DEF CountExecutor
  <2>4. CASE Spawn(s)
    <3>1. obj[s] \in Counted
      BY <2>4 DEF Spawn, ObjectInv, ObjectFits, FailPcs, EndPcs, Counted
    <3> QED BY <2>4, <3>1 DEF Spawn
  <2>5. CASE SpawnFailed(s)
    <3>1. obj[s] \in Counted
      BY <2>5 DEF SpawnFailed, ObjectInv, ObjectFits, FailPcs, EndPcs, Counted
    <3> QED BY <2>5, <3>1 DEF SpawnFailed
  <2>6. CASE Release(s)
    BY <2>6 DEF Release, WorkFinished, Counted
  <2>7. CASE Restart(s)
    <3>1. \A u \in Scripts : u # s => spc[u] # "restart"
      BY <2>7 DEF Restart, MutexExact, LockedPcs
    <3> QED BY <2>7, <3>1 DEF Restart, Counted
  <2>8. CASE PollRun(s)
    BY <2>8 DEF PollRun, RunHandler, WorkFinished, Counted
  <2>9. CASE PollLock(s) \/ PollEnd(s) \/ LeaveMutex(s) \/ LifecycleLock(s) \/ Create(s)
             \/ SpawnThrows(s) \/ Post(s) \/ Join(s) \/ EndWait(s)
    BY <2>9 DEF PollLock, PollEnd, LeaveMutex, LifecycleLock, Create, SpawnThrows,
       Post, Join, EndWait, Counted
  <2> QED BY <1>1, <2>1, <2>2, <2>3, <2>4, <2>5, <2>6, <2>7, <2>8, <2>9 DEF ScriptStep
<1>2. ASSUME NEW s \in Scripts, ScriptCall(s) PROVE AloneInv'
  BY <1>2, ZenonT(40) DEF ScriptCall, StartOp, BeginWait, DropGuard, WaitTimeout, PollFast,
     BeginLifecycle, Destroy, WorkFinished, Counted
<1>3. ASSUME NEW w \in Workers, WorkerStep(w) PROVE AloneInv'
  <2>1. w \in Counted
    BY <1>3 DEF WorkerStep, WorkerPoll, WorkerEmpty, WorkerTest, WorkerBlock,
       WorkerExit, Counted
  <2>2. spc' = spc
    BY <1>3 DEF WorkerStep, WorkerPoll, WorkerEmpty, WorkerTest, WorkerBlock, WorkerExit
  <2> QED BY <2>1, <2>2
<1>4. ASSUME NEW o \in Ops, OpReady(o) \/ Forget(o) PROVE AloneInv'
  BY <1>4 DEF OpReady, Forget, Counted
<1> QED BY <1>1, <1>2, <1>3, <1>4 DEF Next
-----------------------------------------------------------------------------
(* The inductive invariant of the loop's life cycle, for all finite sets   *)
(* of scripts, workers and operations.                                     *)
THEOREM LoopInvariant == Spec => []IInv
<1>1. Init => IInv
  <2> SUFFICES ASSUME Init PROVE IInv
    OBVIOUS
  <2> USE DEF Init, LockedPcs, CountedPcs, LoopPcs
  <2>1. TypeOK
    <3>1. queue \in Seq(Ops \cup {Wake}) /\ opState \in [Ops -> {"none", "pending", "ready", "done"}]
      OBVIOUS
    <3>2. running \in [Workers -> BOOLEAN] /\ wpc \in [Workers -> WorkerPcs]
      BY DEF WorkerPcs
    <3>3. spc \in [Scripts -> ScriptPcs] /\ waits \in [Scripts -> Ops \cup {None}]
      BY DEF ScriptPcs
    <3> QED BY <3>1, <3>2, <3>3 DEF TypeOK
  <2>2. MutexExact
    BY NamesAssumption DEF MutexExact
  <2>3. ObjectInv
    BY NamesAssumption DEF ObjectInv, ObjectFits, BuildPcs, FailPcs, EndPcs, None
  <2>4. Counted = {}
    BY DEF Counted
  <2>5. ExecutorsExact /\ AloneInv
    BY <2>4, FS_EmptySet DEF ExecutorsExact, AloneInv, Counted
  <2> QED BY <2>1, <2>2, <2>3, <2>5 DEF IInv
<1>2. IInv /\ [Next]_vars => IInv'
  <2> SUFFICES ASSUME IInv, [Next]_vars PROVE IInv'
    OBVIOUS
  <2>1. CASE Next
    <3>1. TypeOK'
      BY <2>1, TypeScript, TypeCall, TypeWorker, TypeKernel DEF Next, IInv
    <3> QED
      BY <2>1, <3>1, MutexStep, ObjectStep, ExecutorsStep, AloneStep DEF IInv
  <2>2. CASE UNCHANGED vars
    BY <2>2 DEF vars, loop, work, threads, scripts, IInv, TypeOK, MutexExact, ObjectInv,
       ObjectFits, ExecutorsExact, AloneInv, Counted
  <2> QED BY <2>1, <2>2
<1> QED BY <1>1, <1>2, PTL DEF Spec

(* thread_executors counts exactly the workers that may drive the loop,    *)
(* also when a thread cannot be started or a handler throws.               *)
THEOREM ExecutorsCounted == Spec => []ExecutorsExact
BY LoopInvariant, PTL DEF IInv

(* While a script is inside io.poll() nobody else drives the loop.         *)
THEOREM SingleDriver == Spec => []OneDriver
<1>1. IInv => OneDriver
  <2> SUFFICES ASSUME IInv, NEW s \in Scripts, spc[s] = "polling"
               PROVE  /\ \A w \in Workers : wpc[w] \notin LoopPcs
                      /\ \A u \in Scripts : spc[u] = "polling" => u = s
    BY DEF OneDriver
  <2>1. \A w \in Workers : wpc[w] \notin LoopPcs
    BY DEF IInv, AloneInv, Counted, CountedPcs
  <2>2. \A u \in Scripts : spc[u] = "polling" => u = s
    BY DEF IInv, MutexExact, LockedPcs
  <2> QED BY <2>1, <2>2
<1> QED BY <1>1, LoopInvariant, PTL

(* io.restart() is called on a stopped loop that nobody is inside of.      *)
THEOREM RestartIsAlone == Spec => []RestartAlone
<1>1. IInv => RestartAlone
  <2> SUFFICES ASSUME IInv, NEW s \in Scripts, spc[s] = "restart"
               PROVE  /\ stopped /\ \A w \in Workers : wpc[w] \notin LoopPcs
                      /\ \A u \in Scripts : spc[u] # "polling"
    BY DEF RestartAlone
  <2>1. stopped /\ \A w \in Workers : wpc[w] \notin LoopPcs
    BY DEF IInv, AloneInv, Counted, CountedPcs
  <2>2. \A u \in Scripts : spc[u] # "polling"
    BY DEF IInv, MutexExact, LockedPcs
  <2> QED BY <2>1, <2>2
<1> QED BY <1>1, LoopInvariant, PTL
-----------------------------------------------------------------------------
(* One script: nothing can stop the loop between its test and its guard.   *)

LEMMA RunHandlerKeepsGuarded ==
  ASSUME TypeOK, RunHandler, guards # 0 \/ held # {}
  PROVE  stopped' = stopped
BY DEF TypeOK, RunHandler, WorkFinished, NoWork

LEMMA GuardStep ==
  ASSUME IInv, GuardInv, Next, \A s, u \in Scripts : s = u
  PROVE  GuardInv'
<1> USE DEF IInv, TypeOK, GuardInv, SStep, WStep, CountedPcs, LoopPcs, loop, work,
     threads, scripts
<1>1. ASSUME NEW s \in Scripts, ScriptStep(s) PROVE GuardInv'
  <2>1. CASE PollCheck(s)
    BY <2>1 DEF PollCheck, NoWork
  <2>2. CASE PollRun(s)
    BY <2>2 DEF PollRun, RunHandler, WorkFinished, NoWork
  <2>3. CASE CheckStopped(s)
    <3>1. executors # 0 => ~stopped
      <4>1. executors # 0 => Counted # {}
        BY FS_EmptySet DEF ExecutorsExact, Counted
      <4> QED BY <4>1 DEF Counted
    <3> QED BY <2>3, <3>1 DEF CheckStopped
  <2>4. CASE Restart(s)
    BY <2>4 DEF Restart
  <2>5. CASE Create(s)
    BY <2>5 DEF Create
  <2>6. CASE CountExecutor(s)
    BY <2>6 DEF CountExecutor
  <2>7. CASE Spawn(s) \/ SpawnFailed(s)
    BY <2>7 DEF Spawn, SpawnFailed, ObjectInv, ObjectFits, FailPcs, EndPcs
  <2>8. CASE Release(s)
    BY <2>8 DEF Release, WorkFinished, NoWork, ObjectInv, ObjectFits, EndPcs
  <2>9. CASE PollLock(s) \/ PollEnd(s) \/ LeaveMutex(s) \/ LifecycleLock(s)
             \/ SpawnThrows(s) \/ Post(s) \/ Join(s) \/ EndWait(s)
    BY <2>9 DEF PollLock, PollEnd, LeaveMutex, LifecycleLock, SpawnThrows, Post, Join,
       EndWait
  <2> QED BY <1>1, <2>1, <2>2, <2>3, <2>4, <2>5, <2>6, <2>7, <2>8, <2>9 DEF ScriptStep
<1>2. ASSUME NEW s \in Scripts, ScriptCall(s) PROVE GuardInv'
  <2>1. CASE DropGuard(s)
    BY <2>1 DEF DropGuard, Free, WorkFinished, NoWork
  <2>2. CASE PollFast(s) \/ BeginLifecycle(s) \/ WaitTimeout(s)
    BY <2>2 DEF PollFast, BeginLifecycle, WaitTimeout
  <2>3. ASSUME NEW o \in Ops, StartOp(s, o) \/ BeginWait(s, o) PROVE GuardInv'
    BY <2>3 DEF StartOp, BeginWait
  <2>4. ASSUME NEW w \in Workers, Destroy(s, w) PROVE GuardInv'
    BY <2>4 DEF Destroy
  <2> QED BY <1>2, <2>1, <2>2, <2>3, <2>4 DEF ScriptCall
<1>3. ASSUME NEW w \in Workers, WorkerStep(w) PROVE GuardInv'
  <2>1. held # {} /\ ~stopped /\ wpc[w] # "off"
    BY <1>3 DEF WorkerStep, WorkerPoll, WorkerEmpty, WorkerTest, WorkerBlock, WorkerExit
  <2>2. stopped' = stopped
    BY <1>3, <2>1, RunHandlerKeepsGuarded DEF WorkerStep, WorkerPoll, WorkerEmpty,
       WorkerTest, WorkerBlock, WorkerExit
  <2>3. held' = held /\ spc' = spc /\ obj' = obj
    BY <1>3 DEF WorkerStep, WorkerPoll, WorkerEmpty, WorkerTest, WorkerBlock,
       WorkerExit, RunHandler
  <2>4. \A x \in Workers : x # w => wpc'[x] = wpc[x]
    BY <1>3 DEF WorkerStep, WorkerPoll, WorkerEmpty, WorkerTest, WorkerBlock, WorkerExit
  <2> QED BY <2>1, <2>2, <2>3, <2>4
<1>4. ASSUME NEW o \in Ops, OpReady(o) \/ Forget(o) PROVE GuardInv'
  BY <1>4 DEF OpReady, Forget
<1> QED BY <1>1, <1>2, <1>3, <1>4 DEF Next

(* With one script thread, a loop that a work_guard or a thread_worker     *)
(* keeps alive is not stopped.  With two it can be: a guard dropped        *)
(* without lifecycle_mutex may stop the loop after the other thread has    *)
(* found it running.                                                       *)
THEOREM OneScriptGuards ==
  ASSUME \A s, u \in Scripts : s = u
  PROVE  Spec => []GuardedLoopRuns
<1>1. Init => GuardInv
  BY DEF Init, GuardInv
<1>2. IInv /\ GuardInv /\ [Next]_vars => GuardInv'
  <2>1. IInv /\ GuardInv /\ UNCHANGED vars => GuardInv'
    BY DEF vars, loop, work, threads, scripts, GuardInv
  <2> QED BY <2>1, GuardStep
<1>3. IInv /\ GuardInv => GuardedLoopRuns
  BY DEF IInv, TypeOK, GuardInv, GuardedLoopRuns, CountedPcs, LoopPcs
<1> QED BY <1>1, <1>2, <1>3, LoopInvariant, PTL DEF Spec
=============================================================================

-------------------------- MODULE UdpSocketProofs ---------------------------
(***************************************************************************)
(* Safety of the UDP socket's admission protocol, for any finite set of    *)
(* tasks: the three shared variables are tied to the program counters of   *)
(* the tasks that hold them, and from these ties it follows that a task    *)
(* which closes the descriptor is alone with it.                           *)
(***************************************************************************)
EXTENDS UdpSocket, FiniteSetTheorems, TLAPS

(* The tasks that hold a unit of async_jobs.                               *)
Counted(t) == pc[t] \in {"recheck", "uncount"} \cup AdmittedPcs \cup OwnerPcs
Holders == {t \in Tasks : Counted(t)}

(* The parts of ReservationsExact, one for each shared variable.           *)
JobsExact == jobs = Cardinality(Holders)

ExclusiveExact ==
  /\ excl <=> \E t \in Tasks : pc[t] \in ExclPcs
  /\ \A t, u \in Tasks : t # u => ~(pc[t] \in ExclPcs /\ pc[u] \in ExclPcs)

DirectionExact ==
  /\ \A d \in Directions :
       busy[d] <=> \E t \in Tasks : pc[t] \in ReservedPcs /\ Direction(op[t]) = d
  /\ \A t, u \in Tasks :
       t # u => ~(pc[t] \in ReservedPcs /\ pc[u] \in ReservedPcs
                    /\ Direction(op[t]) = Direction(op[u]))

(* Whoever has reserved the socket for close() is alone.                   *)
OwnerExcludes ==
  \A t, u \in Tasks : pc[t] \in OwnerPcs => pc[u] \notin AdmittedPcs

IInv == TypeOK /\ JobsExact /\ ExclusiveExact /\ DirectionExact /\ OwnerExcludes

TaskStep(t) == Open(t) \/ Admission(t) \/ Closing(t)
-----------------------------------------------------------------------------
(* Facts about the set of holders.                                         *)

LEMMA HoldersFinite == IsFiniteSet(Holders) /\ IsFiniteSet(Holders')
BY UdpAssumption, FS_Subset DEF Holders

(* A task that holds a unit finds async_jobs positive: its decrement of    *)
(* the size_t does not wrap around.                                        *)
LEMMA HolderPositive ==
  ASSUME TypeOK, JobsExact, NEW t \in Tasks, Counted(t)
  PROVE  jobs >= 1
<1>1. Cardinality(Holders) # 0
  BY HoldersFinite, FS_EmptySet DEF Holders
<1> QED
  BY <1>1 DEF JobsExact, TypeOK

(* When async_jobs is zero nobody holds a unit.                            *)
LEMMA NoHolder ==
  ASSUME JobsExact, jobs = 0, NEW t \in Tasks
  PROVE  ~ Counted(t)
<1>1. Holders = {}
  BY HoldersFinite, FS_EmptySet DEF JobsExact
<1> QED
  BY <1>1 DEF Holders

(* The count follows a task that starts to hold a unit, ...                *)
LEMMA HolderJoins ==
  ASSUME JobsExact, NEW t \in Tasks, ~ Counted(t), Holders' = Holders \cup {t},
         jobs' = jobs + 1
  PROVE  JobsExact'
BY HoldersFinite, FS_AddElement DEF JobsExact, Holders

(* ... one that gives it back, ...                                         *)
LEMMA HolderLeaves ==
  ASSUME JobsExact, NEW t \in Tasks, Counted(t), Holders' = Holders \ {t},
         jobs' = jobs - 1
  PROVE  JobsExact'
BY HoldersFinite, FS_RemoveElement DEF JobsExact, Holders

(* ... and a step that changes neither.                                    *)
LEMMA HoldersSame ==
  ASSUME JobsExact, \A u \in Tasks : Counted(u)' <=> Counted(u), jobs' = jobs
  PROVE  JobsExact'
BY DEF JobsExact, Holders
-----------------------------------------------------------------------------
(* A step of one task preserves each part of the invariant.                *)

(* exclusive_operation is won by a compare-exchange from false and stored  *)
(* false only by the task that won it (network.hpp, begin_exclusive_close).*)
LEMMA ExclusiveStep ==
  ASSUME TypeOK, ExclusiveExact, NEW t \in Tasks, TaskStep(t)
  PROVE  ExclusiveExact'
<1> USE DEF Pcs, ReservedPcs, AdmittedPcs, ExclPcs, OwnerPcs, TypeOK, ExclusiveExact
<1>1. CASE AcquireExclusive(t)
  BY <1>1 DEF AcquireExclusive, Step
<1>2. CASE AbandonExclusive(t)
  BY <1>2 DEF AbandonExclusive, Step
<1>3. CASE ReleaseExclusive(t)
  BY <1>3 DEF ReleaseExclusive, Step
<1>4. CASE Open(t) \/ Admission(t)
  BY <1>4 DEF Open, Admission, ReserveDirection, LoadExclusive, CountJob,
     RecheckExclusive, UncountJob, UnreserveDirection, PerformIo, FinishJob,
     ClearDirection, PublishDone, Enter, Step
<1>5. CASE StartClose(t) \/ ReserveSlot(t) \/ RawClose(t) \/ ReleaseSlot(t)
           \/ StartSafeClose(t) \/ EndDrain(t) \/ LastTest(t)
  BY <1>5 DEF StartClose, ReserveSlot, RawClose, ReleaseSlot, StartSafeClose,
     EndDrain, LastTest, Enter, Step
<1> QED
  BY <1>1, <1>2, <1>3, <1>4, <1>5 DEF TaskStep, Closing

(* A direction flag is set by the task that reserves it and cleared by the *)
(* same task, on the way out or when it is refused.                        *)
LEMMA DirectionStep ==
  ASSUME TypeOK, DirectionExact, NEW t \in Tasks, TaskStep(t)
  PROVE  DirectionExact'
<1> USE DEF Pcs, ReservedPcs, AdmittedPcs, ExclPcs, OwnerPcs, TypeOK, DirectionExact
<1>1. Direction(op[t]) \in Directions
  BY DEF Direction, Directions
<1>2. CASE ReserveDirection(t)
  <2>1. PICK o \in ReadOps \cup WriteOps :
          /\ ~busy[Direction(o)] /\ Enter(t, o, "load")
          /\ busy' = [busy EXCEPT ![Direction(o)] = TRUE]
    BY <1>2 DEF ReserveDirection
  <2>2. Direction(o) \in Directions
    BY DEF Direction, Directions
  <2>3. /\ pc'[t] = "load" /\ op'[t] = o /\ pc[t] = "idle"
        /\ \A u \in Tasks : u # t => pc'[u] = pc[u] /\ op'[u] = op[u]
    BY <2>1 DEF Enter
  <2>4. \A u \in Tasks : pc[u] \in ReservedPcs => Direction(op[u]) # Direction(o)
    BY <2>1, <2>2
  <2>5. \A d \in Directions : busy'[d] <=> busy[d] \/ d = Direction(o)
    BY <2>1, <2>2
  <2>6. \A u \in Tasks : u # t => Direction(op'[u]) = Direction(op[u])
    BY <2>3
  <2>7. Direction(op'[t]) = Direction(o)
    BY <2>3
  <2>8. \A d \in Directions :
          busy'[d] <=> \E u \in Tasks : pc'[u] \in ReservedPcs /\ Direction(op'[u]) = d
    BY <2>3, <2>5, <2>6, <2>7
  <2>9. \A u, v \in Tasks :
          u # v => ~(pc'[u] \in ReservedPcs /\ pc'[v] \in ReservedPcs
                       /\ Direction(op'[u]) = Direction(op'[v]))
    BY <2>3, <2>4, <2>6, <2>7
  <2> QED
    BY <2>8, <2>9 DEF Direction
<1>3. CASE UnreserveDirection(t) \/ ClearDirection(t)
  <2>1. /\ pc[t] \in ReservedPcs /\ pc'[t] \notin ReservedPcs
        /\ busy' = [busy EXCEPT ![Direction(op[t])] = FALSE]
        /\ \A u \in Tasks : u # t => pc'[u] = pc[u] /\ op'[u] = op[u]
    BY <1>3 DEF UnreserveDirection, ClearDirection, Step
  <2>2. \A u \in Tasks : u # t => Direction(op'[u]) = Direction(op[u])
    BY <2>1
  <2>3. \A d \in Directions : busy'[d] <=> busy[d] /\ d # Direction(op[t])
    BY <1>1, <2>1
  <2>4. \A d \in Directions :
          busy'[d] <=> \E u \in Tasks : pc'[u] \in ReservedPcs /\ Direction(op'[u]) = d
    BY <2>1, <2>2, <2>3
  <2>5. \A u, v \in Tasks :
          u # v => ~(pc'[u] \in ReservedPcs /\ pc'[v] \in ReservedPcs
                       /\ Direction(op'[u]) = Direction(op'[v]))
    BY <2>1, <2>2
  <2> QED
    BY <2>4, <2>5 DEF Direction
<1>4. CASE Open(t) \/ LoadExclusive(t) \/ CountJob(t) \/ RecheckExclusive(t)
           \/ UncountJob(t) \/ PerformIo(t) \/ FinishJob(t) \/ PublishDone(t)
  BY <1>4 DEF Open, LoadExclusive, CountJob, RecheckExclusive, UncountJob,
     PerformIo, FinishJob, PublishDone, Step
<1>5. CASE Closing(t)
  BY <1>5 DEF Closing, StartClose, AcquireExclusive, ReserveSlot, AbandonExclusive,
     RawClose, ReleaseSlot, ReleaseExclusive, StartSafeClose, EndDrain, LastTest,
     Enter, Step
<1> QED
  BY <1>2, <1>3, <1>4, <1>5 DEF TaskStep, Admission

(* async_jobs counts the tasks between their increment and decrement, and  *)
(* close's compare-exchange from 0 to 1.                                   *)
LEMMA JobsStep ==
  ASSUME TypeOK, JobsExact, NEW t \in Tasks, TaskStep(t)
  PROVE  JobsExact'
<1> USE DEF Pcs, ReservedPcs, AdmittedPcs, ExclPcs, OwnerPcs, TypeOK, Counted
<1>1. CASE CountJob(t)
  <2>1. ~Counted(t) /\ Holders' = Holders \cup {t}
    BY <1>1 DEF CountJob, Step, Holders
  <2> QED
    BY <1>1, <2>1, HolderJoins DEF CountJob
<1>2. CASE UncountJob(t) \/ FinishJob(t) \/ ReleaseSlot(t)
  <2>1. Counted(t) /\ Holders' = Holders \ {t}
    BY <1>2 DEF UncountJob, FinishJob, ReleaseSlot, Step, Holders
  <2> QED
    BY <1>2, <2>1, HolderLeaves DEF UncountJob, FinishJob, ReleaseSlot
<1>3. CASE ReserveSlot(t) /\ jobs = 0
  <2>1. ~Counted(t) /\ Holders' = Holders \cup {t}
    BY <1>3 DEF ReserveSlot, Step, Holders
  <2>2. jobs' = jobs + 1
    BY <1>3 DEF ReserveSlot
  <2> QED
    BY <2>1, <2>2, HolderJoins
<1>4. CASE ReserveSlot(t) /\ jobs # 0
  <2>1. jobs' = jobs /\ \A u \in Tasks : Counted(u)' <=> Counted(u)
    BY <1>4 DEF ReserveSlot, Step
  <2> QED
    BY <2>1, HoldersSame
<1>5. CASE Open(t) \/ ReserveDirection(t) \/ LoadExclusive(t) \/ RecheckExclusive(t)
           \/ UnreserveDirection(t) \/ PerformIo(t) \/ ClearDirection(t)
           \/ PublishDone(t)
  <2>1. jobs' = jobs /\ \A u \in Tasks : Counted(u)' <=> Counted(u)
    BY <1>5 DEF Open, ReserveDirection, LoadExclusive, RecheckExclusive,
       UnreserveDirection, PerformIo, ClearDirection, PublishDone, Enter, Step
  <2> QED
    BY <2>1, HoldersSame
<1>6. CASE StartClose(t) \/ AcquireExclusive(t) \/ AbandonExclusive(t)
           \/ RawClose(t) \/ ReleaseExclusive(t) \/ StartSafeClose(t)
           \/ EndDrain(t) \/ LastTest(t)
  <2>1. jobs' = jobs /\ \A u \in Tasks : Counted(u)' <=> Counted(u)
    BY <1>6 DEF StartClose, AcquireExclusive, AbandonExclusive, RawClose,
       ReleaseExclusive, StartSafeClose, EndDrain, LastTest, Enter, Step
  <2> QED
    BY <2>1, HoldersSame
<1> QED
  BY <1>1, <1>2, <1>3, <1>4, <1>5, <1>6 DEF TaskStep, Admission, Closing

(* An operation is admitted at its second load of exclusive_operation,     *)
(* where nobody can be closing; close wins when it finds no job counted.   *)
LEMMA OwnerStep ==
  ASSUME TypeOK, JobsExact, ExclusiveExact, OwnerExcludes, NEW t \in Tasks, TaskStep(t)
  PROVE  OwnerExcludes'
<1> USE DEF Pcs, ReservedPcs, AdmittedPcs, ExclPcs, OwnerPcs, TypeOK, OwnerExcludes
<1>1. CASE RecheckExclusive(t)
  BY <1>1 DEF RecheckExclusive, Step, ExclusiveExact
<1>2. CASE ReserveSlot(t)
  <2>1. jobs = 0 => \A u \in Tasks : pc[u] \notin AdmittedPcs
    BY NoHolder DEF Counted
  <2> QED
    BY <1>2, <2>1 DEF ReserveSlot, Step
<1>3. CASE Open(t) \/ ReserveDirection(t) \/ LoadExclusive(t) \/ CountJob(t)
           \/ UncountJob(t) \/ UnreserveDirection(t) \/ PerformIo(t) \/ FinishJob(t)
           \/ ClearDirection(t) \/ PublishDone(t)
  BY <1>3 DEF Open, ReserveDirection, LoadExclusive, CountJob, UncountJob,
     UnreserveDirection, PerformIo, FinishJob, ClearDirection, PublishDone, Enter, Step
<1>4. CASE StartClose(t) \/ AcquireExclusive(t) \/ AbandonExclusive(t)
           \/ RawClose(t) \/ ReleaseSlot(t) \/ ReleaseExclusive(t)
           \/ StartSafeClose(t) \/ EndDrain(t) \/ LastTest(t)
  BY <1>4 DEF StartClose, AcquireExclusive, AbandonExclusive, RawClose, ReleaseSlot,
     ReleaseExclusive, StartSafeClose, EndDrain, LastTest, Enter, Step
<1> QED
  BY <1>1, <1>2, <1>3, <1>4 DEF TaskStep, Admission, Closing

LEMMA TypeStep ==
  ASSUME TypeOK, JobsExact, NEW t \in Tasks, TaskStep(t)
  PROVE  TypeOK'
<1> USE DEF Pcs, ReservedPcs, AdmittedPcs, ExclPcs, OwnerPcs, TypeOK, AllOps
<1>1. CASE ReserveDirection(t)
  BY <1>1 DEF ReserveDirection, Enter, Direction, Directions
<1>2. CASE UncountJob(t) \/ FinishJob(t) \/ ReleaseSlot(t)
  <2>1. jobs >= 1
    BY <1>2, HolderPositive DEF Counted, UncountJob, FinishJob, ReleaseSlot, Step
  <2> QED
    BY <1>2, <2>1 DEF UncountJob, FinishJob, ReleaseSlot, Step
<1>3. CASE UnreserveDirection(t) \/ ClearDirection(t)
  BY <1>3 DEF UnreserveDirection, ClearDirection, Step, Direction, Directions
<1>4. CASE Open(t)
  BY <1>4 DEF Open
<1>5. CASE LoadExclusive(t) \/ RecheckExclusive(t)
  BY <1>5 DEF LoadExclusive, RecheckExclusive, Step
<1>6. CASE CountJob(t) \/ PerformIo(t) \/ PublishDone(t)
  BY <1>6 DEF CountJob, PerformIo, PublishDone, Step
<1>7. CASE StartClose(t) \/ AcquireExclusive(t)
  BY <1>7 DEF StartClose, AcquireExclusive, CloseOps, Enter, Step
<1>8. CASE ReserveSlot(t)
  BY <1>8 DEF ReserveSlot, Step
<1>9. CASE AbandonExclusive(t) \/ RawClose(t) \/ ReleaseExclusive(t)
  BY <1>9 DEF AbandonExclusive, RawClose, ReleaseExclusive, Step
<1>10. CASE StartSafeClose(t) \/ EndDrain(t) \/ LastTest(t)
  BY <1>10 DEF StartSafeClose, EndDrain, LastTest, CloseOps, Enter, Step
<1> QED
  BY <1>1, <1>2, <1>3, <1>4, <1>5, <1>6, <1>7, <1>8, <1>9, <1>10
     DEF TaskStep, Admission, Closing
-----------------------------------------------------------------------------
(* The inductive invariant of udp::socket's admission protocol, for every  *)
(* finite set of tasks.                                                    *)
THEOREM UdpInvariant == Spec => []IInv
<1>1. Init => IInv
  <2> SUFFICES ASSUME Init PROVE IInv
    OBVIOUS
  <2> USE DEF Init, Pcs, ReservedPcs, AdmittedPcs, ExclPcs, OwnerPcs, AllOps
  <2>1. TypeOK
    BY DEF TypeOK
  <2>2. JobsExact
    <3>1. Holders = {}
      BY DEF Holders, Counted
    <3> QED BY <3>1, FS_EmptySet DEF JobsExact
  <2>3. ExclusiveExact /\ DirectionExact /\ OwnerExcludes
    BY DEF ExclusiveExact, DirectionExact, OwnerExcludes
  <2> QED BY <2>1, <2>2, <2>3 DEF IInv
<1>2. IInv /\ [Next]_vars => IInv'
  <2> SUFFICES ASSUME IInv, [Next]_vars PROVE IInv'
    OBVIOUS
  <2>1. CASE Next
    <3>1. PICK t \in Tasks : TaskStep(t)
      BY <2>1 DEF Next, TaskStep
    <3> QED
      BY <3>1, TypeStep, JobsStep, ExclusiveStep, DirectionStep, OwnerStep DEF IInv
  <2>2. CASE UNCHANGED vars
    BY <2>2 DEF vars, IInv, TypeOK, JobsExact, Holders, Counted, ExclusiveExact,
       DirectionExact, OwnerExcludes
  <2> QED BY <2>1, <2>2
<1> QED BY <1>1, <1>2, PTL DEF Spec

(* async_jobs, exclusive_operation and the direction flags of udp::socket  *)
(* are exactly what the tasks hold, on every rejection and error path, for *)
(* every finite set of tasks.                                              *)
THEOREM UdpReservations == Spec => []ReservationsExact
<1>1. IInv => ReservationsExact
  BY DEF IInv, JobsExact, Holders, Counted, ExclusiveExact, DirectionExact,
     ReservationsExact
<1> QED BY <1>1, UdpInvariant, PTL

(* The descriptor of udp::socket is not closed under an admitted operation *)
(* (close and safe_close), for every finite set of tasks.                  *)
THEOREM UdpCloseSafe == Spec => NoCloseUnderIo
<1>1. IInv /\ [Next]_vars =>
        [(\E t \in Tasks : pc[t] \in AdmittedPcs) => (open => open')]_vars
  <2> SUFFICES ASSUME IInv, Next, open, ~open', NEW u \in Tasks, pc[u] \in AdmittedPcs
               PROVE  FALSE
    OBVIOUS
  <2>1. PICK t \in Tasks : TaskStep(t)
    BY DEF Next, TaskStep
  <2>2. RawClose(t)
    BY <2>1 DEF TaskStep, Open, Admission, Closing, ReserveDirection, LoadExclusive,
       CountJob, RecheckExclusive, UncountJob, UnreserveDirection, PerformIo,
       FinishJob, ClearDirection, PublishDone, StartClose, AcquireExclusive,
       ReserveSlot, AbandonExclusive, ReleaseSlot, ReleaseExclusive, StartSafeClose,
       EndDrain, LastTest
  <2>3. pc[t] \in OwnerPcs
    BY <2>2 DEF RawClose, Step, OwnerPcs
  <2> QED BY <2>3 DEF IInv, OwnerExcludes
<1> QED BY <1>1, UdpInvariant, PTL DEF Spec, NoCloseUnderIo
=============================================================================

-------------------------- MODULE TcpSocketProofs ---------------------------
(***************************************************************************)
(* Safety of the socket's admission protocol, for any finite set of tasks. *)
(*                                                                         *)
(* The three counters of the protocol (exclusive_operation, the direction  *)
(* flags and async_jobs) are first tied to the program counters of the     *)
(* tasks that hold them; mutual exclusion follows from these ties, and the *)
(* TLS invariants from mutual exclusion.                                   *)
(***************************************************************************)
EXTENDS TcpSocket, SafeShutdown, FiniteSetTheorems, TLAPS

(* The operation a task executes fits the program counter it is at.        *)
OpMatchesPc ==
  \A t \in Tasks :
    /\ pc[t] \in ReservedPcs => op[t] \in IoOps
    /\ pc[t] \in {"xcas", "xjobs", "xabort", "xrelease"} \cup SlotPcs => op[t] \in ExclOps
    /\ pc[t] \in {"dcas", "retry_cancel", "retry_wait", "retry_cas", "cancel",
                  "drain", "give_up"} \cup DrainedPcs => op[t] = "safe_shutdown"
    /\ pc[t] \in {"clear_enabled", "drop_stream"} => op[t] \in ExclOps \cup {"safe_shutdown"}
    /\ pc[t] = "raw_close" => op[t] \in {"close", "safe_shutdown"}

(* The tasks that hold a unit of async_jobs.                               *)
Holders == {t \in Tasks : Counted(t)}

(* The gate: what the three counters mean, and mutual exclusion.           *)
GateInv ==
  /\ TypeOK
  /\ OpMatchesPc
  /\ JobsExact
  /\ ExclusiveExact
  /\ DirectionExact
  /\ OwnerExcludes

-----------------------------------------------------------------------------
(* Facts about the set of holders.                                         *)

LEMMA HoldersFinite == IsFiniteSet(Holders) /\ IsFiniteSet(Holders')
BY TasksAssumption, FS_Subset DEF Holders

(* A task that holds a unit finds async_jobs positive, so the decrement    *)
(* of the size_t does not wrap around.                                     *)
LEMMA HolderPositive ==
  ASSUME TypeOK, JobsExact, NEW t \in Tasks, Counted(t)
  PROVE  jobs >= 1
<1>1. t \in Holders
  BY DEF Holders
<1>2. Cardinality(Holders) # 0
  BY <1>1, HoldersFinite, FS_EmptySet
<1> QED
  BY <1>2 DEF JobsExact, Holders, TypeOK

(* When async_jobs is zero nobody holds a unit.                            *)
LEMMA NoHolder ==
  ASSUME JobsExact, jobs = 0, NEW t \in Tasks
  PROVE  ~ Counted(t)
<1>1. Holders = {}
  BY HoldersFinite, FS_EmptySet DEF JobsExact, Holders
<1> QED
  BY <1>1 DEF Holders

(* The count follows a task that starts to hold a unit, ...                *)
LEMMA HolderJoins ==
  ASSUME JobsExact, NEW t \in Tasks, Holders' = Holders \cup {t}, ~ Counted(t),
         jobs' = jobs + 1
  PROVE  JobsExact'
<1>1. Cardinality(Holders \cup {t}) = Cardinality(Holders) + 1
  BY HoldersFinite, FS_AddElement DEF Holders
<1> QED
  BY <1>1 DEF JobsExact, Holders

(* ... one that gives it back, ...                                         *)
LEMMA HolderLeaves ==
  ASSUME JobsExact, NEW t \in Tasks, Holders' = Holders \ {t}, Counted(t),
         jobs' = jobs - 1
  PROVE  JobsExact'
<1>1. Cardinality(Holders \ {t}) = Cardinality(Holders) - 1
  BY HoldersFinite, FS_RemoveElement DEF Holders
<1> QED
  BY <1>1 DEF JobsExact, Holders

(* ... and a step that changes neither.                                    *)
LEMMA HoldersSame ==
  ASSUME JobsExact, \A u \in Tasks : Counted(u)' <=> Counted(u), jobs' = jobs
  PROVE  JobsExact'
<1>1. Holders' = Holders
  BY DEF Holders
<1> QED
  BY <1>1 DEF JobsExact, Holders
-----------------------------------------------------------------------------
(* A step of one task preserves each part of the invariant: the actions    *)
(* that touch the part have a step of their own, the others are taken by   *)
(* group.                                                                  *)

(* A task changes its operation only when it enters or leaves one.         *)
LEMMA OpMatchesStep ==
  ASSUME TypeOK, OpMatchesPc, NEW t \in Tasks, TaskStep(t)
  PROVE  OpMatchesPc'
<1> USE DEF Pcs, ReservedPcs, AdmittedPcs, WaitPcs, ExclPcs, OwnerPcs,
     SlotPcs, DrainedPcs, ChangingPcs, AllOps, IoOps, ReadOps, WriteOps,
     ExclOps, TlsOps, AsyncOps, sockVars, gate, local, TypeOK, OpMatchesPc
<1>1. CASE ReserveDirection(t)
  BY <1>1 DEF ReserveDirection, Enter
<1>2. CASE StartExclusive(t)
  BY <1>2 DEF StartExclusive, Enter
<1>3. CASE StartSafeShutdown(t)
  BY <1>3 DEF StartSafeShutdown, Enter
<1>4. CASE DropStream(t)
  BY <1>4 DEF DropStream, Step
<1>5. CASE LoadExclusive(t) \/ CountJob(t) \/ RecheckExclusive(t) \/
     UncountJob(t) \/ UnreserveDirection(t) \/ FinishJob(t) \/
     ClearDirection(t) \/ PublishDone(t)
  BY <1>5 DEF LoadExclusive, CountJob, RecheckExclusive, UncountJob,
       UnreserveDirection, FinishJob, ClearDirection, PublishDone, Step, After
<1>6. CASE StartSyncIo(t) \/ StartAsyncIo(t) \/ GetTlsRaw(t) \/ CompleteIo(t)
     \/ PartialIo(t) \/ ReissueIo(t)
  BY <1>6 DEF StartSyncIo, StartAsyncIo, GetTlsRaw, CompleteIo, PartialIo,
       ReissueIo, Step
<1>7. CASE AcquireExclusive(t) \/ ReserveSlot(t) \/ AbandonExclusive(t) \/
     ReleaseSlot(t) \/ ReleaseExclusive(t)
  BY <1>7 DEF AcquireExclusive, ReserveSlot, AbandonExclusive, ReleaseSlot,
       ReleaseExclusive, Step, After
<1>8. CASE Connect(t) \/ Accept(t) \/ StartAsyncConnect(t) \/
     CompleteAsyncConnect(t)
  BY <1>8 DEF Connect, Accept, StartAsyncConnect, CompleteAsyncConnect, Step
<1>9. CASE InitSsl(t) \/ EnableTls(t) \/ Handshake(t)
  BY <1>9 DEF InitSsl, EnableTls, Handshake, Step
<1>10. CASE StartClose(t) \/ ClearEnabled(t) \/ RawClose(t)
  BY <1>10 DEF StartClose, ClearEnabled, RawClose, Step
<1>11. CASE BeginDraining(t) \/ CancelRival(t) \/ EndRetryWait(t) \/
     RetryDraining(t) \/ CancelPending(t)
  BY <1>11 DEF BeginDraining, CancelRival, EndRetryWait, RetryDraining,
       CancelPending, Step, Outstanding
<1>12. CASE DrainDone(t) \/ DrainTimeout(t) \/ CheckTls(t) \/ TlsShutdown(t)
     \/ EndDraining(t)
  BY <1>12 DEF DrainDone, DrainTimeout, CheckTls, TlsShutdown, EndDraining,
       Step
<1> QED
  BY <1>1, <1>2, <1>3, <1>4, <1>5, <1>6, <1>7, <1>8, <1>9, <1>10, <1>11, <1>12
       DEF TaskStep, Admission, Io, Exclusive, Connecting, Securing, Closing,
       Draining, Drained

(* exclusive_operation: won by a compare-exchange from false, stored false *)
(* only by the task that won it.                                           *)
LEMMA ExclusiveStep ==
  ASSUME TypeOK, ExclusiveExact, NEW t \in Tasks, TaskStep(t)
  PROVE  ExclusiveExact'
<1> USE DEF Pcs, ReservedPcs, AdmittedPcs, WaitPcs, ExclPcs, OwnerPcs,
     SlotPcs, DrainedPcs, ChangingPcs, sockVars, gate, local, TypeOK,
     ExclusiveExact
<1>1. CASE AcquireExclusive(t)
  BY <1>1 DEF AcquireExclusive, Step
<1>2. CASE AbandonExclusive(t)
  BY <1>2 DEF AbandonExclusive, Step
<1>3. CASE ReleaseExclusive(t)
  BY <1>3 DEF ReleaseExclusive, Step, After
<1>4. CASE BeginDraining(t)
  BY <1>4 DEF BeginDraining, Step
<1>5. CASE RetryDraining(t)
  BY <1>5 DEF RetryDraining, Step
<1>6. CASE EndDraining(t)
  BY <1>6 DEF EndDraining, Step
<1>7. CASE ReserveDirection(t) \/ LoadExclusive(t) \/ CountJob(t) \/
     RecheckExclusive(t) \/ UncountJob(t) \/ UnreserveDirection(t) \/
     FinishJob(t) \/ ClearDirection(t) \/ PublishDone(t)
  BY <1>7 DEF ReserveDirection, LoadExclusive, CountJob, RecheckExclusive,
       UncountJob, UnreserveDirection, FinishJob, ClearDirection, PublishDone,
       Enter, Step, After
<1>8. CASE StartSyncIo(t) \/ StartAsyncIo(t) \/ GetTlsRaw(t) \/ CompleteIo(t)
     \/ PartialIo(t) \/ ReissueIo(t)
  BY <1>8 DEF StartSyncIo, StartAsyncIo, GetTlsRaw, CompleteIo, PartialIo,
       ReissueIo, Step
<1>9. CASE StartExclusive(t) \/ ReserveSlot(t) \/ ReleaseSlot(t)
  BY <1>9 DEF StartExclusive, ReserveSlot, ReleaseSlot, Enter, Step
<1>10. CASE Connect(t) \/ Accept(t) \/ StartAsyncConnect(t) \/
     CompleteAsyncConnect(t)
  BY <1>10 DEF Connect, Accept, StartAsyncConnect, CompleteAsyncConnect, Step
<1>11. CASE InitSsl(t) \/ EnableTls(t) \/ Handshake(t)
  BY <1>11 DEF InitSsl, EnableTls, Handshake, Step
<1>12. CASE StartClose(t) \/ ClearEnabled(t) \/ DropStream(t) \/ RawClose(t)
  BY <1>12 DEF StartClose, ClearEnabled, DropStream, RawClose, Step
<1>13. CASE StartSafeShutdown(t) \/ CancelRival(t) \/ EndRetryWait(t) \/
     CancelPending(t)
  BY <1>13 DEF StartSafeShutdown, CancelRival, EndRetryWait, CancelPending,
       Enter, Step, Outstanding
<1>14. CASE DrainDone(t) \/ DrainTimeout(t) \/ CheckTls(t) \/ TlsShutdown(t)
  BY <1>14 DEF DrainDone, DrainTimeout, CheckTls, TlsShutdown, Step
<1> QED
  BY <1>1, <1>2, <1>3, <1>4, <1>5, <1>6, <1>7, <1>8, <1>9, <1>10, <1>11,
       <1>12, <1>13, <1>14 DEF TaskStep, Admission, Io, Exclusive, Connecting,
       Securing, Closing, Draining, Drained

(* The direction flags: likewise, one task per direction.                  *)
LEMMA DirectionStep ==
  ASSUME TypeOK, OpMatchesPc, DirectionExact, NEW t \in Tasks, TaskStep(t)
  PROVE  DirectionExact'
<1> USE DEF Pcs, ReservedPcs, AdmittedPcs, WaitPcs, ExclPcs, OwnerPcs,
     SlotPcs, DrainedPcs, ChangingPcs, AllOps, IoOps, ReadOps, WriteOps,
     ExclOps, TlsOps, AsyncOps, sockVars, gate, local, TypeOK, OpMatchesPc,
     DirectionExact, Directions, Direction
<1>1. CASE ReserveDirection(t)
  BY <1>1 DEF ReserveDirection, Enter
<1>2. CASE UnreserveDirection(t)
  BY <1>2 DEF UnreserveDirection, Step
<1>3. CASE ClearDirection(t)
  BY <1>3 DEF ClearDirection, Step, After
<1>4. CASE LoadExclusive(t) \/ CountJob(t) \/ RecheckExclusive(t) \/
     UncountJob(t) \/ FinishJob(t) \/ PublishDone(t)
  BY <1>4 DEF LoadExclusive, CountJob, RecheckExclusive, UncountJob,
       FinishJob, PublishDone, Step
<1>5. CASE StartSyncIo(t) \/ StartAsyncIo(t) \/ GetTlsRaw(t) \/ CompleteIo(t)
     \/ PartialIo(t) \/ ReissueIo(t)
  BY <1>5 DEF StartSyncIo, StartAsyncIo, GetTlsRaw, CompleteIo, PartialIo,
       ReissueIo, Step
<1>6. CASE StartExclusive(t) \/ AcquireExclusive(t) \/ ReserveSlot(t) \/
     AbandonExclusive(t) \/ ReleaseSlot(t) \/ ReleaseExclusive(t)
  BY <1>6 DEF StartExclusive, AcquireExclusive, ReserveSlot, AbandonExclusive,
       ReleaseSlot, ReleaseExclusive, Enter, Step, After
<1>7. CASE Connect(t) \/ Accept(t) \/ StartAsyncConnect(t) \/
     CompleteAsyncConnect(t)
  BY <1>7 DEF Connect, Accept, StartAsyncConnect, CompleteAsyncConnect, Step
<1>8. CASE InitSsl(t) \/ EnableTls(t) \/ Handshake(t)
  BY <1>8 DEF InitSsl, EnableTls, Handshake, Step
<1>9. CASE StartClose(t) \/ ClearEnabled(t) \/ DropStream(t) \/ RawClose(t)
  BY <1>9 DEF StartClose, ClearEnabled, DropStream, RawClose, Step
<1>10. CASE StartSafeShutdown(t) \/ BeginDraining(t) \/ CancelRival(t) \/
     EndRetryWait(t) \/ RetryDraining(t) \/ CancelPending(t)
  BY <1>10 DEF StartSafeShutdown, BeginDraining, CancelRival, EndRetryWait,
       RetryDraining, CancelPending, Enter, Step, Outstanding
<1>11. CASE DrainDone(t) \/ DrainTimeout(t) \/ CheckTls(t) \/ TlsShutdown(t)
     \/ EndDraining(t)
  BY <1>11 DEF DrainDone, DrainTimeout, CheckTls, TlsShutdown, EndDraining,
       Step
<1> QED
  BY <1>1, <1>2, <1>3, <1>4, <1>5, <1>6, <1>7, <1>8, <1>9, <1>10, <1>11 DEF
       TaskStep, Admission, Io, Exclusive, Connecting, Securing, Closing,
       Draining, Drained

(* Mutual exclusion.  The re-check admits a task only if nobody has won    *)
(* exclusive_operation, so nobody is an owner; a task becomes an owner     *)
(* only when async_jobs is zero, so nobody is admitted.                    *)
LEMMA OwnerStep ==
  ASSUME TypeOK, OpMatchesPc, JobsExact, ExclusiveExact, OwnerExcludes, NEW t
       \in Tasks, TaskStep(t)
  PROVE  OwnerExcludes'
<1> USE DEF Pcs, ReservedPcs, AdmittedPcs, WaitPcs, ExclPcs, OwnerPcs,
     SlotPcs, DrainedPcs, ChangingPcs, sockVars, gate, local, TypeOK,
     OpMatchesPc, ExclusiveExact, OwnerExcludes
<1>1. CASE RecheckExclusive(t)
  BY <1>1 DEF RecheckExclusive, Step
<1>2. CASE ReserveSlot(t)
  BY <1>2, NoHolder DEF ReserveSlot, Step, Counted
<1>3. CASE DrainDone(t)
  BY <1>3, NoHolder DEF DrainDone, Step, Counted
<1>4. CASE ReserveDirection(t) \/ LoadExclusive(t) \/ CountJob(t) \/
     UncountJob(t) \/ UnreserveDirection(t) \/ FinishJob(t) \/
     ClearDirection(t) \/ PublishDone(t)
  BY <1>4 DEF ReserveDirection, LoadExclusive, CountJob, UncountJob,
       UnreserveDirection, FinishJob, ClearDirection, PublishDone, Enter,
       Step, After
<1>5. CASE StartSyncIo(t) \/ StartAsyncIo(t) \/ GetTlsRaw(t) \/ CompleteIo(t)
     \/ PartialIo(t) \/ ReissueIo(t)
  BY <1>5 DEF StartSyncIo, StartAsyncIo, GetTlsRaw, CompleteIo, PartialIo,
       ReissueIo, Step
<1>6. CASE StartExclusive(t) \/ AcquireExclusive(t) \/ AbandonExclusive(t) \/
     ReleaseSlot(t) \/ ReleaseExclusive(t)
  BY <1>6 DEF StartExclusive, AcquireExclusive, AbandonExclusive, ReleaseSlot,
       ReleaseExclusive, Enter, Step, After
<1>7. CASE Connect(t) \/ Accept(t) \/ StartAsyncConnect(t) \/
     CompleteAsyncConnect(t)
  BY <1>7 DEF Connect, Accept, StartAsyncConnect, CompleteAsyncConnect, Step
<1>8. CASE InitSsl(t) \/ EnableTls(t) \/ Handshake(t)
  BY <1>8 DEF InitSsl, EnableTls, Handshake, Step
<1>9. CASE StartClose(t) \/ ClearEnabled(t) \/ DropStream(t) \/ RawClose(t)
  BY <1>9 DEF StartClose, ClearEnabled, DropStream, RawClose, Step
<1>10. CASE StartSafeShutdown(t) \/ BeginDraining(t) \/ CancelRival(t) \/
     EndRetryWait(t) \/ RetryDraining(t) \/ CancelPending(t)
  BY <1>10 DEF StartSafeShutdown, BeginDraining, CancelRival, EndRetryWait,
       RetryDraining, CancelPending, Enter, Step, Outstanding
<1>11. CASE DrainTimeout(t) \/ CheckTls(t) \/ TlsShutdown(t) \/ EndDraining(t)
  BY <1>11 DEF DrainTimeout, CheckTls, TlsShutdown, EndDraining, Step
<1> QED
  BY <1>1, <1>2, <1>3, <1>4, <1>5, <1>6, <1>7, <1>8, <1>9, <1>10, <1>11 DEF
       TaskStep, Admission, Io, Exclusive, Connecting, Securing, Closing,
       Draining, Drained

(* async_jobs follows the tasks that hold a unit of it.                    *)
LEMMA JobsStep ==
  ASSUME TypeOK, OpMatchesPc, JobsExact, NEW t \in Tasks, TaskStep(t)
  PROVE  JobsExact'
<1> USE DEF Pcs, ReservedPcs, AdmittedPcs, WaitPcs, ExclPcs, OwnerPcs,
     SlotPcs, DrainedPcs, ChangingPcs, AllOps, IoOps, ReadOps, WriteOps,
     ExclOps, TlsOps, AsyncOps, sockVars, gate, local, TypeOK, OpMatchesPc,
     Counted
<1>1. CASE CountJob(t)
  <2>1. Holders' = Holders \cup {t} /\ ~ Counted(t)
    BY <1>1 DEF CountJob, Step, Holders
  <2> QED
    BY <1>1, <2>1, HolderJoins DEF CountJob
<1>2. CASE ReserveSlot(t) /\ jobs = 0
  <2>1. Holders' = Holders \cup {t} /\ ~ Counted(t)
    BY <1>2 DEF ReserveSlot, Step, Holders
  <2> QED
    BY <1>2, <2>1, HolderJoins DEF ReserveSlot
<1>2a. CASE ReserveSlot(t) /\ jobs # 0
  <2>1. \A u \in Tasks : Counted(u)' <=> Counted(u)
    BY <1>2a DEF ReserveSlot, Step
  <2> QED
    BY <1>2a, <2>1, HoldersSame DEF ReserveSlot
<1>3. CASE UncountJob(t)
  <2>1. Holders' = Holders \ {t} /\ Counted(t)
    BY <1>3 DEF UncountJob, Step, Holders
  <2> QED
    BY <1>3, <2>1, HolderLeaves DEF UncountJob
<1>4. CASE FinishJob(t)
  <2>1. Holders' = Holders \ {t} /\ Counted(t)
    BY <1>4 DEF FinishJob, Step, Holders
  <2> QED
    BY <1>4, <2>1, HolderLeaves DEF FinishJob
<1>5. CASE ReleaseSlot(t)
  <2>1. Holders' = Holders \ {t} /\ Counted(t)
    BY <1>5 DEF ReleaseSlot, Step, Holders
  <2> QED
    BY <1>5, <2>1, HolderLeaves DEF ReleaseSlot
<1>6. CASE ReserveDirection(t) \/ LoadExclusive(t) \/ RecheckExclusive(t) \/
     UnreserveDirection(t) \/ ClearDirection(t) \/ PublishDone(t)
  <2>1. (\A u \in Tasks : Counted(u)' <=> Counted(u)) /\ jobs' = jobs
    BY <1>6 DEF ReserveDirection, LoadExclusive, RecheckExclusive,
         UnreserveDirection, ClearDirection, PublishDone, Enter, Step, After
  <2> QED
    BY <2>1, HoldersSame
<1>7. CASE StartSyncIo(t) \/ StartAsyncIo(t) \/ GetTlsRaw(t) \/ CompleteIo(t)
     \/ PartialIo(t) \/ ReissueIo(t)
  <2>1. (\A u \in Tasks : Counted(u)' <=> Counted(u)) /\ jobs' = jobs
    BY <1>7 DEF StartSyncIo, StartAsyncIo, GetTlsRaw, CompleteIo, PartialIo,
         ReissueIo, Step
  <2> QED
    BY <2>1, HoldersSame
<1>8. CASE StartExclusive(t) \/ AcquireExclusive(t) \/ AbandonExclusive(t) \/
     ReleaseExclusive(t)
  <2>1. (\A u \in Tasks : Counted(u)' <=> Counted(u)) /\ jobs' = jobs
    BY <1>8 DEF StartExclusive, AcquireExclusive, AbandonExclusive,
         ReleaseExclusive, Enter, Step, After
  <2> QED
    BY <2>1, HoldersSame
<1>9. CASE Connect(t) \/ Accept(t) \/ StartAsyncConnect(t) \/
     CompleteAsyncConnect(t)
  <2>1. (\A u \in Tasks : Counted(u)' <=> Counted(u)) /\ jobs' = jobs
    BY <1>9 DEF Connect, Accept, StartAsyncConnect, CompleteAsyncConnect, Step
  <2> QED
    BY <2>1, HoldersSame
<1>10. CASE InitSsl(t) \/ EnableTls(t) \/ Handshake(t)
  <2>1. (\A u \in Tasks : Counted(u)' <=> Counted(u)) /\ jobs' = jobs
    BY <1>10 DEF InitSsl, EnableTls, Handshake, Step
  <2> QED
    BY <2>1, HoldersSame
<1>11. CASE StartClose(t) \/ ClearEnabled(t) \/ DropStream(t) \/ RawClose(t)
  <2>1. (\A u \in Tasks : Counted(u)' <=> Counted(u)) /\ jobs' = jobs
    BY <1>11 DEF StartClose, ClearEnabled, DropStream, RawClose, Step
  <2> QED
    BY <2>1, HoldersSame
<1>12. CASE StartSafeShutdown(t) \/ BeginDraining(t) \/ CancelRival(t) \/
     EndRetryWait(t) \/ RetryDraining(t) \/ CancelPending(t)
  <2>1. (\A u \in Tasks : Counted(u)' <=> Counted(u)) /\ jobs' = jobs
    BY <1>12 DEF StartSafeShutdown, BeginDraining, CancelRival, EndRetryWait,
         RetryDraining, CancelPending, Enter, Step, Outstanding
  <2> QED
    BY <2>1, HoldersSame
<1>13. CASE DrainDone(t) \/ DrainTimeout(t) \/ CheckTls(t) \/ TlsShutdown(t)
     \/ EndDraining(t)
  <2>1. (\A u \in Tasks : Counted(u)' <=> Counted(u)) /\ jobs' = jobs
    BY <1>13 DEF DrainDone, DrainTimeout, CheckTls, TlsShutdown, EndDraining,
         Step
  <2> QED
    BY <2>1, HoldersSame
<1> QED
  BY <1>1, <1>2, <1>2a, <1>3, <1>4, <1>5, <1>6, <1>7, <1>8, <1>9, <1>10, <1>11,
       <1>12, <1>13 DEF TaskStep, Admission, Io, Exclusive, Connecting,
       Securing, Closing, Draining, Drained

(* Types; a task that decrements async_jobs holds a unit of it.            *)
LEMMA TypeStep ==
  ASSUME TypeOK, OpMatchesPc, JobsExact, NEW t \in Tasks, TaskStep(t)
  PROVE  TypeOK'
<1> USE DEF Pcs, ReservedPcs, AdmittedPcs, WaitPcs, ExclPcs, OwnerPcs,
     SlotPcs, DrainedPcs, ChangingPcs, AllOps, IoOps, ReadOps, WriteOps,
     ExclOps, TlsOps, AsyncOps, sockVars, gate, local, MayOpen, TypeOK,
     Directions, Direction
<1>1. CASE ReserveDirection(t)
  BY <1>1 DEF ReserveDirection, Enter
<1>2. CASE UnreserveDirection(t)
  BY <1>2 DEF UnreserveDirection, Step
<1>3. CASE ClearDirection(t)
  BY <1>3 DEF ClearDirection, Step, After
<1>4. CASE StartExclusive(t)
  BY <1>4 DEF StartExclusive, Enter
<1>5. CASE ReserveSlot(t)
  BY <1>5 DEF ReserveSlot, Step
<1>6. CASE UncountJob(t)
  BY <1>6, HolderPositive DEF UncountJob, Step, Counted
<1>7. CASE FinishJob(t)
  BY <1>7, HolderPositive DEF FinishJob, Step, Counted
<1>8. CASE ReleaseSlot(t)
  BY <1>8, HolderPositive DEF ReleaseSlot, Step, Counted
<1>9. CASE LoadExclusive(t) \/ CountJob(t) \/ RecheckExclusive(t) \/
     PublishDone(t)
  BY <1>9 DEF LoadExclusive, CountJob, RecheckExclusive, PublishDone, Step
<1>10. CASE StartSyncIo(t) \/ StartAsyncIo(t) \/ GetTlsRaw(t) \/ CompleteIo(t)
     \/ PartialIo(t) \/ ReissueIo(t)
  BY <1>10 DEF StartSyncIo, StartAsyncIo, GetTlsRaw, CompleteIo, PartialIo,
       ReissueIo, Step
<1>11. CASE AcquireExclusive(t) \/ AbandonExclusive(t) \/ ReleaseExclusive(t)
  BY <1>11 DEF AcquireExclusive, AbandonExclusive, ReleaseExclusive, Step,
       After
<1>12. CASE Connect(t) \/ Accept(t) \/ StartAsyncConnect(t) \/
     CompleteAsyncConnect(t)
  BY <1>12 DEF Connect, Accept, StartAsyncConnect, CompleteAsyncConnect, Step
<1>13. CASE InitSsl(t) \/ EnableTls(t) \/ Handshake(t)
  BY <1>13, ZenonT(40) DEF InitSsl, EnableTls, Handshake, Step
<1>14. CASE StartClose(t) \/ ClearEnabled(t) \/ DropStream(t) \/ RawClose(t)
  BY <1>14, ZenonT(40) DEF StartClose, ClearEnabled, DropStream, RawClose, Step
<1>15. CASE StartSafeShutdown(t) \/ BeginDraining(t) \/ CancelRival(t) \/
     EndRetryWait(t) \/ RetryDraining(t) \/ CancelPending(t)
  BY <1>15, ZenonT(40) DEF StartSafeShutdown, BeginDraining, CancelRival, EndRetryWait,
       RetryDraining, CancelPending, Enter, Step, Outstanding
<1>16. CASE DrainDone(t) \/ DrainTimeout(t) \/ CheckTls(t) \/ TlsShutdown(t)
     \/ EndDraining(t)
  BY <1>16, ZenonT(40) DEF DrainDone, DrainTimeout, CheckTls, TlsShutdown, EndDraining,
       Step
<1> QED
  BY <1>1, <1>2, <1>3, <1>4, <1>5, <1>6, <1>7, <1>8, <1>9, <1>10, <1>11,
       <1>12, <1>13, <1>14, <1>15, <1>16 DEF TaskStep, Admission, Io,
       Exclusive, Connecting, Securing, Closing, Draining, Drained

-----------------------------------------------------------------------------
(* The TLS state along the steps that build it up and take it down, each   *)
(* taken by an owner of the socket.                                        *)
TlsInv ==
  /\ (tlsEnabled <=> tlsStream) \/ \E t \in Tasks : pc[t] \in {"enable", "drop_stream"}
  /\ tlsStream => \/ open
                  \/ \E t \in Tasks : /\ pc[t] \in {"clear_enabled", "drop_stream"}
                                       /\ op[t] = "safe_shutdown"
  /\ \A t \in Tasks :
       /\ pc[t] \in {"enable", "drop_stream"} => tlsStream /\ ~tlsEnabled
       /\ pc[t] \in {"handshake", "clear_enabled", "tls_shutdown"} => tlsStream /\ tlsEnabled
       /\ pc[t] \in {"raw_close", "end_draining"} => ~tlsStream
       /\ pc[t] = "end_draining" => ~open

(* The owner is alone, so no other task is at a TLS step.                  *)
LEMMA TlsStep ==
  ASSUME TypeOK, OpMatchesPc, OwnerExcludes, TlsInv, NEW t \in Tasks,
       TaskStep(t)
  PROVE  TlsInv'
<1> USE DEF Pcs, ReservedPcs, AdmittedPcs, WaitPcs, ExclPcs, OwnerPcs,
     SlotPcs, DrainedPcs, ChangingPcs, sockVars, gate, local, MayOpen, TypeOK,
     OpMatchesPc, OwnerExcludes, TlsInv
<1>1. CASE StartClose(t)
  <2>1. tlsEnabled <=> tlsStream
    BY <1>1 DEF StartClose, Step
  <2>2. \A u \in Tasks : u # t => pc[u] \notin OwnerPcs
    BY <1>1 DEF StartClose, Step
  <2>3. CASE tlsStream
    <3>1. open
      BY <1>1, <2>2, <2>3 DEF StartClose, Step
    <3>2. pc' = [pc EXCEPT ![t] = "clear_enabled"]
      BY <1>1, <2>3 DEF StartClose, Step
    <3> QED
      BY <1>1, <2>1, <2>2, <2>3, <3>1, <3>2 DEF StartClose
  <2>4. CASE ~tlsStream /\ op[t] = "close"
    BY <1>1, <2>1, <2>2, <2>4 DEF StartClose, Step
  <2>5. CASE ~tlsStream /\ op[t] = "shutdown"
    BY <1>1, <2>1, <2>2, <2>5 DEF StartClose, Step
  <2> QED
    BY <1>1, <2>3, <2>4, <2>5 DEF StartClose
<1>2. CASE InitSsl(t)
  BY <1>2 DEF InitSsl, Step
<1>3. CASE EnableTls(t)
  BY <1>3 DEF EnableTls, Step
<1>4. CASE ClearEnabled(t)
  BY <1>4 DEF ClearEnabled, Step
<1>5. CASE DropStream(t)
  BY <1>5 DEF DropStream, Step
<1>6. CASE RawClose(t)
  BY <1>6 DEF RawClose, Step
<1>7. CASE TlsShutdown(t)
  BY <1>7 DEF TlsShutdown, Step
<1>8. CASE ReserveDirection(t) \/ LoadExclusive(t) \/ CountJob(t) \/
     RecheckExclusive(t) \/ UncountJob(t) \/ UnreserveDirection(t) \/
     FinishJob(t) \/ ClearDirection(t) \/ PublishDone(t)
  BY <1>8 DEF ReserveDirection, LoadExclusive, CountJob, RecheckExclusive,
       UncountJob, UnreserveDirection, FinishJob, ClearDirection, PublishDone,
       Enter, Step, After
<1>9. CASE StartSyncIo(t) \/ StartAsyncIo(t) \/ GetTlsRaw(t) \/ CompleteIo(t)
     \/ PartialIo(t) \/ ReissueIo(t)
  BY <1>9 DEF StartSyncIo, StartAsyncIo, GetTlsRaw, CompleteIo, PartialIo,
       ReissueIo, Step
<1>10. CASE StartExclusive(t) \/ AcquireExclusive(t) \/ ReserveSlot(t) \/
     AbandonExclusive(t) \/ ReleaseSlot(t) \/ ReleaseExclusive(t)
  BY <1>10 DEF StartExclusive, AcquireExclusive, ReserveSlot,
       AbandonExclusive, ReleaseSlot, ReleaseExclusive, Enter, Step, After
<1>11. CASE Connect(t) \/ Accept(t) \/ StartAsyncConnect(t) \/
     CompleteAsyncConnect(t)
  BY <1>11 DEF Connect, Accept, StartAsyncConnect, CompleteAsyncConnect, Step
<1>12. CASE Handshake(t)
  BY <1>12 DEF Handshake, Step
<1>13. CASE StartSafeShutdown(t) \/ BeginDraining(t) \/ CancelRival(t) \/
     EndRetryWait(t) \/ RetryDraining(t) \/ CancelPending(t)
  BY <1>13 DEF StartSafeShutdown, BeginDraining, CancelRival, EndRetryWait,
       RetryDraining, CancelPending, Enter, Step, Outstanding
<1>14. CASE DrainDone(t) \/ DrainTimeout(t) \/ CheckTls(t) \/ EndDraining(t)
  BY <1>14 DEF DrainDone, DrainTimeout, CheckTls, EndDraining, Step
<1> QED
  BY <1>1, <1>2, <1>3, <1>4, <1>5, <1>6, <1>7, <1>8, <1>9, <1>10, <1>11,
       <1>12, <1>13, <1>14 DEF TaskStep, Admission, Io, Exclusive, Connecting,
       Securing, Closing, Draining, Drained

(* I/O picks its transport while admitted, when no owner can be replacing  *)
(* it.                                                                     *)
LEMMA TransportStep ==
  ASSUME TypeOK, OpMatchesPc, OwnerExcludes, TlsInv, TransportCurrent, NEW t
       \in Tasks, TaskStep(t)
  PROVE  TransportCurrent'
<1> USE DEF Pcs, ReservedPcs, AdmittedPcs, WaitPcs, ExclPcs, OwnerPcs,
     SlotPcs, DrainedPcs, ChangingPcs, sockVars, gate, local, TypeOK,
     OpMatchesPc, OwnerExcludes, TransportCurrent
<1>1. CASE StartSyncIo(t)
  BY <1>1 DEF StartSyncIo, Step
<1>2. CASE StartAsyncIo(t)
  BY <1>2 DEF StartAsyncIo, Step, TlsInv
<1>3. CASE GetTlsRaw(t)
  BY <1>3 DEF GetTlsRaw, Step
<1>4. CASE InitSsl(t)
  BY <1>4 DEF InitSsl, Step
<1>5. CASE DropStream(t)
  BY <1>5 DEF DropStream, Step
<1>6. CASE ReserveDirection(t) \/ LoadExclusive(t) \/ CountJob(t) \/
     RecheckExclusive(t) \/ UncountJob(t) \/ UnreserveDirection(t) \/
     FinishJob(t) \/ ClearDirection(t) \/ PublishDone(t)
  BY <1>6 DEF ReserveDirection, LoadExclusive, CountJob, RecheckExclusive,
       UncountJob, UnreserveDirection, FinishJob, ClearDirection, PublishDone,
       Enter, Step, After
<1>7. CASE CompleteIo(t) \/ PartialIo(t) \/ ReissueIo(t)
  BY <1>7 DEF CompleteIo, PartialIo, ReissueIo, Step
<1>8. CASE StartExclusive(t) \/ AcquireExclusive(t) \/ ReserveSlot(t) \/
     AbandonExclusive(t) \/ ReleaseSlot(t) \/ ReleaseExclusive(t)
  BY <1>8 DEF StartExclusive, AcquireExclusive, ReserveSlot, AbandonExclusive,
       ReleaseSlot, ReleaseExclusive, Enter, Step, After
<1>9. CASE Connect(t) \/ Accept(t) \/ StartAsyncConnect(t) \/
     CompleteAsyncConnect(t)
  BY <1>9 DEF Connect, Accept, StartAsyncConnect, CompleteAsyncConnect, Step
<1>10. CASE EnableTls(t) \/ Handshake(t)
  BY <1>10 DEF EnableTls, Handshake, Step
<1>11. CASE StartClose(t) \/ ClearEnabled(t) \/ RawClose(t)
  BY <1>11 DEF StartClose, ClearEnabled, RawClose, Step
<1>12. CASE StartSafeShutdown(t) \/ BeginDraining(t) \/ CancelRival(t) \/
     EndRetryWait(t) \/ RetryDraining(t) \/ CancelPending(t)
  BY <1>12 DEF StartSafeShutdown, BeginDraining, CancelRival, EndRetryWait,
       RetryDraining, CancelPending, Enter, Step, Outstanding
<1>13. CASE DrainDone(t) \/ DrainTimeout(t) \/ CheckTls(t) \/ TlsShutdown(t)
     \/ EndDraining(t)
  BY <1>13 DEF DrainDone, DrainTimeout, CheckTls, TlsShutdown, EndDraining,
       Step
<1> QED
  BY <1>1, <1>2, <1>3, <1>4, <1>5, <1>6, <1>7, <1>8, <1>9, <1>10, <1>11,
       <1>12, <1>13 DEF TaskStep, Admission, Io, Exclusive, Connecting,
       Securing, Closing, Draining, Drained

-----------------------------------------------------------------------------
(* The inductive invariant.                                                *)
IInv == GateInv /\ TlsInv /\ TransportCurrent

(* It holds initially: nobody holds anything, and Cardinality({}) is 0.    *)
LEMMA InitIInv == Init => IInv
<1> SUFFICES ASSUME Init PROVE IInv
  OBVIOUS
<1> USE DEF Init, Pcs, ReservedPcs, AdmittedPcs, WaitPcs, ExclPcs, OwnerPcs,
     SlotPcs, DrainedPcs, ChangingPcs
<1>1. TypeOK
  BY DEF TypeOK, Directions
<1>2. JobsExact
  <2>1. Holders = {}
    BY DEF Holders, Counted
  <2> QED
    BY <2>1, FS_EmptySet DEF JobsExact, Holders
<1>3. OpMatchesPc /\ ExclusiveExact /\ OwnerExcludes
  BY DEF OpMatchesPc, ExclusiveExact, OwnerExcludes
<1>4. DirectionExact
  BY DEF DirectionExact, Directions
<1>5. TlsInv /\ TransportCurrent
  BY DEF TlsInv, TransportCurrent
<1> QED
  BY <1>1, <1>2, <1>3, <1>4, <1>5 DEF IInv, GateInv

(* Every step preserves it.                                                *)
LEMMA NextIInv == IInv /\ [Next]_vars => IInv'
<1> SUFFICES ASSUME IInv, [Next]_vars PROVE IInv'
  OBVIOUS
<1>1. CASE Next
  <2>1. PICK t \in Tasks : TaskStep(t)
    BY <1>1 DEF Next
  <2>2. TypeOK' /\ OpMatchesPc' /\ JobsExact'
    BY <2>1, TypeStep, OpMatchesStep, JobsStep DEF IInv, GateInv
  <2>3. ExclusiveExact' /\ DirectionExact' /\ OwnerExcludes'
    BY <2>1, ExclusiveStep, DirectionStep, OwnerStep DEF IInv, GateInv
  <2>4. TlsInv' /\ TransportCurrent'
    BY <2>1, TlsStep, TransportStep DEF IInv, GateInv
  <2> QED
    BY <2>2, <2>3, <2>4 DEF IInv, GateInv
<1>2. CASE UNCHANGED vars
  BY <1>2 DEF vars, sockVars, gate, local, IInv, GateInv, TypeOK, OpMatchesPc,
     JobsExact, Counted, ExclusiveExact, DirectionExact, OwnerExcludes, TlsInv,
     TransportCurrent
<1> QED
  BY <1>1, <1>2

(* The invariant of the whole protocol.                                    *)
THEOREM SocketInvariant == Spec => []IInv
BY InitIInv, NextIInv, PTL DEF Spec

-----------------------------------------------------------------------------
(* The socket's variables keep their types; async_jobs never wraps below   *)
(* zero.                                                                   *)
THEOREM TypeCorrect == Spec => []TypeOK
<1>1. IInv => TypeOK
  BY DEF IInv, GateInv
<1> QED
  BY <1>1, SocketInvariant, PTL

(* No path through begin_io_job, finish_io_job, begin_exclusive_operation, *)
(* its end or safe_shutdown leaks or steals a reservation: the count, the  *)
(* exclusive flag and the direction flags are exact in every state.        *)
THEOREM ReservationsExact == Spec => []ReservationsBalance
<1>1. IInv => ReservationsBalance
  BY DEF IInv, GateInv, ReservationsBalance
<1> QED
  BY <1>1, SocketInvariant, PTL

(* The double check of try_begin_io_job against the compare-exchange of    *)
(* begin_exclusive_operation, and against the drain of safe_shutdown,      *)
(* gives mutual exclusion for any number of tasks.                         *)
THEOREM MutualExclusion == Spec => []OwnerExcludes
<1>1. IInv => OwnerExcludes
  BY DEF IInv, GateInv
<1> QED
  BY <1>1, SocketInvariant, PTL

(* No I/O call ever uses a TLS stream that is gone, or the bare socket of  *)
(* a connection that has become TLS.                                       *)
THEOREM TransportSafe == Spec => []TransportCurrent
<1>1. IInv => TransportCurrent
  BY DEF IInv
<1> QED
  BY <1>1, SocketInvariant, PTL

(* is_ssl() agrees with the stream, and a closed socket has no TLS stream, *)
(* whenever no exclusive operation is under way.                           *)
THEOREM TlsFlagSafe == Spec => []TlsCoherent
<1>1. IInv => TlsCoherent
  BY DEF IInv, GateInv, TypeOK, ExclusiveExact, TlsInv, TlsCoherent, ExclPcs,
     OwnerPcs, SlotPcs, DrainedPcs, ChangingPcs
<1> QED
  BY <1>1, SocketInvariant, PTL

(* A safe_shutdown past its drain closes the socket and drops TLS.         *)
THEOREM ShutdownSafe == Spec => []ShutdownComplete
<1>1. IInv => ShutdownComplete
  <2> SUFFICES ASSUME IInv, NEW t \in Tasks, pc[t] = "end_draining"
               PROVE  ~open /\ ~tlsStream /\ ~tlsEnabled
    BY DEF ShutdownComplete
  <2>1. ~ \E u \in Tasks : pc[u] \in {"enable", "drop_stream"}
    BY DEF IInv, GateInv, OwnerExcludes, OwnerPcs, SlotPcs, DrainedPcs, ChangingPcs
  <2> QED
    BY <2>1 DEF IInv, GateInv, TypeOK, TlsInv
<1> QED
  BY <1>1, SocketInvariant, PTL
-----------------------------------------------------------------------------
(* An admitted I/O operation is never overtaken by a change of transport:  *)
(* only owners open, close or secure the socket.                           *)
THEOREM TransportStable == Spec => IoKeepsTransport
<1>1. ASSUME IInv, [Next]_vars, NEW a \in Tasks, pc[a] \in AdmittedPcs
      PROVE  UNCHANGED sockVars
  <2>1. CASE UNCHANGED vars
    BY <2>1 DEF vars
  <2>2. CASE Next
    <3>1. PICK t \in Tasks : TaskStep(t)
      BY <2>2 DEF Next
    <3>2. pc[t] \notin OwnerPcs
      BY <1>1 DEF IInv, GateInv, OwnerExcludes, AdmittedPcs, OwnerPcs, SlotPcs,
         DrainedPcs, ChangingPcs
    <3> USE <3>2 DEF OwnerPcs, SlotPcs, DrainedPcs, ChangingPcs, sockVars
    <3>3. CASE Admission(t)
      BY <3>3 DEF Admission, ReserveDirection, LoadExclusive, CountJob,
         RecheckExclusive, UncountJob, UnreserveDirection, FinishJob,
         ClearDirection, PublishDone
    <3>4. CASE Io(t)
      BY <3>4 DEF Io, StartSyncIo, StartAsyncIo, GetTlsRaw, CompleteIo, PartialIo,
         ReissueIo
    <3>5. CASE Exclusive(t)
      BY <3>5 DEF Exclusive, StartExclusive, AcquireExclusive, ReserveSlot,
         AbandonExclusive, ReleaseSlot, ReleaseExclusive
    <3>6. CASE Connecting(t) \/ Securing(t) \/ Closing(t)
      BY <3>6 DEF Connecting, Connect, Accept, StartAsyncConnect,
         CompleteAsyncConnect, Securing, InitSsl, EnableTls, Handshake, Closing,
         StartClose, ClearEnabled, DropStream, RawClose, Step
    <3>7. CASE Draining(t)
      BY <3>7 DEF Draining, StartSafeShutdown, BeginDraining, CancelRival,
         EndRetryWait, RetryDraining, CancelPending
    <3>8. CASE Drained(t)
      BY <3>8 DEF Drained, DrainDone, DrainTimeout, CheckTls, TlsShutdown,
         EndDraining, Step
    <3> QED
      BY <3>1, <3>3, <3>4, <3>5, <3>6, <3>7, <3>8 DEF TaskStep
  <2> QED
    BY <1>1, <2>1, <2>2
<1>2. IInv /\ [Next]_vars
        => [(\E t \in Tasks : pc[t] \in AdmittedPcs) => UNCHANGED sockVars]_vars
  BY <1>1
<1> QED
  BY <1>2, SocketInvariant, PTL DEF Spec, IoKeepsTransport

-----------------------------------------------------------------------------
(* Refinement: the socket implements SocketGate.                           *)

(* A step that moves no task in or out of the gate and leaves the          *)
(* transport alone is a stuttering step of SocketGate.                     *)
LEMMA GateStutters ==
  ASSUME \A u \in Tasks : Role(u)' = Role(u), open' = open, tlsStream' = tlsStream
  PROVE  UNCHANGED Gate!gateVars
BY DEF Gate!gateVars

(* A step of an owner that keeps its role may replace the transport.       *)
LEMMA GateReplaces ==
  ASSUME TypeOK, TypeOK', \A u \in Tasks : Role(u)' = Role(u),
         NEW t \in Tasks, pc[t] \in OwnerPcs
  PROVE  Gate!Replace(t)
BY DEF Gate!Replace, Gate!Transports, TypeOK, Role, AdmittedPcs, OwnerPcs, SlotPcs,
   DrainedPcs, ChangingPcs

(* A step that only takes one task out of the gate.                        *)
LEMMA GateLeaves ==
  ASSUME NEW t \in Tasks, Role(t) # "none", Role(t)' = "none",
         \A u \in Tasks : u # t => Role(u)' = Role(u),
         open' = open, tlsStream' = tlsStream
  PROVE  Gate!Leave(t)
BY DEF Gate!Leave

(* Each action maps to one action of SocketGate or to a stuttering step.   *)
LEMMA GateStep ==
  ASSUME IInv, TypeOK', NEW t \in Tasks, TaskStep(t)
  PROVE  Gate!GateNext \/ UNCHANGED Gate!gateVars
<1> USE DEF ReservedPcs, AdmittedPcs, ExclPcs, OwnerPcs, SlotPcs, DrainedPcs,
     ChangingPcs, sockVars, gate, local, Role
<1>1. TypeOK
  BY DEF IInv, GateInv
<1>2. CASE RecheckExclusive(t)
  <2>1. CASE excl
    <3>1. \A u \in Tasks : Role(u)' = Role(u)
      BY <1>1, <1>2, <2>1 DEF RecheckExclusive, Step, TypeOK
    <3> QED
      BY <1>2, <3>1, GateStutters DEF RecheckExclusive
  <2>2. CASE ~excl
    <3>1. \A u \in Tasks : pc[u] \notin ExclPcs
      BY <2>2 DEF IInv, GateInv, ExclusiveExact
    <3>2. \A u \in Tasks : u # t /\ pc[u] \in AdmittedPcs
                             => Direction(op[u]) # Direction(op[t])
      BY <1>2 DEF IInv, GateInv, DirectionExact, RecheckExclusive, Step, Direction,
         Directions
    <3>3. PICK d \in Directions : d = Direction(op[t])
      BY DEF Direction, Directions
    <3>4. \A u \in Tasks : Role(u) \notin {d, "owner"}
      BY <1>2, <3>1, <3>2, <3>3 DEF RecheckExclusive, Step, Direction
    <3>5. Role(t) = "none" /\ Role(t)' = d
      BY <1>1, <1>2, <2>2, <3>3 DEF RecheckExclusive, Step, TypeOK
    <3>6. \A u \in Tasks : u # t => Role(u)' = Role(u)
      BY <1>1, <1>2 DEF RecheckExclusive, Step, TypeOK
    <3>7. Gate!Admit(t, d)
      BY <1>2, <3>4, <3>5, <3>6 DEF RecheckExclusive, Gate!Admit
    <3>8. d \in Gate!Directions
      BY <3>3 DEF Gate!Directions, Directions
    <3> QED
      BY <3>7, <3>8 DEF Gate!GateNext
  <2> QED
    BY <2>1, <2>2
<1>3. CASE FinishJob(t)
  <2>1. Role(t) # "none" /\ Role(t)' = "none"
    BY <1>1, <1>3 DEF FinishJob, Step, TypeOK, Direction
  <2>2. \A u \in Tasks : u # t => Role(u)' = Role(u)
    BY <1>1, <1>3 DEF FinishJob, Step, TypeOK
  <2> QED
    BY <1>3, <2>1, <2>2, GateLeaves DEF FinishJob, Gate!GateNext
<1>4. CASE ReleaseSlot(t)
  <2>1. Role(t) # "none" /\ Role(t)' = "none"
    BY <1>1, <1>4 DEF ReleaseSlot, Step, TypeOK
  <2>2. \A u \in Tasks : u # t => Role(u)' = Role(u)
    BY <1>1, <1>4 DEF ReleaseSlot, Step, TypeOK
  <2> QED
    BY <1>4, <2>1, <2>2, GateLeaves DEF ReleaseSlot, Gate!GateNext
<1>5. CASE EndDraining(t)
  <2>1. CASE pc[t] = "end_draining"
    <3>1. Role(t) # "none" /\ Role(t)' = "none"
      BY <1>1, <1>5, <2>1 DEF EndDraining, Step, TypeOK
    <3>2. \A u \in Tasks : u # t => Role(u)' = Role(u)
      BY <1>1, <1>5 DEF EndDraining, Step, TypeOK
    <3> QED
      BY <1>5, <3>1, <3>2, GateLeaves DEF EndDraining, Gate!GateNext
  <2>2. CASE pc[t] = "give_up"
    <3>1. \A u \in Tasks : Role(u)' = Role(u)
      BY <1>1, <1>5, <2>2 DEF EndDraining, Step, TypeOK
    <3> QED
      BY <1>5, <3>1, GateStutters DEF EndDraining
  <2> QED
    BY <1>5, <2>1, <2>2 DEF EndDraining, Step
<1>6. CASE (ReserveSlot(t) /\ jobs = 0) \/ DrainDone(t)
  <2>1. \A u \in Tasks : pc[u] \notin AdmittedPcs
    BY <1>6, NoHolder DEF IInv, GateInv, Counted, DrainDone
  <2>2. pc[t] \in {"xjobs", "drain"}
    BY <1>6 DEF ReserveSlot, DrainDone, Step
  <2>3. \A u \in Tasks : pc[u] \notin OwnerPcs
    BY <2>2 DEF IInv, GateInv, ExclusiveExact
  <2>4. \A u \in Tasks : Role(u) = "none"
    BY <2>1, <2>3
  <2>5. Role(t)' = "owner" /\ \A u \in Tasks : u # t => Role(u)' = Role(u)
    BY <1>1, <1>6 DEF ReserveSlot, DrainDone, Step, TypeOK
  <2>6. Gate!Own(t)
    BY <1>6, <2>4, <2>5 DEF ReserveSlot, DrainDone, Gate!Own
  <2> QED
    BY <2>6 DEF Gate!GateNext
<1>7. CASE \/ ReserveDirection(t) \/ LoadExclusive(t) \/ CountJob(t)
           \/ UncountJob(t) \/ UnreserveDirection(t) \/ ClearDirection(t)
           \/ PublishDone(t)
  <2>1. (\A u \in Tasks : Role(u)' = Role(u)) /\ open' = open /\ tlsStream' = tlsStream
    BY <1>1, <1>7 DEF ReserveDirection, LoadExclusive, CountJob, UncountJob,
       UnreserveDirection, ClearDirection, PublishDone, Enter, Step, After, TypeOK
  <2> QED
    BY <2>1, GateStutters
<1>8. CASE Io(t)
  <2>1. (\A u \in Tasks : Role(u)' = Role(u)) /\ open' = open /\ tlsStream' = tlsStream
    BY <1>1, <1>8 DEF Io, StartSyncIo, StartAsyncIo, GetTlsRaw, CompleteIo,
       PartialIo, ReissueIo, Step, TypeOK
  <2> QED
    BY <2>1, GateStutters
<1>9. CASE \/ StartExclusive(t) \/ AcquireExclusive(t)
           \/ ReserveSlot(t) /\ jobs # 0
           \/ AbandonExclusive(t) \/ ReleaseExclusive(t)
  <2>1. (\A u \in Tasks : Role(u)' = Role(u)) /\ open' = open /\ tlsStream' = tlsStream
    BY <1>1, <1>9 DEF StartExclusive, AcquireExclusive, ReserveSlot,
       AbandonExclusive, ReleaseExclusive, Enter, Step, After, TypeOK
  <2> QED
    BY <2>1, GateStutters
<1>10. CASE Connecting(t) \/ Securing(t) \/ Closing(t) \/ CheckTls(t) \/ TlsShutdown(t)
  <2>1. pc[t] \in OwnerPcs
    BY <1>10 DEF Connecting, Connect, Accept, StartAsyncConnect,
       CompleteAsyncConnect, Securing, InitSsl, EnableTls, Handshake, Closing,
       StartClose, ClearEnabled, DropStream, RawClose, CheckTls, TlsShutdown, Step
  <2>2. pc'[t] \in OwnerPcs /\ \A u \in Tasks : u # t => pc'[u] = pc[u] /\ op'[u] = op[u]
    BY <1>1, <1>10 DEF Connecting, Connect, Accept, StartAsyncConnect,
       CompleteAsyncConnect, Securing, InitSsl, EnableTls, Handshake, Closing,
       StartClose, ClearEnabled, DropStream, RawClose, CheckTls, TlsShutdown, Step,
       TypeOK
  <2>3. \A u \in Tasks : Role(u)' = Role(u)
    BY <2>1, <2>2
  <2> QED
    BY <1>1, <2>1, <2>3, GateReplaces DEF Gate!GateNext
<1>11. CASE Draining(t) \/ DrainTimeout(t)
  <2>1. (\A u \in Tasks : Role(u)' = Role(u)) /\ open' = open /\ tlsStream' = tlsStream
    BY <1>1, <1>11 DEF Draining, StartSafeShutdown, BeginDraining, CancelRival,
       EndRetryWait, RetryDraining, CancelPending, DrainTimeout, Enter, Step, TypeOK
  <2> QED
    BY <2>1, GateStutters
<1> QED
  BY <1>2, <1>3, <1>4, <1>5, <1>6, <1>7, <1>8, <1>9, <1>10, <1>11
     DEF TaskStep, Admission, Exclusive, Drained

(* The admission protocol implements the abstract gate: one reader, one    *)
(* writer, or one owner that alone may replace the transport.              *)
THEOREM SocketRefinesGate == Spec => ImplementsGate
<1>1. Init => Gate!GateInit
  BY DEF Init, Gate!GateInit, Role, AdmittedPcs, OwnerPcs, SlotPcs, DrainedPcs,
     ChangingPcs
<1>2. IInv /\ IInv' /\ [Next]_vars => [Gate!GateNext]_(Gate!gateVars)
  <2> SUFFICES ASSUME IInv, IInv', [Next]_vars
               PROVE  [Gate!GateNext]_(Gate!gateVars)
    OBVIOUS
  <2>1. CASE Next
    <3>1. PICK t \in Tasks : TaskStep(t)
      BY <2>1 DEF Next
    <3> QED
      BY <3>1, GateStep DEF IInv, GateInv
  <2>2. CASE UNCHANGED vars
    BY <2>2 DEF vars, sockVars, Gate!gateVars, Role
  <2> QED
    BY <2>1, <2>2
<1> QED
  BY <1>1, <1>2, SocketInvariant, PTL DEF Spec, ImplementsGate, Gate!GateSpec
-----------------------------------------------------------------------------
(***************************************************************************)
(* The call that has won exclusive_operation and is safe_shutdown: its own *)
(* statements, with what it waits for (SafeShutdown).                      *)
(***************************************************************************)
(* The wait for the read ends before TLS is closed; nothing of the TLS     *)
(* close-notify exists before it is started, and when it is done the timer *)
(* changes nothing any more.                                               *)
Over == shut = "done" \/ (shut = "none" /\ timer = "none")

CloseInv ==
  /\ CallTypeOK
  /\ stmt # "returned" => result = "none"
  /\ stmt \in {"begin", "cancel", "drain", "tls_shutdown"} =>
       shut = "none" /\ timer = "none" /\ timedOut = FALSE
  /\ stmt \in {"tls_shutdown", "tls_wait", "raw_close"} => read = "none"
  /\ stmt = "tls_wait" => shut # "none"
  /\ stmt = "raw_close" => Over /\ tls = FALSE /\ (success = TRUE => timedOut = FALSE)
  /\ result = "true" =>
       /\ stmt = "returned" /\ Over
       /\ raw = FALSE /\ tls = FALSE /\ read = "none" /\ timedOut = FALSE

(* It holds when the call starts, ...                                      *)
LEMMA CloseStarts == CallInit => CloseInv
BY DEF CallInit, CloseInv, CallTypeOK, Over

(* ... the statements of the call keep it, ...                             *)
LEMMA CloseScript == ASSUME CloseInv, Script PROVE CloseInv'
<1> USE DEF CloseInv, CallTypeOK, Over, Goto, async, sock
<1>1. CASE RestartLoop
  BY <1>1 DEF RestartLoop
<1>2. CASE Cancel
  BY <1>2 DEF Cancel
<1>3. CASE DrainEnds
  BY <1>3 DEF DrainEnds, Jobs
<1>4. CASE DrainExpires
  BY <1>4 DEF DrainExpires
<1>5. CASE StartTlsShutdown
  BY <1>5 DEF StartTlsShutdown
<1>6. CASE EndTlsWait
  <2>1. /\ stmt = "tls_wait" /\ stmt' = "raw_close" /\ shut = "done" /\ tls' = FALSE
        /\ UNCHANGED <<host, result, stopped, read, shut, timer, timedOut, raw>>
    BY <1>6 DEF EndTlsWait
  <2>2. success' \in BOOLEAN /\ (success' = TRUE => timedOut = FALSE)
    <3>1. CASE timedOut = TRUE
      BY <1>6, <3>1 DEF EndTlsWait
    <3>2. CASE timedOut = FALSE
      BY <1>6, <3>2 DEF EndTlsWait
    <3> QED BY <3>1, <3>2
  <2> QED BY <2>1, <2>2
<1>7. CASE CloseRaw
  BY <1>7 DEF CloseRaw
<1> QED
  BY <1>1, <1>2, <1>3, <1>4, <1>5, <1>6, <1>7 DEF Script

(* ... and so do the kernel and the handlers, at any moment.               *)
LEMMA CloseLoop == ASSUME CloseInv, Kernel \/ Loop PROVE CloseInv'
<1> USE DEF CloseInv, CallTypeOK, Over, call, sock
<1>1. CASE Kernel
  BY <1>1 DEF Kernel, PeerSends, PeerClosesTls, TimerExpires
<1>2. CASE RunReadHandler
  BY <1>2 DEF RunReadHandler, WorkFinished
<1>3. CASE ReissueRead
  BY <1>3 DEF ReissueRead
<1>4. CASE RunShutdownHandler
  BY <1>4 DEF RunShutdownHandler, WorkFinished
<1>5. CASE RunTimerHandler
  <2>1. /\ timer' = "none" /\ stopped' \in BOOLEAN
        /\ UNCHANGED <<host, read, stmt, result, success, tls>>
    BY <1>5 DEF RunTimerHandler, WorkFinished
  <2>2. CASE UNCHANGED <<shut, timedOut, raw>>
    BY <2>1, <2>2
  <2>3. CASE /\ timer # "none" /\ shut # "done"
             /\ timedOut' = TRUE /\ raw' = FALSE /\ shut' = "queued"
    <3>1. stmt \notin {"begin", "cancel", "drain", "tls_shutdown", "raw_close"} /\ result # "true"
      BY <2>3
    <3> QED BY <2>1, <2>3, <3>1
  <2> QED BY <1>5, <2>2, <2>3 DEF RunTimerHandler
<1> QED
  BY <1>1, <1>2, <1>3, <1>4, <1>5 DEF Loop

LEMMA CloseStep == ASSUME CloseInv, [CallNext]_(callVars) PROVE CloseInv'
<1>1. CASE Script
  BY <1>1, CloseScript
<1>2. CASE Kernel \/ Loop
  BY <1>2, CloseLoop
<1>3. CASE UNCHANGED callVars
  BY <1>3 DEF callVars, call, async, sock, CloseInv, CallTypeOK, Over
<1> QED
  BY <1>1, <1>2, <1>3 DEF CallNext, PollAndYield, Finished

LEMMA CloseInvariant == CallSpec => []CloseInv
<1>1. CloseInv /\ [CallNext]_(callVars) => CloseInv'
  BY CloseStep
<1> QED
  BY <1>1, CloseStarts, PTL DEF CallSpec

(* When safe_shutdown returns true (network.cpp:1250-1381) the descriptor  *)
(* is closed, TLS is gone, no read is pending and the close-notify was not *)
(* cut short by its timer, whatever keeps and drives the loop and however  *)
(* the handlers of the read, of the close-notify and of the timer          *)
(* interleave with the call.                                               *)
THEOREM ShutdownTrueMeansClosed == CallSpec => []TrueMeansClosed
<1>1. CloseInv => TrueMeansClosed
  BY DEF CloseInv, TrueMeansClosed
<1> QED
  BY <1>1, CloseInvariant, PTL

(* safe_shutdown destroys the TLS stream (reset_ssl, network.cpp:1358) in  *)
(* no step in which the read or async_shutdown may still use it.           *)
THEOREM ShutdownStreamQuiescent == CallSpec => StreamQuiescent
<1>1. CloseInv /\ [CallNext]_(callVars) =>
        [tls /\ ~tls' => read = "none" /\ shut = "done"]_(callVars)
  <2> SUFFICES ASSUME CloseInv, CallNext, tls, ~tls'
               PROVE  read = "none" /\ shut = "done"
    OBVIOUS
  <2>1. EndTlsWait
    BY DEF CallNext, Script, Kernel, Loop, PollAndYield, Finished,
       RestartLoop, Cancel, DrainEnds, DrainExpires,
       StartTlsShutdown, CloseRaw, PeerSends, PeerClosesTls,
       TimerExpires, RunReadHandler, ReissueRead, RunShutdownHandler,
       RunTimerHandler, sock, callVars
  <2> QED
    BY <2>1 DEF CloseInv, EndTlsWait, Goto
<1> QED
  BY <1>1, CloseInvariant, PTL DEF CallSpec, StreamQuiescent
=============================================================================

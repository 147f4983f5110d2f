---- MODULE TransformerProofs ----
(***************************************************************************)
(* The safety of Transformer for every value of its constants.  IInv is    *)
(* inductive; the lemmas take its conjuncts one at a time, with one step   *)
(* per action, and the theorems at the end combine them.                   *)
(*                                                                         *)
(* The argument has two halves.  State: a task fences before it restores,  *)
(* so whoever still owns the transactional ID folds onto the changelog     *)
(* (LocalCurrent), and what its transaction holds is one batch folded onto *)
(* that (TransactionHolds).  Coverage: records are fetched from a covered  *)
(* position only (PositionCovered), by an instance that has a task for     *)
(* them (ResumedHasTask), so a commit never leaves a gap (FetchCovered).   *)
(***************************************************************************)
EXTENDS Transformer, SequenceTheorems, TLAPS

\* What folding records from+1 .. to onto seen emits: one message per record, in
\* order, each naming its record and the state it was folded onto.
LEMMA EmitType ==
    ASSUME NEW from \in Nat, NEW to \in Nat, NEW seen \in Nat, from < to
    PROVE  /\ Emit(from, to, seen) \in Seq(Message)
           /\ Len(Emit(from, to, seen)) = to - from
           /\ \A k \in 1..(to - from) : /\ Emit(from, to, seen)[k].record = from + k
                                        /\ Emit(from, to, seen)[k].seen = seen + k - 1
<1> DEFINE message(k) == [record |-> from + k, seen |-> seen + k - 1]
<1>1. to - from \in Nat
  OBVIOUS
<1>2. ASSUME NEW k \in 1..(to - from)
      PROVE  /\ message(k) \in Message
             /\ message(k).record = from + k
             /\ message(k).seen = seen + k - 1
  BY DEF Message
<1>3. Emit(from, to, seen) = [k \in 1..(to - from) |-> message(k)]
  BY DEF Emit
<1> HIDE DEF message
<1>4. \A k \in 1..(to - from) : Emit(from, to, seen)[k] = message(k)
  BY <1>3
<1>5. /\ Emit(from, to, seen) \in Seq(Message)
      /\ Len(Emit(from, to, seen)) = to - from
  BY <1>1, <1>2, <1>3
<1> QED BY <1>2, <1>4, <1>5

\* No transaction at all has the type of a transaction.
LEMMA NoTxnType == NoTxn \in Txn
<1>1. <<>> \in Seq(Message)
  OBVIOUS
<1>2. 0 \in Offset
  BY RecordsAssumption DEF Offset
<1>. QED BY <1>1, <1>2 DEF NoTxn, Txn

\* No records at all have the type of a slice.
LEMMA NoSliceType == NoSlice \in Slice
<1>1. 0 \in Offset
  BY RecordsAssumption DEF Offset
<1>. QED BY <1>1 DEF NoSlice, Slice

\* The ends of a slice are offsets, and offsets are naturals.
LEMMA SliceFields ==
    ASSUME NEW r \in Slice
    PROVE  /\ r.from \in Offset /\ r.from \in Nat
           /\ r.to \in Offset /\ r.to \in Nat
<1>1. r.from \in Offset /\ r.to \in Offset
  BY DEF Slice
<1>2. \A n \in Offset : n \in Nat
  BY RecordsAssumption DEF Offset
<1>. QED BY <1>1, <1>2

\* The fields of a transaction have their types, and a transaction whose offset
\* is replaced is still one.
LEMMA TxnFields ==
    ASSUME NEW t \in Txn
    PROVE  /\ t.out \in Seq(Message) /\ t.state \in Nat /\ t.offset \in Offset
           /\ \A n \in Offset : [t EXCEPT !.offset = n] \in Txn
  BY DEF Txn

\* The fault counter stays within its bound.
LEMMA FaultType ==
    ASSUME LoopTypeOK, Fault
    PROVE  faults' \in 0..MaxFaults
  BY TransformerAssumption DEF LoopTypeOK, Fault

\* Every step of the transformer keeps the types (StepInPlace says that a batch
\* being written is not empty, which its outputs' type needs).
LEMMA TypeStep ==
    ASSUME TypeOK, StepInPlace, Next
    PROVE  TypeOK'
<1> USE DEF TypeOK, TxnTypeOK, GroupTypeOK, LoopTypeOK, TaskTypeOK, BatchTypeOK, ClientTypeOK,
        txnVars, logVars, groupVars, loopVars, taskVars, batchVars, clientVars
<1>1. ASSUME NEW i \in Instance, OnRevoked(i) PROVE TypeOK'
  BY <1>1 DEF OnRevoked, CloseTasks, Unassign, JoinGroup, Everywhere, Tasks, Status,
     Step, ListenerPhase
<1>2. ASSUME NEW i \in Instance, OnRevokedFails(i) PROVE TypeOK'
  BY <1>2, FaultType DEF OnRevokedFails, CloseTasks, Unassign, JoinGroup, Everywhere,
     Tasks, Status, Step, ListenerPhase
<1>3. ASSUME NEW i \in Instance, OnAssigned(i) PROVE TypeOK'
  BY <1>3 DEF OnAssigned, TakeAssignment, OwnedBy, Everywhere, ListenerPhase
<1>4. ASSUME NEW i \in Instance, NEW p \in Partition, LookUpPosition(i, p) PROVE TypeOK'
  BY <1>4 DEF LookUpPosition
<1>5. ASSUME NEW i \in Instance, StartPendingTasks(i) PROVE TypeOK'
  BY <1>5 DEF StartPendingTasks, Location, Status
<1>6. ASSUME NEW i \in Instance, NEW p \in Partition, FenceTask(i, p) PROVE TypeOK'
  BY <1>6, NoTxnType DEF FenceTask, InitProducerId, Status
<1>7. ASSUME NEW i \in Instance, NEW p \in Partition, RestoreTask(i, p) PROVE TypeOK'
  BY <1>7 DEF RestoreTask, Status
<1>8. ASSUME NEW i \in Instance, NEW p \in Partition, RunTask(i, p) PROVE TypeOK'
  BY <1>8 DEF RunTask, Status, Location
<1>9. ASSUME NEW i \in Instance, NEW p \in Partition, StartTaskFails(i, p) PROVE TypeOK'
  BY <1>9, FaultType DEF StartTaskFails, Status, Location
<1>10. ASSUME NEW i \in Instance, CallGetmany(i) PROVE TypeOK'
  BY <1>10 DEF CallGetmany, Location
<1>11. ASSUME NEW i \in Instance, GetmanyTimesOut(i) PROVE TypeOK'
  BY <1>11 DEF GetmanyTimesOut, NextTop, Location
<1>12. ASSUME NEW i \in Instance, GetmanyReturns(i) PROVE TypeOK'
  <2>1. PICK got \in [Fetchable(i) -> 0..MaxBatch] :
          /\ \A p \in Fetchable(i) : position[i][p] + got[p] <= NumRecords
          /\ fetched' = [fetched EXCEPT ![i] = [p \in Partition |->
                 IF p \in Fetchable(i)
                 THEN [from |-> position[i][p], to |-> position[i][p] + got[p]]
                 ELSE NoSlice]]
          /\ position' = [position EXCEPT ![i] = [p \in Partition |->
                 IF p \in Fetchable(i) THEN @[p] + got[p] ELSE @[p]]]
    BY <1>12 DEF GetmanyReturns
  <2>2. \A p \in Fetchable(i) : /\ p \in Partition
                                /\ position[i][p] \in Offset
                                /\ position[i][p] + got[p] \in Offset
    <3> SUFFICES ASSUME NEW p \in Fetchable(i)
                 PROVE  p \in Partition /\ position[i][p] \in Offset /\ position[i][p] + got[p] \in Offset
      OBVIOUS
    <3>1. p \in Partition /\ position[i][p] \in Offset
      BY DEF Fetchable
    <3>2. got[p] \in Nat /\ position[i][p] + got[p] <= NumRecords
      BY <2>1, TransformerAssumption
    <3> QED BY <3>1, <3>2, RecordsAssumption DEF Offset
  <2>3. BatchTypeOK'
    <3>1. \A p \in Fetchable(i) :
             [from |-> position[i][p], to |-> position[i][p] + got[p]] \in Slice
      BY <2>2 DEF Slice
    <3> QED BY <1>12, <2>1, <3>1, NoSliceType DEF GetmanyReturns
  <2>4. ClientTypeOK'
    BY <1>12, <2>1, <2>2 DEF GetmanyReturns
  <2> QED BY <1>12, <2>3, <2>4 DEF GetmanyReturns, Location
<1>13. ASSUME NEW i \in Instance, BeginBatch(i) PROVE TypeOK'
  <2>1. LoopTypeOK'
    BY <1>13 DEF BeginBatch, NextTop, Location
  <2>2. BatchTypeOK'
    BY <1>13, NoSliceType DEF BeginBatch, Step
  <2> QED BY <1>13, <2>1, <2>2 DEF BeginBatch
<1>14. ASSUME NEW i \in Instance, TransformFails(i) PROVE TypeOK'
  BY <1>14, FaultType DEF TransformFails, Everywhere, Location, Step
<1>15. ASSUME NEW i \in Instance, NEW p \in Partition, WriteBatch(i, p) PROVE TypeOK'
  <2> DEFINE r == fetched[i][p]
  <2>1. r.from \in Nat /\ r.to \in Nat /\ r.from < r.to /\ local[i][p] \in Nat
    BY <1>15, SliceFields DEF WriteBatch, StepInPlace, InPlace, NonEmpty
  <2>2. Emit(r.from, r.to, local[i][p]) \in Seq(Message) /\ Folded(i, p) \in Nat
    <3>1. Emit(r.from, r.to, local[i][p]) \in Seq(Message)
      BY <2>1, EmitType
    <3>2. local[i][p] + (r.to - r.from) \in Nat
      BY <2>1
    <3> QED BY <3>1, <3>2 DEF Folded
  <2>3. 0 \in Offset
    BY RecordsAssumption DEF Offset
  <2>4. TxnTypeOK'
    BY <1>15, <2>2, <2>3 DEF WriteBatch, ProduceInTxn, Txn
  <2> QED BY <1>15, <2>2, <2>4 DEF WriteBatch, Step
<1>16. ASSUME NEW i \in Instance, NEW p \in Partition, SendOffsets(i, p) PROVE TypeOK'
  <2>1. fetched[i][p].to \in Offset
    BY SliceFields
  <2>2. [txn[p] EXCEPT !.offset = fetched[i][p].to] \in Txn
    BY <2>1, TxnFields
  <2>3. TxnTypeOK'
    BY <1>16, <2>2 DEF SendOffsets, AddOffset
  <2> QED BY <1>16, <2>3 DEF SendOffsets, AddOffset, Step
<1>17. ASSUME NEW i \in Instance, NEW p \in Partition, CommitBatch(i, p) PROVE TypeOK'
  <2>1. TxnTypeOK'
    <3>1. /\ output[p] \o txn[p].out \in Seq(Message)
          /\ txn[p].state \in Nat /\ txn[p].offset \in Offset
      BY TxnFields
    <3> QED BY <1>17, <3>1, NoTxnType DEF CommitBatch, CommitTxn
  <2>2. LoopTypeOK'
    BY <1>17 DEF CommitBatch, NextTop, Location
  <2> QED BY <1>17, <2>1, <2>2, NoSliceType DEF CommitBatch, Step
<1>18. ASSUME NEW i \in Instance, NEW p \in Partition, BatchFenced(i, p) PROVE TypeOK'
  BY <1>18 DEF BatchFenced, Location, Step
<1>19. ASSUME NEW i \in Instance, NEW p \in Partition, BatchFails(i, p) PROVE TypeOK'
  BY <1>19, NoTxnType, FaultType DEF BatchFails, AbortTxn, Location, Step
<1>20. ASSUME NEW i \in Instance, Exit(i) PROVE TypeOK'
  BY <1>20, NoSliceType DEF Exit, ProcessGone, Everywhere, Unassign, Disconnect,
     Location, Status, Step, ListenerPhase
<1>21. ASSUME NEW i \in Instance, Crash(i) PROVE TypeOK'
  BY <1>21, NoSliceType, FaultType DEF Crash, ProcessGone, Everywhere, Unassign,
     Disconnect, Location, Status, Step, ListenerPhase
<1>22. ASSUME NEW i \in Instance, Restart(i) PROVE TypeOK'
  BY <1>22 DEF Restart, Subscribe, Location, ListenerPhase
<1>23. ASSUME NEW i \in Instance, EnterStage(i) PROVE TypeOK'
  BY <1>23 DEF EnterStage, NextTop, Location
<1>24. ASSUME NEW i \in Instance, GroupStep(i) PROVE TypeOK'
  <2>1. GroupTypeOK'
    <3>1. CASE NoticeRebalance(i)
      BY <3>1 DEF NoticeRebalance, ListenerPhase
    <3>2. CASE SessionExpires(i)
      BY <3>2 DEF SessionExpires, RemoveMember
    <3>3. CASE Evict(i)
      BY <3>3, GroupAssumption DEF Evict, RemoveMember
    <3> QED BY <1>24, <3>1, <3>2, <3>3 DEF GroupStep
  <2> QED BY <1>24, <2>1 DEF GroupStep
<1>25. ASSUME NEW p \in Partition, TransactionTimesOut(p) PROVE TypeOK'
  BY <1>25, NoTxnType, FaultType DEF TransactionTimesOut, TxnTimeout
<1>26. ASSUME RebalanceCompletes PROVE TypeOK'
  BY <1>26 DEF RebalanceCompletes, CompleteRebalance
<1>27. ASSUME NEW i \in Instance, OnAssignedFails(i) PROVE TypeOK'
  BY <1>27, FaultType DEF OnAssignedFails, TakeAssignment, OwnedBy, Everywhere, ListenerPhase
<1>q. QED
  BY <1>1, <1>2, <1>3, <1>4, <1>5, <1>6, <1>7, <1>8, <1>9, <1>10, <1>11, <1>12, <1>13,
     <1>14, <1>15, <1>16, <1>17, <1>18, <1>19, <1>20, <1>21, <1>22, <1>23, <1>24, <1>25,
     <1>26, <1>27
     DEF Next, ListenerStep, LoopStep, TaskStart, BatchStep, Lifecycle

\* A task is between process_batch's begin and its commit only while the loop is
\* in (or unwinding from) process_batch, the task is in runner.tasks and it has
\* records: no step takes any of that away under a running send_transactional.
LEMMA StepInPlaceStep ==
    ASSUME TypeOK, StepInPlace, Next
    PROVE  StepInPlace'
<1> USE DEF TypeOK, LoopTypeOK, TaskTypeOK, BatchTypeOK, StepInPlace, InPlace, NonEmpty
<1> SUFFICES ASSUME NEW j \in Instance, NEW q \in Partition, step'[j][q] # "none"
             PROVE  InPlace(j, q)'
  OBVIOUS
<1>1. ASSUME NEW i \in Instance, OnRevoked(i) PROVE InPlace(j, q)'
  BY <1>1 DEF OnRevoked, CloseTasks, Tasks, Unassign, JoinGroup, Everywhere, txnVars,
     logVars, loopVars
<1>2. ASSUME NEW i \in Instance, OnRevokedFails(i) PROVE InPlace(j, q)'
  BY <1>2 DEF OnRevokedFails, CloseTasks, Tasks, Unassign, JoinGroup, Everywhere, txnVars, logVars
<1>3. ASSUME NEW i \in Instance, OnAssigned(i) PROVE InPlace(j, q)'
  BY <1>3 DEF OnAssigned, TakeAssignment, OwnedBy, Everywhere, txnVars, logVars, taskVars, batchVars
<1>4. ASSUME NEW i \in Instance, NEW p \in Partition, LookUpPosition(i, p) PROVE InPlace(j, q)'
  BY <1>4 DEF LookUpPosition, txnVars, logVars, loopVars, taskVars, batchVars
<1>5. ASSUME NEW i \in Instance, StartPendingTasks(i) PROVE InPlace(j, q)'
  BY <1>5 DEF StartPendingTasks, txnVars, logVars, batchVars, clientVars
<1>6. ASSUME NEW i \in Instance, NEW p \in Partition, FenceTask(i, p) PROVE InPlace(j, q)'
  BY <1>6 DEF FenceTask, InitProducerId, logVars, loopVars, batchVars, clientVars
<1>7. ASSUME NEW i \in Instance, NEW p \in Partition, RestoreTask(i, p) PROVE InPlace(j, q)'
  BY <1>7 DEF RestoreTask, txnVars, logVars, loopVars, batchVars, clientVars
<1>8. ASSUME NEW i \in Instance, NEW p \in Partition, RunTask(i, p) PROVE InPlace(j, q)'
  BY <1>8 DEF RunTask, txnVars, logVars, batchVars
<1>9. ASSUME NEW i \in Instance, NEW p \in Partition, StartTaskFails(i, p) PROVE InPlace(j, q)'
  BY <1>9 DEF StartTaskFails, Starting, txnVars, logVars, batchVars, clientVars
<1>10. ASSUME NEW i \in Instance, CallGetmany(i) PROVE InPlace(j, q)'
  BY <1>10 DEF CallGetmany, txnVars, logVars, taskVars, batchVars, clientVars
<1>11. ASSUME NEW i \in Instance, GetmanyTimesOut(i) PROVE InPlace(j, q)'
  BY <1>11 DEF GetmanyTimesOut, NextTop, txnVars, logVars, taskVars, batchVars, clientVars
<1>12. ASSUME NEW i \in Instance, GetmanyReturns(i) PROVE InPlace(j, q)'
  BY <1>12 DEF GetmanyReturns, txnVars, logVars, taskVars
<1>13. ASSUME NEW i \in Instance, BeginBatch(i) PROVE InPlace(j, q)'
  BY <1>13 DEF BeginBatch, Tasks, NextTop, txnVars, logVars, taskVars, clientVars
<1>14. ASSUME NEW i \in Instance, TransformFails(i) PROVE InPlace(j, q)'
  BY <1>14 DEF TransformFails, Everywhere, txnVars, logVars, taskVars, clientVars
<1>15. ASSUME NEW i \in Instance, NEW p \in Partition, WriteBatch(i, p) PROVE InPlace(j, q)'
  BY <1>15 DEF WriteBatch, ProduceInTxn, logVars, loopVars, clientVars
<1>16. ASSUME NEW i \in Instance, NEW p \in Partition, SendOffsets(i, p) PROVE InPlace(j, q)'
  BY <1>16 DEF SendOffsets, AddOffset, logVars, loopVars, taskVars, clientVars
<1>17. ASSUME NEW i \in Instance, NEW p \in Partition, CommitBatch(i, p) PROVE InPlace(j, q)'
  BY <1>17 DEF CommitBatch, CommitTxn, NextTop, taskVars, clientVars
<1>18. ASSUME NEW i \in Instance, NEW p \in Partition, BatchFenced(i, p) PROVE InPlace(j, q)'
  BY <1>18 DEF BatchFenced, txnVars, logVars, taskVars, clientVars
<1>19. ASSUME NEW i \in Instance, NEW p \in Partition, BatchFails(i, p) PROVE InPlace(j, q)'
  BY <1>19 DEF BatchFails, AbortTxn, logVars, taskVars, clientVars
<1>20. ASSUME NEW i \in Instance, Exit(i) PROVE InPlace(j, q)'
  BY <1>20 DEF Exit, ProcessGone, Everywhere, Unassign, txnVars, logVars
<1>21. ASSUME NEW i \in Instance, Crash(i) PROVE InPlace(j, q)'
  BY <1>21 DEF Crash, ProcessGone, Everywhere, Unassign, txnVars, logVars
<1>22. ASSUME NEW i \in Instance, Restart(i) PROVE InPlace(j, q)'
  BY <1>22 DEF Restart, txnVars, logVars, taskVars, batchVars, clientVars
<1>23. ASSUME NEW i \in Instance, EnterStage(i) PROVE InPlace(j, q)'
  BY <1>23 DEF EnterStage, NextTop, txnVars, logVars, taskVars, batchVars, clientVars
<1>24. ASSUME NEW i \in Instance, GroupStep(i) PROVE InPlace(j, q)'
  BY <1>24 DEF GroupStep, txnVars, logVars, loopVars, taskVars, batchVars, clientVars
<1>25. ASSUME NEW p \in Partition, TransactionTimesOut(p) PROVE InPlace(j, q)'
  BY <1>25 DEF TransactionTimesOut, TxnTimeout, logVars, loopVars, taskVars, batchVars, clientVars
<1>26. ASSUME RebalanceCompletes PROVE InPlace(j, q)'
  BY <1>26 DEF RebalanceCompletes, txnVars, logVars, loopVars, taskVars, batchVars, clientVars
<1>27. ASSUME NEW i \in Instance, OnAssignedFails(i) PROVE InPlace(j, q)'
  BY <1>27 DEF OnAssignedFails, TakeAssignment, OwnedBy, Everywhere, txnVars, logVars,
     taskVars, batchVars
<1> QED
  BY <1>1, <1>2, <1>3, <1>4, <1>5, <1>6, <1>7, <1>8, <1>9, <1>10, <1>11, <1>12, <1>13,
     <1>14, <1>15, <1>16, <1>17, <1>18, <1>19, <1>20, <1>21, <1>22, <1>23, <1>24, <1>25, <1>26,
     <1>27
     DEF Next, ListenerStep, LoopStep, TaskStart, BatchStep, Lifecycle

\* The local store of a task that is not fenced and may still fold records is the
\* changelog's state: start_task fences before it restores, a store written ahead
\* of its commit is not folded onto again unless the commit succeeds.
LEMMA LocalCurrentStep ==
    ASSUME TypeOK, StepInPlace, LocalCurrent, TransactionHolds, Next
    PROVE  LocalCurrent'
<1> USE DEF TypeOK, TxnTypeOK, LoopTypeOK, TaskTypeOK, BatchTypeOK, StepInPlace, InPlace,
        LocalCurrent, MayFold
<1> SUFFICES ASSUME NEW j \in Instance, NEW q \in Partition, MayFold(j, q)'
             PROVE  (local[j][q] = changelog[q])'
  OBVIOUS
<1>1. ASSUME NEW i \in Instance, OnRevoked(i) PROVE (local[j][q] = changelog[q])'
  BY <1>1 DEF OnRevoked, CloseTasks, Tasks, Unassign, JoinGroup, Everywhere, txnVars,
     logVars, loopVars
<1>2. ASSUME NEW i \in Instance, OnRevokedFails(i) PROVE (local[j][q] = changelog[q])'
  BY <1>2 DEF OnRevokedFails, CloseTasks, Tasks, Unassign, JoinGroup, Everywhere, txnVars, logVars
<1>3. ASSUME NEW i \in Instance, OnAssigned(i) PROVE (local[j][q] = changelog[q])'
  BY <1>3 DEF OnAssigned, TakeAssignment, OwnedBy, Everywhere, txnVars, logVars, taskVars, batchVars
<1>4. ASSUME NEW i \in Instance, NEW p \in Partition, LookUpPosition(i,
   p) PROVE (local[j][q] = changelog[q])'
  BY <1>4 DEF LookUpPosition, txnVars, logVars, loopVars, taskVars, batchVars
<1>5. ASSUME NEW i \in Instance, StartPendingTasks(i) PROVE (local[j][q] = changelog[q])'
  BY <1>5 DEF StartPendingTasks, txnVars, logVars, batchVars, clientVars
<1>6. ASSUME NEW i \in Instance, NEW p \in Partition, FenceTask(i,
   p) PROVE (local[j][q] = changelog[q])'
  BY <1>6 DEF FenceTask, InitProducerId, logVars, loopVars, batchVars, clientVars
<1>7. ASSUME NEW i \in Instance, NEW p \in Partition, RestoreTask(i,
   p) PROVE (local[j][q] = changelog[q])'
  BY <1>7 DEF RestoreTask, txnVars, logVars, loopVars, batchVars, clientVars
<1>8. ASSUME NEW i \in Instance, NEW p \in Partition, RunTask(i,
   p) PROVE (local[j][q] = changelog[q])'
  BY <1>8 DEF RunTask, txnVars, logVars, batchVars
<1>9. ASSUME NEW i \in Instance, NEW p \in Partition, StartTaskFails(i,
   p) PROVE (local[j][q] = changelog[q])'
  BY <1>9 DEF StartTaskFails, Starting, txnVars, logVars, batchVars, clientVars
<1>10. ASSUME NEW i \in Instance, CallGetmany(i) PROVE (local[j][q] = changelog[q])'
  BY <1>10 DEF CallGetmany, txnVars, logVars, taskVars, batchVars, clientVars
<1>11. ASSUME NEW i \in Instance, GetmanyTimesOut(i) PROVE (local[j][q] = changelog[q])'
  BY <1>11 DEF GetmanyTimesOut, NextTop, txnVars, logVars, taskVars, batchVars, clientVars
<1>12. ASSUME NEW i \in Instance, GetmanyReturns(i) PROVE (local[j][q] = changelog[q])'
  BY <1>12 DEF GetmanyReturns, txnVars, logVars, taskVars
<1>13. ASSUME NEW i \in Instance, BeginBatch(i) PROVE (local[j][q] = changelog[q])'
  BY <1>13 DEF BeginBatch, Tasks, NextTop, txnVars, logVars, taskVars, clientVars
<1>14. ASSUME NEW i \in Instance, TransformFails(i) PROVE (local[j][q] = changelog[q])'
  BY <1>14 DEF TransformFails, Everywhere, txnVars, logVars, taskVars, clientVars
<1>15. ASSUME NEW i \in Instance, NEW p \in Partition, WriteBatch(i,
   p) PROVE (local[j][q] = changelog[q])'
  BY <1>15 DEF WriteBatch, ProduceInTxn, logVars, loopVars, clientVars
<1>16. ASSUME NEW i \in Instance, NEW p \in Partition, SendOffsets(i,
   p) PROVE (local[j][q] = changelog[q])'
  BY <1>16 DEF SendOffsets, AddOffset, logVars, loopVars, taskVars, clientVars
<1>17. ASSUME NEW i \in Instance, NEW p \in Partition, CommitBatch(i,
   p) PROVE (local[j][q] = changelog[q])'
  BY <1>17 DEF CommitBatch, CommitTxn, NextTop, taskVars, clientVars, TransactionHolds, TxnMatches
<1>18. ASSUME NEW i \in Instance, NEW p \in Partition, BatchFenced(i,
   p) PROVE (local[j][q] = changelog[q])'
  BY <1>18 DEF BatchFenced, txnVars, logVars, taskVars, clientVars
<1>19. ASSUME NEW i \in Instance, NEW p \in Partition, BatchFails(i,
   p) PROVE (local[j][q] = changelog[q])'
  BY <1>19 DEF BatchFails, AbortTxn, logVars, taskVars, clientVars
<1>20. ASSUME NEW i \in Instance, Exit(i) PROVE (local[j][q] = changelog[q])'
  BY <1>20 DEF Exit, ProcessGone, Everywhere, Unassign, txnVars, logVars
<1>21. ASSUME NEW i \in Instance, Crash(i) PROVE (local[j][q] = changelog[q])'
  BY <1>21 DEF Crash, ProcessGone, Everywhere, Unassign, txnVars, logVars
<1>22. ASSUME NEW i \in Instance, Restart(i) PROVE (local[j][q] = changelog[q])'
  BY <1>22 DEF Restart, txnVars, logVars, taskVars, batchVars, clientVars
<1>23. ASSUME NEW i \in Instance, EnterStage(i) PROVE (local[j][q] = changelog[q])'
  BY <1>23 DEF EnterStage, NextTop, txnVars, logVars, taskVars, batchVars, clientVars
<1>24. ASSUME NEW i \in Instance, GroupStep(i) PROVE (local[j][q] = changelog[q])'
  BY <1>24 DEF GroupStep, txnVars, logVars, loopVars, taskVars, batchVars, clientVars
<1>25. ASSUME NEW p \in Partition, TransactionTimesOut(p) PROVE (local[j][q] = changelog[q])'
  BY <1>25, RunnersAssumption DEF TransactionTimesOut, TxnTimeout, logVars, loopVars,
     taskVars, batchVars, clientVars
<1>26. ASSUME RebalanceCompletes PROVE (local[j][q] = changelog[q])'
  BY <1>26 DEF RebalanceCompletes, txnVars, logVars, loopVars, taskVars, batchVars, clientVars
<1>27. ASSUME NEW i \in Instance, OnAssignedFails(i) PROVE (local[j][q] = changelog[q])'
  BY <1>27 DEF OnAssignedFails, TakeAssignment, OwnedBy, Everywhere, txnVars, logVars,
     taskVars, batchVars
<1> QED
  BY <1>1, <1>2, <1>3, <1>4, <1>5, <1>6, <1>7, <1>8, <1>9, <1>10, <1>11, <1>12, <1>13,
     <1>14, <1>15, <1>16, <1>17, <1>18, <1>19, <1>20, <1>21, <1>22, <1>23, <1>24, <1>25, <1>26,
     <1>27
     DEF Next, ListenerStep, LoopStep, TaskStart, BatchStep, Lifecycle

\* The transaction under a task's transactional ID is the one of the batch it has
\* in hand, folded onto the committed state, as long as the task is not fenced.
LEMMA TransactionHoldsStep ==
    ASSUME TypeOK, StepInPlace, LocalCurrent, TransactionHolds, Next
    PROVE  TransactionHolds'
<1> USE DEF TypeOK, TxnTypeOK, LoopTypeOK, TaskTypeOK, BatchTypeOK, StepInPlace, InPlace,
        TransactionHolds
<1> SUFFICES ASSUME NEW j \in Instance, NEW q \in Partition,
                    holder'[q] = j, step'[j][q] \in {"written", "offsets"}
             PROVE  TxnMatches(j, q)'
  OBVIOUS
<1> DEFINE Same == /\ holder'[q] = holder[q]
                   /\ txn'[q] = txn[q]
                   /\ changelog'[q] = changelog[q]
                   /\ step'[j][q] = step[j][q]
                   /\ fetched'[j][q] = fetched[j][q]
                   /\ local'[j][q] = local[j][q]
<1>0. ASSUME Same PROVE TxnMatches(j, q)'
  BY <1>0 DEF TxnMatches
<1>1. ASSUME NEW i \in Instance, OnRevoked(i) PROVE TxnMatches(j, q)'
  BY <1>1 DEF OnRevoked, CloseTasks, Tasks, Unassign, JoinGroup, Everywhere, txnVars,
     logVars, loopVars, TxnMatches
<1>2. ASSUME NEW i \in Instance, OnRevokedFails(i) PROVE TxnMatches(j, q)'
  BY <1>2 DEF OnRevokedFails, CloseTasks, Tasks, Unassign, JoinGroup, Everywhere,
     txnVars, logVars, TxnMatches
<1>3. ASSUME NEW i \in Instance, OnAssigned(i) PROVE TxnMatches(j, q)'
  BY <1>3 DEF OnAssigned, TakeAssignment, OwnedBy, Everywhere, txnVars, logVars,
     taskVars, batchVars, TxnMatches
<1>4. ASSUME NEW i \in Instance, NEW p \in Partition, LookUpPosition(i, p) PROVE TxnMatches(j, q)'
  BY <1>4 DEF LookUpPosition, txnVars, logVars, loopVars, taskVars, batchVars, TxnMatches
<1>5. ASSUME NEW i \in Instance, StartPendingTasks(i) PROVE TxnMatches(j, q)'
  BY <1>5 DEF StartPendingTasks, txnVars, logVars, batchVars, clientVars, TxnMatches
<1>6. ASSUME NEW i \in Instance, NEW p \in Partition, FenceTask(i, p) PROVE TxnMatches(j, q)'
  <2>1. p # q \/ i # j
    BY <1>6 DEF FenceTask, batchVars
  <2>2. p # q
    BY <1>6, <2>1 DEF FenceTask, InitProducerId
  <2> QED BY <1>6, <2>2, <1>0 DEF FenceTask, InitProducerId, logVars, loopVars, batchVars
<1>7. ASSUME NEW i \in Instance, NEW p \in Partition, RestoreTask(i, p) PROVE TxnMatches(j, q)'
  <2>1. p # q \/ i # j
    BY <1>7 DEF RestoreTask, batchVars
  <2> QED BY <1>7, <2>1, <1>0 DEF RestoreTask, txnVars, logVars, loopVars, batchVars
<1>8. ASSUME NEW i \in Instance, NEW p \in Partition, RunTask(i, p) PROVE TxnMatches(j, q)'
  BY <1>8 DEF RunTask, txnVars, logVars, batchVars, TxnMatches
<1>9. ASSUME NEW i \in Instance, NEW p \in Partition, StartTaskFails(i, p) PROVE TxnMatches(j, q)'
  <2>1. p # q \/ i # j
    BY <1>9 DEF StartTaskFails, Starting, batchVars
  <2> QED BY <1>9, <2>1, <1>0 DEF StartTaskFails, txnVars, logVars, batchVars
<1>10. ASSUME NEW i \in Instance, CallGetmany(i) PROVE TxnMatches(j, q)'
  BY <1>10 DEF CallGetmany, txnVars, logVars, taskVars, batchVars, clientVars, TxnMatches
<1>11. ASSUME NEW i \in Instance, GetmanyTimesOut(i) PROVE TxnMatches(j, q)'
  BY <1>11 DEF GetmanyTimesOut, NextTop, txnVars, logVars, taskVars, batchVars,
     clientVars, TxnMatches
<1>12. ASSUME NEW i \in Instance, GetmanyReturns(i) PROVE TxnMatches(j, q)'
  <2>1. i # j
    BY <1>12 DEF GetmanyReturns
  <2> QED BY <1>12, <2>1, <1>0 DEF GetmanyReturns, txnVars, logVars, taskVars
<1>13. ASSUME NEW i \in Instance, BeginBatch(i) PROVE TxnMatches(j, q)'
  BY <1>13 DEF BeginBatch, Tasks, NextTop, txnVars, logVars, taskVars, clientVars, TxnMatches
<1>14. ASSUME NEW i \in Instance, TransformFails(i) PROVE TxnMatches(j, q)'
  BY <1>14 DEF TransformFails, Everywhere, txnVars, logVars, taskVars, clientVars, TxnMatches
<1>15. ASSUME NEW i \in Instance, NEW p \in Partition, WriteBatch(i, p) PROVE TxnMatches(j, q)'
  <2>1. CASE p = q /\ i = j
    <3>1. local[i][p] = changelog[p]
      BY <1>15 DEF WriteBatch, ProduceInTxn, LocalCurrent, MayFold
    <3>2. /\ txn'[p] = [open |-> TRUE, state |-> Folded(i, p), offset |-> 0,
                        out |-> Emit(fetched[i][p].from, fetched[i][p].to, local[i][p])]
          /\ local'[i][p] = Folded(i, p) /\ changelog' = changelog
          /\ step'[i][p] = "written" /\ fetched' = fetched
      BY <1>15 DEF WriteBatch, ProduceInTxn, logVars
    <3> QED BY <2>1, <3>1, <3>2 DEF TxnMatches, Folded
  <2>2. CASE p # q
    BY <1>15, <2>2, <1>0 DEF WriteBatch, ProduceInTxn, logVars
  <2>3. CASE p = q /\ i # j
    BY <1>15, <2>3 DEF WriteBatch, ProduceInTxn
  <2> QED BY <2>1, <2>2, <2>3
<1>16. ASSUME NEW i \in Instance, NEW p \in Partition, SendOffsets(i, p) PROVE TxnMatches(j, q)'
  BY <1>16 DEF SendOffsets, AddOffset, logVars, loopVars, taskVars, clientVars, Txn, TxnMatches
<1>17. ASSUME NEW i \in Instance, NEW p \in Partition, CommitBatch(i, p) PROVE TxnMatches(j, q)'
  BY <1>17 DEF CommitBatch, CommitTxn, NextTop, taskVars, clientVars, TxnMatches
<1>18. ASSUME NEW i \in Instance, NEW p \in Partition, BatchFenced(i, p) PROVE TxnMatches(j, q)'
  BY <1>18 DEF BatchFenced, txnVars, logVars, taskVars, clientVars, TxnMatches
<1>19. ASSUME NEW i \in Instance, NEW p \in Partition, BatchFails(i, p) PROVE TxnMatches(j, q)'
  BY <1>19 DEF BatchFails, AbortTxn, logVars, taskVars, clientVars, TxnMatches
<1>20. ASSUME NEW i \in Instance, Exit(i) PROVE TxnMatches(j, q)'
  BY <1>20 DEF Exit, ProcessGone, Everywhere, Unassign, txnVars, logVars, TxnMatches
<1>21. ASSUME NEW i \in Instance, Crash(i) PROVE TxnMatches(j, q)'
  BY <1>21 DEF Crash, ProcessGone, Everywhere, Unassign, txnVars, logVars, TxnMatches
<1>22. ASSUME NEW i \in Instance, Restart(i) PROVE TxnMatches(j, q)'
  BY <1>22 DEF Restart, txnVars, logVars, taskVars, batchVars, clientVars, TxnMatches
<1>23. ASSUME NEW i \in Instance, EnterStage(i) PROVE TxnMatches(j, q)'
  BY <1>23 DEF EnterStage, NextTop, txnVars, logVars, taskVars, batchVars, clientVars, TxnMatches
<1>24. ASSUME NEW i \in Instance, GroupStep(i) PROVE TxnMatches(j, q)'
  BY <1>24 DEF GroupStep, txnVars, logVars, loopVars, taskVars, batchVars, clientVars, TxnMatches
<1>25. ASSUME NEW p \in Partition, TransactionTimesOut(p) PROVE TxnMatches(j, q)'
  BY <1>25, RunnersAssumption DEF TransactionTimesOut, TxnTimeout, logVars, loopVars,
     taskVars, batchVars, clientVars, TxnMatches
<1>26. ASSUME RebalanceCompletes PROVE TxnMatches(j, q)'
  BY <1>26 DEF RebalanceCompletes, txnVars, logVars, loopVars, taskVars, batchVars,
     clientVars, TxnMatches
<1>27. ASSUME NEW i \in Instance, OnAssignedFails(i) PROVE TxnMatches(j, q)'
  BY <1>27 DEF OnAssignedFails, TakeAssignment, OwnedBy, Everywhere, txnVars, logVars,
     taskVars, batchVars, TxnMatches
<1> QED
  BY <1>1, <1>2, <1>3, <1>4, <1>5, <1>6, <1>7, <1>8, <1>9, <1>10, <1>11, <1>12, <1>13,
     <1>14, <1>15, <1>16, <1>17, <1>18, <1>19, <1>20, <1>21, <1>22, <1>23, <1>24, <1>25, <1>26,
     <1>27
     DEF Next, ListenerStep, LoopStep, TaskStart, BatchStep, Lifecycle

\* Appending a batch leaves the messages before it where they are.
LEMMA Appending ==
    ASSUME NEW log \in Seq(Message), NEW batch \in Seq(Message)
    PROVE  /\ Len(log \o batch) = Len(log) + Len(batch)
           /\ \A k \in 1..Len(log) : (log \o batch)[k] = log[k]
           /\ \A k \in 1..Len(batch) : (log \o batch)[Len(log) + k] = batch[k]
  BY ConcatProperties

\* Appending the outputs of records from+1 .. to keeps what a log covers, and
\* extends it to `to` when it covered everything up to `from`.
LEMMA CoversMore ==
    ASSUME NEW log \in Seq(Message), NEW batch \in Seq(Message),
           NEW from \in Nat, NEW to \in Nat, from < to, Len(batch) = to - from,
           \A k \in 1..(to - from) : batch[k].record = from + k
    PROVE  /\ \A n \in Int : Covers(log, n) => Covers(log \o batch, n)
           /\ Covers(log, from) => Covers(log \o batch, to)
<1> DEFINE new == log \o batch
<1>1. Len(log) \in Nat /\ to - from \in Nat
  OBVIOUS
<1>2. Len(new) = Len(log) + (to - from)
  BY Appending
<1>3. ASSUME NEW k \in 1..Len(log) PROVE k \in 1..Len(new) /\ new[k] = log[k]
  BY <1>1, <1>2, Appending
<1>4. ASSUME NEW k \in 1..(to - from)
      PROVE  Len(log) + k \in 1..Len(new) /\ new[Len(log) + k] = batch[k]
  BY <1>1, <1>2, Appending
<1> HIDE DEF new
<1>5. ASSUME NEW n \in Int, Covers(log, n) PROVE Covers(new, n)
  BY <1>3, <1>5 DEF Covers
<1>6. ASSUME Covers(log, from) PROVE Covers(new, to)
  <2> SUFFICES ASSUME NEW r \in 1..to
               PROVE  \E k \in 1..Len(new) : new[k].record = r
    BY DEF Covers
  <2>1. CASE r <= from
    <3>1. r \in 1..from
      BY <2>1
    <3> QED BY <3>1, <1>3, <1>6 DEF Covers
  <2>2. CASE r > from
    <3>1. r - from \in 1..(to - from)
      BY <2>2
    <3>2. from + (r - from) = r
      OBVIOUS
    <3>3. batch[r - from].record = r
      BY <3>1, <3>2
    <3> QED BY <3>1, <3>3, <1>4
  <2> QED BY <2>1, <2>2
<1> QED BY <1>5, <1>6 DEF new

\* A transaction of p committed: batch holds the outputs of records from+1 .. to.
Committed(p, batch, from, to) ==
    /\ from < to
    /\ batch = Emit(from, to, changelog[p])
    /\ Len(batch) = to - from
    /\ \A k \in 1..(to - from) : /\ batch[k].record = from + k
                                 /\ batch[k].seen = changelog[p] + k - 1
    /\ output' = [output EXCEPT ![p] = @ \o batch]
    /\ changelog' = [changelog EXCEPT ![p] = @ + (to - from)]
    /\ committed' = [committed EXCEPT ![p] = to]

\* What a commit makes visible is exactly the batch in hand: its outputs, its
\* state and its offset (send_transactional).
LEMMA CommitStep ==
    ASSUME TypeOK, StepInPlace, TransactionHolds,
           NEW i \in Instance, NEW p \in Partition, CommitBatch(i, p)
    PROVE  \E batch \in Seq(Message), from \in Nat, to \in Nat :
              /\ from = fetched[i][p].from /\ to = fetched[i][p].to
              /\ Committed(p, batch, from, to)
<1> DEFINE from == fetched[i][p].from
           to == fetched[i][p].to
           batch == Emit(from, to, changelog[p])
<1>1. fetched[i][p] \in Slice /\ NonEmpty(fetched[i][p]) /\ changelog[p] \in Nat
  <2>1. step[i][p] # "none"
    BY DEF CommitBatch
  <2>2. fetched \in [Instance -> [Partition -> Slice]] /\ changelog \in [Partition -> Nat]
    BY DEF TypeOK, BatchTypeOK, TxnTypeOK
  <2> QED BY <2>1, <2>2 DEF StepInPlace, InPlace
<1>2. /\ from \in Offset /\ to \in Offset
      /\ from \in Nat /\ to \in Nat /\ from < to
  BY <1>1, SliceFields DEF NonEmpty
<1>3. TxnMatches(i, p) /\ txn[p].offset = to
  BY DEF CommitBatch, CommitTxn, TransactionHolds, TxnMatches
<1>4. /\ output' = [output EXCEPT ![p] = @ \o batch]
      /\ changelog' = [changelog EXCEPT ![p] = @ + (to - from)]
      /\ committed' = [committed EXCEPT ![p] = to]
  BY <1>3 DEF CommitBatch, CommitTxn, TxnMatches
<1>5. /\ batch \in Seq(Message)
      /\ Len(batch) = to - from
      /\ \A k \in 1..(to - from) : /\ batch[k].record = from + k
                                   /\ batch[k].seen = changelog[p] + k - 1
  BY ZenonT(60), <1>1, <1>2, EmitType
<1>6. Committed(p, batch, from, to)
  BY <1>2, <1>4, <1>5 DEF Committed
<1> QED BY <1>2, <1>5, <1>6

\* Nothing but a commit changes what is visible downstream, in the changelog or in
\* the committed offsets.
LEMMA LogsStep ==
    ASSUME Next
    PROVE  \/ UNCHANGED logVars
           \/ \E i \in Instance, p \in Partition : CommitBatch(i, p)
<1> USE DEF txnVars, logVars
<1>1. ASSUME NEW i \in Instance, ListenerStep(i) PROVE UNCHANGED logVars
  BY <1>1 DEF ListenerStep, OnRevoked, OnRevokedFails, OnAssigned, OnAssignedFails, LookUpPosition
<1>2. ASSUME NEW i \in Instance, NEW p \in Partition, TaskStart(i, p)
      PROVE  UNCHANGED logVars
  BY <1>2 DEF TaskStart, FenceTask, InitProducerId, RestoreTask, RunTask, StartTaskFails
<1>3. ASSUME NEW i \in Instance, NEW p \in Partition, BatchStep(i, p)
      PROVE  CommitBatch(i, p) \/ UNCHANGED logVars
  BY <1>3 DEF BatchStep, WriteBatch, ProduceInTxn, SendOffsets, AddOffset, BatchFenced,
     BatchFails, AbortTxn
<1>4. ASSUME NEW i \in Instance, LoopStep(i)
      PROVE  (\E p \in Partition : CommitBatch(i, p)) \/ UNCHANGED logVars
  BY <1>2, <1>3, <1>4 DEF LoopStep, StartPendingTasks, CallGetmany, GetmanyTimesOut,
     GetmanyReturns, BeginBatch, TransformFails
<1>5. ASSUME NEW i \in Instance, Lifecycle(i) PROVE UNCHANGED logVars
  BY <1>5 DEF Lifecycle, Exit, Crash, ProcessGone, Restart, EnterStage
<1>6. ASSUME NEW i \in Instance, GroupStep(i) PROVE UNCHANGED logVars
  BY <1>6 DEF GroupStep
<1>7. ASSUME NEW p \in Partition, TransactionTimesOut(p) PROVE UNCHANGED logVars
  BY <1>7 DEF TransactionTimesOut, TxnTimeout, AbortTxn
<1>8. ASSUME RebalanceCompletes PROVE UNCHANGED logVars
  BY <1>8 DEF RebalanceCompletes
<1> QED BY <1>1, <1>4, <1>5, <1>6, <1>7, <1>8 DEF Next

\* A commit appends messages folded onto the state the changelog held and leaves
\* the changelog with their fold.
LEMMA StateMatchesOutputStep ==
    ASSUME TypeOK, StepInPlace, TransactionHolds, StateMatchesOutput, Next
    PROVE  StateMatchesOutput'
<1>1. CASE UNCHANGED logVars
  BY <1>1 DEF logVars, StateMatchesOutput
<1>2. ASSUME NEW i \in Instance, NEW p \in Partition, CommitBatch(i, p)
      PROVE  StateMatchesOutput'
  <2>1. PICK batch \in Seq(Message), from \in Nat, to \in Nat :
          Committed(p, batch, from, to)
    BY <1>2, CommitStep
  <2>2. output \in [Partition -> Seq(Message)] /\ changelog \in [Partition -> Nat]
    BY DEF TypeOK, TxnTypeOK
  <2>3. /\ output'[p] = output[p] \o batch
        /\ changelog'[p] = changelog[p] + (to - from)
        /\ \A q \in Partition : q # p => /\ output'[q] = output[q]
                                        /\ changelog'[q] = changelog[q]
    BY <2>1, <2>2 DEF Committed
  <2> DEFINE old == output[p]
  <2>4. old \in Seq(Message) /\ Len(old) \in Nat /\ changelog[p] = Len(old)
    BY <2>2 DEF StateMatchesOutput
  <2>5. \A k \in 1..Len(old) : old[k].seen = k - 1
    BY DEF StateMatchesOutput
  <2>a. to - from \in Nat
    BY <2>1 DEF Committed
  <2> HIDE DEF old
  <2>6. /\ Len(old \o batch) = Len(old) + (to - from)
        /\ \A k \in 1..Len(old) : (old \o batch)[k] = old[k]
        /\ \A k \in 1..(to - from) : (old \o batch)[Len(old) + k] = batch[k]
    <3>1. Len(batch) = to - from
      BY <2>1 DEF Committed
    <3> QED BY ZenonT(60), <3>1, <2>4, Appending
  <2>7. ASSUME NEW k \in 1..(Len(old) + (to - from)) PROVE (old \o batch)[k].seen = k - 1
    <3>1. CASE k <= Len(old)
      <4>1. k \in 1..Len(old)
        BY <3>1, <2>4
      <4> QED BY <4>1, <2>5, <2>6
    <3>2. CASE k > Len(old)
      <4>1. k - Len(old) \in 1..(to - from) /\ Len(old) + (k - Len(old)) = k
        BY <2>4, <3>2
      <4>2. (old \o batch)[k] = batch[k - Len(old)]
        BY <4>1, <2>6
      <4>3. batch[k - Len(old)].seen = Len(old) + (k - Len(old)) - 1
        BY <4>1, <2>1, <2>4 DEF Committed
      <4> QED BY <4>1, <4>2, <4>3, <2>4
    <3>3. k <= Len(old) \/ k > Len(old)
      BY <2>4
    <3> QED BY <3>1, <3>2, <3>3
  <2>8. changelog'[p] = Len(output'[p])
        /\ \A k \in 1..Len(output'[p]) : output'[p][k].seen = k - 1
    BY <2>3, <2>4, <2>6, <2>7 DEF old
  <2> QED BY ZenonT(60), <2>3, <2>8 DEF StateMatchesOutput
<1> QED BY <1>1, <1>2, LogsStep

\* A commit loses no record downstream, and adds those of the batch in hand.
LEMMA CommitKeepsCoverage ==
    ASSUME TypeOK, StepInPlace, TransactionHolds,
           NEW i \in Instance, NEW p \in Partition, CommitBatch(i, p)
    PROVE  /\ \A q \in Partition : \A n \in Int : Covers(output[q], n) => Covers(output'[q], n)
           /\ Covers(output[p], fetched[i][p].from) => Covers(output'[p], fetched[i][p].to)
<1>1. PICK batch \in Seq(Message), from \in Nat, to \in Nat :
        /\ from = fetched[i][p].from /\ to = fetched[i][p].to
        /\ Committed(p, batch, from, to)
  BY CommitStep
<1>2. output \in [Partition -> Seq(Message)]
  BY DEF TypeOK, TxnTypeOK
<1>3. /\ output'[p] = output[p] \o batch
      /\ \A q \in Partition : q # p => output'[q] = output[q]
  BY <1>1, <1>2 DEF Committed
<1>4. output[p] \in Seq(Message)
  BY <1>2
<1>5. /\ \A n \in Int : Covers(output[p], n) => Covers(output[p] \o batch, n)
      /\ Covers(output[p], from) => Covers(output[p] \o batch, to)
  <2>1. /\ from < to /\ Len(batch) = to - from
        /\ \A k \in 1..(to - from) : batch[k].record = from + k
    BY <1>1 DEF Committed
  <2> QED BY <2>1, <1>4, CoversMore
<1>6. ASSUME NEW q \in Partition, NEW n \in Int, Covers(output[q], n)
      PROVE  Covers(output'[q], n)
  <2>1. CASE q = p
    BY <2>1, <1>3, <1>5, <1>6
  <2>2. CASE q # p
    BY <2>2, <1>3, <1>6
  <2> QED BY <2>1, <2>2
<1>7. ASSUME Covers(output[p], fetched[i][p].from)
      PROVE  Covers(output'[p], fetched[i][p].to)
  BY <1>1, <1>3, <1>5, <1>7
<1> QED BY <1>6, <1>7

\* What is downstream stays downstream.
LEMMA CoverageKept ==
    ASSUME TypeOK, StepInPlace, TransactionHolds, Next,
           NEW q \in Partition, NEW n \in Int, Covers(output[q], n)
    PROVE  Covers(output'[q], n)
<1>1. CASE UNCHANGED logVars
  <2>1. output'[q] = output[q]
    BY <1>1 DEF logVars
  <2> QED BY <2>1
<1>2. ASSUME NEW i \in Instance, NEW p \in Partition, CommitBatch(i, p)
      PROVE  Covers(output'[q], n)
  BY <1>2, CommitKeepsCoverage
<1> QED BY <1>1, <1>2, LogsStep

\* After a commit, nothing is missing up to the end of the batch.
LEMMA CommitCovers ==
    ASSUME TypeOK, StepInPlace, TransactionHolds, FetchCovered,
           NEW i \in Instance, NEW p \in Partition, CommitBatch(i, p)
    PROVE  Covers(output'[p], fetched[i][p].to)
<1>1. Covers(output[p], fetched[i][p].from)
  BY DEF FetchCovered
<1> QED BY <1>1, CommitKeepsCoverage

\* A step that moves a committed offset moves it no further than what is
\* downstream.
LEMMA NoLossStep ==
    ASSUME TypeOK, StepInPlace, TransactionHolds, FetchCovered, NoLoss, Next
    PROVE  NoLoss'
<1> SUFFICES ASSUME NEW q \in Partition
             PROVE  Covers(output'[q], committed'[q])
  BY DEF NoLoss
<1>1. committed \in [Partition -> Offset] /\ committed[q] \in Int
  BY RecordsAssumption DEF TypeOK, TxnTypeOK, Offset
<1>2. Covers(output[q], committed[q])
  BY DEF NoLoss
<1>3. CASE UNCHANGED logVars
  <2>1. output'[q] = output[q] /\ committed'[q] = committed[q]
    BY <1>3 DEF logVars
  <2> QED BY <2>1, <1>2
<1>4. ASSUME NEW i \in Instance, NEW p \in Partition, CommitBatch(i, p)
      PROVE  Covers(output'[q], committed'[q])
  <2>1. committed' = [committed EXCEPT ![p] = fetched[i][p].to]
    BY <1>4, CommitStep DEF Committed
  <2>2. CASE p = q
    <3>1. committed'[q] = fetched[i][p].to
      BY <2>1, <2>2, <1>1
    <3>2. Covers(output'[p], fetched[i][p].to)
      BY <1>4, CommitCovers
    <3> QED BY <2>2, <3>1, <3>2
  <2>3. CASE p # q
    <3>1. committed'[q] = committed[q]
      BY <2>1, <2>3, <1>1
    <3>2. Covers(output'[q], committed[q])
      BY <1>1, <1>2, CoverageKept
    <3> QED BY <3>1, <3>2
  <2> QED BY <2>2, <2>3
<1> QED BY <1>3, <1>4, LogsStep

\* A partition that is assigned and resumed has a task (or gets one before the
\* loop fetches, or the loop is unwinding): on_partitions_assigned pauses what
\* it is given, start_task resumes it after registering the task.
LEMMA ResumedHasTaskStep ==
    ASSUME TypeOK, TypeOK', ResumedHasTask, Next
    PROVE  ResumedHasTask'
<1> USE DEF TypeOK, LoopTypeOK, TaskTypeOK, ClientTypeOK, ResumedHasTask, HasTask, Starting
<1> SUFFICES ASSUME NEW j \in Instance, NEW q \in assigned'[j] \ paused'[j], q \in Partition
             PROVE  HasTask(j, q)'
  OBVIOUS
<1>1. ASSUME NEW i \in Instance, OnRevoked(i) PROVE HasTask(j, q)'
  BY <1>1 DEF OnRevoked, CloseTasks, Tasks, Unassign, JoinGroup, Everywhere, txnVars,
     logVars, loopVars
<1>2. ASSUME NEW i \in Instance, OnRevokedFails(i) PROVE HasTask(j, q)'
  BY <1>2 DEF OnRevokedFails, CloseTasks, Tasks, Unassign, JoinGroup, Everywhere, txnVars, logVars
<1>3. ASSUME NEW i \in Instance, OnAssigned(i) PROVE HasTask(j, q)'
  BY <1>3 DEF OnAssigned, TakeAssignment, OwnedBy, Everywhere, txnVars, logVars, taskVars, batchVars
<1>4. ASSUME NEW i \in Instance, NEW p \in Partition, LookUpPosition(i, p) PROVE HasTask(j, q)'
  BY <1>4 DEF LookUpPosition, txnVars, logVars, loopVars, taskVars, batchVars
<1>5. ASSUME NEW i \in Instance, StartPendingTasks(i) PROVE HasTask(j, q)'
  BY <1>5 DEF StartPendingTasks, txnVars, logVars, batchVars, clientVars
<1>6. ASSUME NEW i \in Instance, NEW p \in Partition, FenceTask(i, p) PROVE HasTask(j, q)'
  BY <1>6 DEF FenceTask, InitProducerId, logVars, loopVars, batchVars, clientVars
<1>7. ASSUME NEW i \in Instance, NEW p \in Partition, RestoreTask(i, p) PROVE HasTask(j, q)'
  BY <1>7 DEF RestoreTask, txnVars, logVars, loopVars, batchVars, clientVars
<1>8. ASSUME NEW i \in Instance, NEW p \in Partition, RunTask(i, p) PROVE HasTask(j, q)'
  BY <1>8 DEF RunTask, txnVars, logVars, batchVars
<1>9. ASSUME NEW i \in Instance, NEW p \in Partition, StartTaskFails(i, p) PROVE HasTask(j, q)'
  BY <1>9 DEF StartTaskFails, txnVars, logVars, batchVars, clientVars
<1>10. ASSUME NEW i \in Instance, CallGetmany(i) PROVE HasTask(j, q)'
  BY <1>10 DEF CallGetmany, txnVars, logVars, taskVars, batchVars, clientVars
<1>11. ASSUME NEW i \in Instance, GetmanyTimesOut(i) PROVE HasTask(j, q)'
  BY <1>11 DEF GetmanyTimesOut, NextTop, txnVars, logVars, taskVars, batchVars, clientVars
<1>12. ASSUME NEW i \in Instance, GetmanyReturns(i) PROVE HasTask(j, q)'
  BY <1>12 DEF GetmanyReturns, txnVars, logVars, taskVars
<1>13. ASSUME NEW i \in Instance, BeginBatch(i) PROVE HasTask(j, q)'
  BY <1>13 DEF BeginBatch, Tasks, NextTop, txnVars, logVars, taskVars, clientVars
<1>14. ASSUME NEW i \in Instance, TransformFails(i) PROVE HasTask(j, q)'
  BY <1>14 DEF TransformFails, Everywhere, txnVars, logVars, taskVars, clientVars
<1>15. ASSUME NEW i \in Instance, NEW p \in Partition, WriteBatch(i, p) PROVE HasTask(j, q)'
  BY <1>15 DEF WriteBatch, ProduceInTxn, logVars, loopVars, clientVars
<1>16. ASSUME NEW i \in Instance, NEW p \in Partition, SendOffsets(i, p) PROVE HasTask(j, q)'
  BY <1>16 DEF SendOffsets, AddOffset, logVars, loopVars, taskVars, clientVars
<1>17. ASSUME NEW i \in Instance, NEW p \in Partition, CommitBatch(i, p) PROVE HasTask(j, q)'
  BY <1>17 DEF CommitBatch, CommitTxn, NextTop, taskVars, clientVars
<1>18. ASSUME NEW i \in Instance, NEW p \in Partition, BatchFenced(i, p) PROVE HasTask(j, q)'
  BY <1>18 DEF BatchFenced, txnVars, logVars, taskVars, clientVars
<1>19. ASSUME NEW i \in Instance, NEW p \in Partition, BatchFails(i, p) PROVE HasTask(j, q)'
  BY <1>19 DEF BatchFails, AbortTxn, logVars, taskVars, clientVars
<1>20. ASSUME NEW i \in Instance, Exit(i) PROVE HasTask(j, q)'
  BY <1>20 DEF Exit, ProcessGone, Everywhere, Unassign, txnVars, logVars
<1>21. ASSUME NEW i \in Instance, Crash(i) PROVE HasTask(j, q)'
  BY <1>21 DEF Crash, ProcessGone, Everywhere, Unassign, txnVars, logVars
<1>22. ASSUME NEW i \in Instance, Restart(i) PROVE HasTask(j, q)'
  BY <1>22 DEF Restart, txnVars, logVars, taskVars, batchVars, clientVars
<1>23. ASSUME NEW i \in Instance, EnterStage(i) PROVE HasTask(j, q)'
  BY <1>23 DEF EnterStage, NextTop, txnVars, logVars, taskVars, batchVars, clientVars
<1>24. ASSUME NEW i \in Instance, GroupStep(i) PROVE HasTask(j, q)'
  BY <1>24 DEF GroupStep, txnVars, logVars, loopVars, taskVars, batchVars, clientVars
<1>25. ASSUME NEW p \in Partition, TransactionTimesOut(p) PROVE HasTask(j, q)'
  BY <1>25 DEF TransactionTimesOut, TxnTimeout, logVars, loopVars, taskVars, batchVars, clientVars
<1>26. ASSUME RebalanceCompletes PROVE HasTask(j, q)'
  BY <1>26 DEF RebalanceCompletes, txnVars, logVars, loopVars, taskVars, batchVars, clientVars
<1>27. ASSUME NEW i \in Instance, OnAssignedFails(i) PROVE HasTask(j, q)'
  BY <1>27 DEF OnAssignedFails, TakeAssignment, OwnedBy, Everywhere, txnVars, logVars,
     taskVars, batchVars
<1> QED
  BY <1>1, <1>2, <1>3, <1>4, <1>5, <1>6, <1>7, <1>8, <1>9, <1>10, <1>11, <1>12, <1>13,
     <1>14, <1>15, <1>16, <1>17, <1>18, <1>19, <1>20, <1>21, <1>22, <1>23, <1>24, <1>25, <1>26,
     <1>27
     DEF Next, ListenerStep, LoopStep, TaskStart, BatchStep, Lifecycle

\* The records getmany() returns start where nothing is missing downstream.
LEMMA FetchCoveredStep ==
    ASSUME TypeOK, StepInPlace, TransactionHolds, FetchCovered, PositionCovered, Next
    PROVE  FetchCovered'
<1> USE DEF TypeOK, LoopTypeOK, BatchTypeOK
<1> SUFFICES ASSUME NEW j \in Instance, NEW q \in Partition
             PROVE  Covers(output'[q], fetched'[j][q].from)
  BY DEF FetchCovered
<1>a. ASSUME fetched'[j][q] = fetched[j][q]
      PROVE  Covers(output'[q], fetched'[j][q].from)
  <2>1. fetched[j][q].from \in Int /\ Covers(output[q], fetched[j][q].from)
    BY SliceFields DEF FetchCovered
  <2> QED BY <2>1, <1>a, CoverageKept
<1>b. ASSUME fetched'[j][q] = NoSlice
      PROVE  Covers(output'[q], fetched'[j][q].from)
  <2>1. fetched'[j][q].from = 0
    BY <1>b DEF NoSlice
  <2> QED BY <2>1 DEF Covers
<1>1. ASSUME NEW i \in Instance, OnRevoked(i) PROVE Covers(output'[q], fetched'[j][q].from)
  BY <1>1, <1>a DEF OnRevoked, CloseTasks, Tasks, Unassign, JoinGroup, Everywhere,
     txnVars, logVars, loopVars
<1>2. ASSUME NEW i \in Instance, OnRevokedFails(i) PROVE Covers(output'[q], fetched'[j][q].from)
  BY <1>2, <1>a DEF OnRevokedFails, CloseTasks, Tasks, Unassign, JoinGroup, Everywhere,
     txnVars, logVars
<1>3. ASSUME NEW i \in Instance, OnAssigned(i) PROVE Covers(output'[q], fetched'[j][q].from)
  BY <1>3, <1>a DEF OnAssigned, TakeAssignment, OwnedBy, Everywhere, txnVars, logVars,
     taskVars, batchVars
<1>4. ASSUME NEW i \in Instance, NEW p \in Partition, LookUpPosition(i,
   p) PROVE Covers(output'[q], fetched'[j][q].from)
  BY <1>4, <1>a DEF LookUpPosition, txnVars, logVars, loopVars, taskVars, batchVars
<1>5. ASSUME NEW i \in Instance, StartPendingTasks(i) PROVE Covers(output'[q], fetched'[j][q].from)
  BY <1>5, <1>a DEF StartPendingTasks, txnVars, logVars, batchVars, clientVars
<1>6. ASSUME NEW i \in Instance, NEW p \in Partition, FenceTask(i,
   p) PROVE Covers(output'[q], fetched'[j][q].from)
  BY <1>6, <1>a DEF FenceTask, InitProducerId, logVars, loopVars, batchVars, clientVars
<1>7. ASSUME NEW i \in Instance, NEW p \in Partition, RestoreTask(i,
   p) PROVE Covers(output'[q], fetched'[j][q].from)
  BY <1>7, <1>a DEF RestoreTask, txnVars, logVars, loopVars, batchVars, clientVars
<1>8. ASSUME NEW i \in Instance, NEW p \in Partition, RunTask(i,
   p) PROVE Covers(output'[q], fetched'[j][q].from)
  BY <1>8, <1>a DEF RunTask, txnVars, logVars, batchVars
<1>9. ASSUME NEW i \in Instance, NEW p \in Partition, StartTaskFails(i,
   p) PROVE Covers(output'[q], fetched'[j][q].from)
  BY <1>9, <1>a DEF StartTaskFails, txnVars, logVars, batchVars, clientVars
<1>10. ASSUME NEW i \in Instance, CallGetmany(i) PROVE Covers(output'[q], fetched'[j][q].from)
  BY <1>10, <1>a DEF CallGetmany, txnVars, logVars, taskVars, batchVars, clientVars
<1>11. ASSUME NEW i \in Instance, GetmanyTimesOut(i) PROVE Covers(output'[q], fetched'[j][q].from)
  BY <1>11, <1>a DEF GetmanyTimesOut, NextTop, txnVars, logVars, taskVars, batchVars, clientVars
<1>12. ASSUME NEW i \in Instance, GetmanyReturns(i) PROVE Covers(output'[q], fetched'[j][q].from)
  <2>1. CASE i # j
    BY <1>12, <2>1, <1>a DEF GetmanyReturns
  <2>2. CASE i = j
    <3>1. output' = output
      BY <1>12 DEF GetmanyReturns, txnVars, logVars
    <3>2. Covers(output[q], position[j][q])
      BY <1>12, <2>2 DEF GetmanyReturns, PositionCovered, LastBatch, InHand
    <3>3. fetched'[j][q].from = position[j][q] \/ fetched'[j][q] = NoSlice
      BY <1>12, <2>2 DEF GetmanyReturns
    <3> QED BY <3>1, <3>2, <3>3, <1>b
  <2> QED BY <2>1, <2>2
<1>13. ASSUME NEW i \in Instance, BeginBatch(i) PROVE Covers(output'[q], fetched'[j][q].from)
  <2>1. fetched'[j][q] \in {fetched[j][q], NoSlice}
    BY <1>13 DEF BeginBatch
  <2> QED BY <2>1, <1>a, <1>b
<1>14. ASSUME NEW i \in Instance, TransformFails(i) PROVE Covers(output'[q], fetched'[j][q].from)
  BY <1>14, <1>a DEF TransformFails, Everywhere, txnVars, logVars, taskVars, clientVars
<1>15. ASSUME NEW i \in Instance, NEW p \in Partition, WriteBatch(i,
   p) PROVE Covers(output'[q], fetched'[j][q].from)
  BY <1>15, <1>a DEF WriteBatch, ProduceInTxn, logVars, loopVars, clientVars
<1>16. ASSUME NEW i \in Instance, NEW p \in Partition, SendOffsets(i,
   p) PROVE Covers(output'[q], fetched'[j][q].from)
  BY <1>16, <1>a DEF SendOffsets, AddOffset, logVars, loopVars, taskVars, clientVars
<1>17. ASSUME NEW i \in Instance, NEW p \in Partition, CommitBatch(i,
   p) PROVE Covers(output'[q], fetched'[j][q].from)
  <2>1. fetched'[j][q] \in {fetched[j][q], NoSlice}
    BY <1>17 DEF CommitBatch
  <2> QED BY <2>1, <1>a, <1>b
<1>18. ASSUME NEW i \in Instance, NEW p \in Partition, BatchFenced(i,
   p) PROVE Covers(output'[q], fetched'[j][q].from)
  BY <1>18, <1>a DEF BatchFenced, txnVars, logVars, taskVars, clientVars
<1>19. ASSUME NEW i \in Instance, NEW p \in Partition, BatchFails(i,
   p) PROVE Covers(output'[q], fetched'[j][q].from)
  BY <1>19, <1>a DEF BatchFails, AbortTxn, logVars, taskVars, clientVars
<1>20. ASSUME NEW i \in Instance, Exit(i) PROVE Covers(output'[q], fetched'[j][q].from)
  <2>1. fetched'[j][q] \in {fetched[j][q], NoSlice}
    BY <1>20 DEF Exit, ProcessGone, Everywhere
  <2> QED BY <2>1, <1>a, <1>b
<1>21. ASSUME NEW i \in Instance, Crash(i) PROVE Covers(output'[q], fetched'[j][q].from)
  <2>1. fetched'[j][q] \in {fetched[j][q], NoSlice}
    BY <1>21 DEF Crash, ProcessGone, Everywhere
  <2> QED BY <2>1, <1>a, <1>b
<1>22. ASSUME NEW i \in Instance, Restart(i) PROVE Covers(output'[q], fetched'[j][q].from)
  BY <1>22, <1>a DEF Restart, txnVars, logVars, taskVars, batchVars, clientVars
<1>23. ASSUME NEW i \in Instance, EnterStage(i) PROVE Covers(output'[q], fetched'[j][q].from)
  BY <1>23, <1>a DEF EnterStage, NextTop, txnVars, logVars, taskVars, batchVars, clientVars
<1>24. ASSUME NEW i \in Instance, GroupStep(i) PROVE Covers(output'[q], fetched'[j][q].from)
  BY <1>24, <1>a DEF GroupStep, txnVars, logVars, loopVars, taskVars, batchVars, clientVars
<1>25. ASSUME NEW p \in Partition, TransactionTimesOut(p) PROVE Covers(output'[q],
   fetched'[j][q].from)
  BY <1>25, <1>a DEF TransactionTimesOut, TxnTimeout, logVars, loopVars, taskVars,
     batchVars, clientVars
<1>26. ASSUME RebalanceCompletes PROVE Covers(output'[q], fetched'[j][q].from)
  BY <1>26, <1>a DEF RebalanceCompletes, txnVars, logVars, loopVars, taskVars, batchVars, clientVars
<1>27. ASSUME NEW i \in Instance, OnAssignedFails(i) PROVE Covers(output'[q], fetched'[j][q].from)
  BY <1>27, <1>a DEF OnAssignedFails, TakeAssignment, OwnedBy, Everywhere, txnVars, logVars,
     taskVars, batchVars
<1> QED
  BY <1>1, <1>2, <1>3, <1>4, <1>5, <1>6, <1>7, <1>8, <1>9, <1>10, <1>11, <1>12, <1>13,
     <1>14, <1>15, <1>16, <1>17, <1>18, <1>19, <1>20, <1>21, <1>22, <1>23, <1>24, <1>25, <1>26,
     <1>27
     DEF Next, ListenerStep, LoopStep, TaskStart, BatchStep, Lifecycle

\* A fetch position runs ahead of what is downstream by no more than the records
\* in hand, which a task of this instance is about to commit: records are dropped
\* (run, a partition revoked meanwhile) only where the position is given up too.
LEMMA PositionCoveredStep ==
    ASSUME TypeOK, StepInPlace, TransactionHolds, ResumedHasTask, FetchCovered,
           PositionCovered, NoLoss, Next
    PROVE  PositionCovered'
<1> USE DEF TypeOK, LoopTypeOK, TaskTypeOK, BatchTypeOK, ClientTypeOK, Unset,
        LastBatch
<1> DEFINE Good(j, q) == \/ pc[j] = "unwinding" \/ LastBatch(j)
                         \/ Covers(output[q], position[j][q])
                         \/ InHand(j, q)
<1> SUFFICES ASSUME NEW j \in Instance, NEW q \in Partition
             PROVE  Good(j, q)'
  BY DEF PositionCovered
<1>a. Good(j, q)
  BY DEF PositionCovered
<1>b. ASSUME position'[j][q] = -1 PROVE Good(j, q)'
  <2>1. \A r \in 1..-1 : FALSE
    OBVIOUS
  <2> QED BY <1>b, <2>1 DEF Covers
<1>c. ASSUME position'[j][q] = position[j][q], Covers(output[q], position[j][q])
      PROVE  Good(j, q)'
  <2>1. position[j][q] \in Int
    BY RecordsAssumption DEF Offset
  <2> QED BY <1>c, <2>1, CoverageKept
<1>d. ASSUME /\ pc'[j] = pc[j] /\ status'[j][q] = status[j][q]
             /\ position'[j][q] = position[j][q] /\ fetched'[j][q] = fetched[j][q]
             /\ step'[j][q] = step[j][q] /\ (fatal[j] => fatal'[j])
      PROVE  Good(j, q)'
  <2>1. CASE Covers(output[q], position[j][q])
    BY <2>1, <1>c, <1>d
  <2>2. CASE ~Covers(output[q], position[j][q])
    BY <2>2, <1>a, <1>d DEF InHand, NonEmpty
  <2> QED BY <2>1, <2>2
<1>e. pc[j] \notin {"drain", "batch", "unwinding"} => Covers(output[q], position[j][q])
  BY <1>a DEF InHand
<1>1. ASSUME NEW i \in Instance, OnRevoked(i) PROVE Good(j, q)'
  <2>1. CASE i = j
    BY <1>1, <2>1, <1>b DEF OnRevoked, CloseTasks, Tasks, Unassign, JoinGroup,
       Everywhere, txnVars, logVars, loopVars
  <2>2. CASE i # j
    BY <1>1, <2>2, <1>d DEF OnRevoked, CloseTasks, Tasks, Unassign, JoinGroup,
       Everywhere, txnVars, logVars, loopVars
  <2> QED BY <2>1, <2>2
<1>2. ASSUME NEW i \in Instance, OnRevokedFails(i) PROVE Good(j, q)'
  <2>1. CASE i = j
    BY <1>2, <2>1, <1>b DEF OnRevokedFails, CloseTasks, Tasks, Unassign, JoinGroup,
       Everywhere, txnVars, logVars
  <2>2. CASE i # j
    BY <1>2, <2>2, <1>d DEF OnRevokedFails, CloseTasks, Tasks, Unassign, JoinGroup,
       Everywhere, txnVars, logVars
  <2> QED BY <2>1, <2>2
<1>3. ASSUME NEW i \in Instance, OnAssigned(i) PROVE Good(j, q)'
  <2>1. CASE i = j
    BY <1>3, <2>1, <1>b DEF OnAssigned, TakeAssignment, OwnedBy, Everywhere, txnVars,
       logVars, taskVars, batchVars
  <2>2. CASE i # j
    BY <1>3, <2>2, <1>d DEF OnAssigned, TakeAssignment, OwnedBy, Everywhere, txnVars,
       logVars, taskVars, batchVars
  <2> QED BY <2>1, <2>2
<1>4. ASSUME NEW i \in Instance, NEW p \in Partition, LookUpPosition(i, p) PROVE Good(j, q)'
  <2>1. CASE i = j /\ p = q
    <3>1. position'[j][q] = committed[q] /\ output' = output
      BY <1>4, <2>1 DEF LookUpPosition, txnVars, logVars
    <3> QED BY <3>1 DEF NoLoss
  <2>2. CASE i # j \/ p # q
    BY <1>4, <2>2, <1>d DEF LookUpPosition, txnVars, logVars, loopVars, taskVars, batchVars
  <2> QED BY <2>1, <2>2
<1>5. ASSUME NEW i \in Instance, StartPendingTasks(i) PROVE Good(j, q)'
  <2>1. CASE i = j
    BY <1>5, <2>1, <1>c, <1>e DEF StartPendingTasks, txnVars, logVars, batchVars, clientVars
  <2>2. CASE i # j
    BY <1>5, <2>2, <1>d DEF StartPendingTasks, txnVars, logVars, batchVars, clientVars
  <2> QED BY <2>1, <2>2
<1>6. ASSUME NEW i \in Instance, NEW p \in Partition, FenceTask(i, p) PROVE Good(j, q)'
  <2>1. CASE i = j /\ p = q
    BY <1>6, <2>1, <1>a, <1>c DEF FenceTask, InitProducerId, logVars, loopVars,
       batchVars, clientVars, InHand
  <2>2. CASE i # j \/ p # q
    BY <1>6, <2>2, <1>d DEF FenceTask, InitProducerId, logVars, loopVars, batchVars, clientVars
  <2> QED BY <2>1, <2>2
<1>7. ASSUME NEW i \in Instance, NEW p \in Partition, RestoreTask(i, p) PROVE Good(j, q)'
  <2>1. CASE i = j /\ p = q
    BY <1>7, <2>1, <1>a, <1>c DEF RestoreTask, txnVars, logVars, loopVars, batchVars,
       clientVars, InHand
  <2>2. CASE i # j \/ p # q
    BY <1>7, <2>2, <1>d DEF RestoreTask, txnVars, logVars, loopVars, batchVars, clientVars
  <2> QED BY <2>1, <2>2
<1>8. ASSUME NEW i \in Instance, NEW p \in Partition, RunTask(i, p) PROVE Good(j, q)'
  <2>1. CASE i # j
    BY <1>8, <2>1, <1>d DEF RunTask, txnVars, logVars, batchVars
  <2>2. CASE i = j /\ InHand(j, q)
    BY <1>8, <2>2, <1>d DEF RunTask, txnVars, logVars, batchVars, InHand
  <2>3. CASE i = j /\ ~InHand(j, q)
    BY <1>8, <2>3, <1>a, <1>c DEF RunTask, txnVars, logVars, batchVars
  <2> QED BY <2>1, <2>2, <2>3
<1>9. ASSUME NEW i \in Instance, NEW p \in Partition, StartTaskFails(i, p) PROVE Good(j, q)'
  <2>1. CASE i = j
    BY <1>9, <2>1 DEF StartTaskFails
  <2>2. CASE i # j
    BY <1>9, <2>2, <1>d DEF StartTaskFails, txnVars, logVars, batchVars, clientVars
  <2> QED BY <2>1, <2>2
<1>10. ASSUME NEW i \in Instance, CallGetmany(i) PROVE Good(j, q)'
  <2>1. CASE i = j
    BY <1>10, <2>1, <1>c, <1>e DEF CallGetmany, txnVars, logVars, taskVars, batchVars, clientVars
  <2>2. CASE i # j
    BY <1>10, <2>2, <1>d DEF CallGetmany, txnVars, logVars, taskVars, batchVars, clientVars
  <2> QED BY <2>1, <2>2
<1>11. ASSUME NEW i \in Instance, GetmanyTimesOut(i) PROVE Good(j, q)'
  <2>1. CASE i = j
    BY <1>11, <2>1, <1>c, <1>e DEF GetmanyTimesOut, NextTop, txnVars, logVars, taskVars,
       batchVars, clientVars
  <2>2. CASE i # j
    BY <1>11, <2>2, <1>d DEF GetmanyTimesOut, NextTop, txnVars, logVars, taskVars,
       batchVars, clientVars
  <2> QED BY <2>1, <2>2
<1>12. ASSUME NEW i \in Instance, GetmanyReturns(i) PROVE Good(j, q)'
  <2>1. CASE i # j
    BY <1>12, <2>1, <1>d DEF GetmanyReturns, txnVars, logVars, taskVars
  <2>2. CASE i = j
    <3>1. Covers(output[q], position[j][q])
      BY <1>12, <2>2, <1>e DEF GetmanyReturns
    <3>2. PICK got \in [Fetchable(i) -> 0..MaxBatch] :
            /\ fetched' = [fetched EXCEPT ![i] = [x \in Partition |->
                   IF x \in Fetchable(i)
                   THEN [from |-> position[i][x], to |-> position[i][x] + got[x]]
                   ELSE NoSlice]]
            /\ position' = [position EXCEPT ![i] = [x \in Partition |->
                   IF x \in Fetchable(i) THEN @[x] + got[x] ELSE @[x]]]
      BY <1>12 DEF GetmanyReturns
    <3>3. CASE q \notin Fetchable(i)
      BY <2>2, <3>1, <3>2, <3>3, <1>c
    <3>4. CASE q \in Fetchable(i)
      <4>1. got[q] \in Nat /\ position[j][q] \in Int
        BY <3>2, <3>4, TransformerAssumption, RecordsAssumption DEF Offset
      <4>2. /\ position'[j][q] = position[j][q] + got[q]
            /\ fetched'[j][q].from = position[j][q]
            /\ fetched'[j][q].to = position[j][q] + got[q]
        BY <2>2, <3>2, <3>4
      <4>3. /\ pc'[j] = "drain"
            /\ status'[j][q] = "running" \/ fatal'[j]
        BY <1>12, <2>2, <3>4 DEF GetmanyReturns, Fetchable, ResumedHasTask, HasTask, taskVars
      <4>4. CASE got[q] = 0
        BY <3>1, <4>1, <4>2, <4>4, <1>c
      <4>5. CASE got[q] > 0
        BY <4>1, <4>2, <4>3, <4>5 DEF InHand, NonEmpty
      <4> QED BY <4>1, <4>4, <4>5
    <3> QED BY <3>3, <3>4
  <2> QED BY <2>1, <2>2
<1>13. ASSUME NEW i \in Instance, BeginBatch(i) PROVE Good(j, q)'
  <2>1. CASE i # j
    BY <1>13, <2>1, <1>d DEF BeginBatch, Tasks, NextTop, txnVars, logVars, taskVars, clientVars
  <2>2. CASE i = j /\ ~InHand(j, q)
    BY <1>13, <2>2, <1>a, <1>c DEF BeginBatch, NextTop, txnVars, logVars, clientVars
  <2>3. CASE i = j /\ InHand(j, q)
    <3>1. q \in {p \in Tasks(i) : NonEmpty(fetched[i][p])}
      BY <2>3 DEF InHand, Tasks
    <3>2. /\ pc'[j] = "batch"
          /\ fetched'[j][q] = fetched[j][q]
          /\ step'[j][q] = "todo"
          /\ position' = position /\ status' = status
      BY <1>13, <2>3, <3>1 DEF BeginBatch, taskVars, clientVars
    <3> QED BY <2>3, <3>2 DEF InHand, NonEmpty
  <2> QED BY <2>1, <2>2, <2>3
<1>14. ASSUME NEW i \in Instance, TransformFails(i) PROVE Good(j, q)'
  <2>1. CASE i = j
    BY <1>14, <2>1 DEF TransformFails
  <2>2. CASE i # j
    BY <1>14, <2>2, <1>d DEF TransformFails, Everywhere, txnVars, logVars, taskVars, clientVars
  <2> QED BY <2>1, <2>2
<1>15. ASSUME NEW i \in Instance, NEW p \in Partition, WriteBatch(i, p) PROVE Good(j, q)'
  <2>1. CASE i = j /\ p = q
    BY <1>15, <2>1, <1>a, <1>c DEF WriteBatch, ProduceInTxn, logVars, loopVars,
       clientVars, InHand, NonEmpty
  <2>2. CASE i # j \/ p # q
    BY <1>15, <2>2, <1>d DEF WriteBatch, ProduceInTxn, logVars, loopVars, clientVars
  <2> QED BY <2>1, <2>2
<1>16. ASSUME NEW i \in Instance, NEW p \in Partition, SendOffsets(i, p) PROVE Good(j, q)'
  <2>1. CASE i = j /\ p = q
    BY <1>16, <2>1, <1>a, <1>c DEF SendOffsets, AddOffset, logVars, loopVars, taskVars,
       clientVars, InHand, NonEmpty
  <2>2. CASE i # j \/ p # q
    BY <1>16, <2>2, <1>d DEF SendOffsets, AddOffset, logVars, loopVars, taskVars, clientVars
  <2> QED BY <2>1, <2>2
<1>17. ASSUME NEW i \in Instance, NEW p \in Partition, CommitBatch(i, p) PROVE Good(j, q)'
  <2>1. CASE i # j
    BY <1>17, <2>1, <1>d DEF CommitBatch, NextTop, taskVars, clientVars
  <2>2. CASE i = j /\ ~InHand(j, q)
    BY <1>17, <2>2, <1>a, <1>c DEF CommitBatch, NextTop, taskVars, clientVars
  <2>3. CASE i = j /\ p = q /\ InHand(j, q)
    <3>1. Covers(output'[q], fetched[j][q].to)
      BY <1>17, <2>3, CommitCovers
    <3> QED BY <1>17, <2>3, <3>1 DEF CommitBatch, InHand, clientVars
  <2>4. CASE i = j /\ p # q /\ InHand(j, q)
    <3>1. pc[j] = "batch"
      BY <1>17, <2>4 DEF CommitBatch, StepInPlace, InPlace, InHand
    <3>2. pc'[j] = pc[j]
      BY <1>17, <2>4, <3>1 DEF CommitBatch, InHand
    <3> QED BY <1>17, <2>4, <3>2, <1>d DEF CommitBatch, taskVars, clientVars
  <2> QED BY <2>1, <2>2, <2>3, <2>4
<1>18. ASSUME NEW i \in Instance, NEW p \in Partition, BatchFenced(i, p) PROVE Good(j, q)'
  <2>1. CASE i = j
    BY <1>18, <2>1 DEF BatchFenced
  <2>2. CASE i # j
    BY <1>18, <2>2, <1>d DEF BatchFenced, txnVars, logVars, taskVars, clientVars
  <2> QED BY <2>1, <2>2
<1>19. ASSUME NEW i \in Instance, NEW p \in Partition, BatchFails(i, p) PROVE Good(j, q)'
  <2>1. CASE i = j
    BY <1>19, <2>1 DEF BatchFails
  <2>2. CASE i # j
    BY <1>19, <2>2, <1>d DEF BatchFails, AbortTxn, logVars, taskVars, clientVars
  <2> QED BY <2>1, <2>2
<1>20. ASSUME NEW i \in Instance, Exit(i) PROVE Good(j, q)'
  <2>1. CASE i = j
    BY <1>20, <2>1, <1>b DEF Exit, ProcessGone, Everywhere, Unassign, txnVars, logVars
  <2>2. CASE i # j
    BY <1>20, <2>2, <1>d DEF Exit, ProcessGone, Everywhere, Unassign, txnVars, logVars
  <2> QED BY <2>1, <2>2
<1>21. ASSUME NEW i \in Instance, Crash(i) PROVE Good(j, q)'
  <2>1. CASE i = j
    BY <1>21, <2>1, <1>b DEF Crash, ProcessGone, Everywhere, Unassign, txnVars, logVars
  <2>2. CASE i # j
    BY <1>21, <2>2, <1>d DEF Crash, ProcessGone, Everywhere, Unassign, txnVars, logVars
  <2> QED BY <2>1, <2>2
<1>22. ASSUME NEW i \in Instance, Restart(i) PROVE Good(j, q)'
  <2>1. CASE i = j
    BY <1>22, <2>1, <1>c, <1>e DEF Restart, txnVars, logVars, taskVars, batchVars, clientVars
  <2>2. CASE i # j
    BY <1>22, <2>2, <1>d DEF Restart, txnVars, logVars, taskVars, batchVars, clientVars
  <2> QED BY <2>1, <2>2
<1>23. ASSUME NEW i \in Instance, EnterStage(i) PROVE Good(j, q)'
  <2>1. CASE i = j
    BY <1>23, <2>1, <1>c, <1>e DEF EnterStage, NextTop, txnVars, logVars, taskVars,
       batchVars, clientVars
  <2>2. CASE i # j
    BY <1>23, <2>2, <1>d DEF EnterStage, NextTop, txnVars, logVars, taskVars, batchVars, clientVars
  <2> QED BY <2>1, <2>2
<1>24. ASSUME NEW i \in Instance, GroupStep(i) PROVE Good(j, q)'
  BY <1>24, <1>d DEF GroupStep, txnVars, logVars, loopVars, taskVars, batchVars, clientVars
<1>25. ASSUME NEW p \in Partition, TransactionTimesOut(p) PROVE Good(j, q)'
  BY <1>25, <1>d DEF TransactionTimesOut, TxnTimeout, logVars, loopVars, taskVars,
     batchVars, clientVars
<1>26. ASSUME RebalanceCompletes PROVE Good(j, q)'
  BY <1>26, <1>d DEF RebalanceCompletes, txnVars, logVars, loopVars, taskVars, batchVars, clientVars
<1>27. ASSUME NEW i \in Instance, OnAssignedFails(i) PROVE Good(j, q)'
  <2>1. CASE i = j
    BY <1>27, <2>1, <1>b DEF OnAssignedFails, TakeAssignment, OwnedBy, Everywhere, txnVars,
       logVars, taskVars, batchVars
  <2>2. CASE i # j
    BY <1>27, <2>2, <1>d DEF OnAssignedFails, TakeAssignment, OwnedBy, Everywhere, txnVars,
       logVars, taskVars, batchVars
  <2> QED BY <2>1, <2>2
<1> QED
  BY <1>1, <1>2, <1>3, <1>4, <1>5, <1>6, <1>7, <1>8, <1>9, <1>10, <1>11, <1>12, <1>13,
     <1>14, <1>15, <1>16, <1>17, <1>18, <1>19, <1>20, <1>21, <1>22, <1>23, <1>24, <1>25, <1>26,
     <1>27
     DEF Next, ListenerStep, LoopStep, TaskStart, BatchStep, Lifecycle

\* The inductive invariant holds before the first process starts.
LEMMA InitInv ==
    ASSUME Init
    PROVE  IInv
<1>1. TypeOK
  <2>1. 0 \in Offset /\ 0 \in 0..MaxFaults /\ 0 \in 0..MaxEvictions
    BY RecordsAssumption, TransformerAssumption, GroupAssumption DEF Offset
  <2>2. <<>> \in Seq(Message)
    OBVIOUS
  <2>3. TxnTypeOK
    BY <2>1, <2>2, NoTxnType DEF Init, TxnInit, TxnTypeOK
  <2>4. GroupTypeOK
    BY <2>1 DEF Init, GroupInit, GroupTypeOK, ListenerPhase
  <2>5. LoopTypeOK /\ TaskTypeOK
    BY <2>1 DEF Init, LoopTypeOK, TaskTypeOK, Everywhere, Location, Status
  <2>6. BatchTypeOK /\ ClientTypeOK
    BY NoSliceType DEF Init, BatchTypeOK, ClientTypeOK, Everywhere, Step
  <2> QED BY <2>3, <2>4, <2>5, <2>6 DEF TypeOK
<1>2. StepInPlace /\ TransactionHolds
  BY DEF Init, Everywhere, StepInPlace, TransactionHolds
<1>3. LocalCurrent /\ ResumedHasTask
  BY DEF Init, TxnInit, Everywhere, LocalCurrent, ResumedHasTask
<1>4. \A r \in 1..0 : FALSE
  OBVIOUS
<1>5. \A r \in 1..-1 : FALSE
  OBVIOUS
<1>6. FetchCovered
  BY <1>4 DEF Init, Everywhere, NoSlice, FetchCovered, Covers
<1>7. PositionCovered
  BY <1>5 DEF Init, Everywhere, Unset, PositionCovered, Covers
<1>8. NoLoss
  BY <1>4 DEF Init, TxnInit, NoLoss, Covers
<1>9. StateMatchesOutput
  <2>1. \A p \in Partition : output[p] = <<>> /\ changelog[p] = 0
    BY DEF Init, TxnInit
  <2>2. Len(<<>>) = 0
    OBVIOUS
  <2> QED BY <2>1, <2>2, <1>4 DEF StateMatchesOutput
<1> QED BY <1>1, <1>2, <1>3, <1>6, <1>7, <1>8, <1>9 DEF IInv

\* A step that changes nothing keeps the invariant.
LEMMA Stuttering ==
    ASSUME IInv, UNCHANGED vars
    PROVE  IInv'
<1> USE DEF vars, txnVars, logVars, groupVars, loopVars, taskVars, batchVars, clientVars, IInv
<1>1. TypeOK'
  BY DEF TypeOK, TxnTypeOK, GroupTypeOK, LoopTypeOK, TaskTypeOK, BatchTypeOK, ClientTypeOK
<1>2. StepInPlace' /\ LocalCurrent' /\ TransactionHolds'
  BY DEF StepInPlace, InPlace, LocalCurrent, MayFold, TransactionHolds, TxnMatches
<1>3. ResumedHasTask'
  BY DEF ResumedHasTask, HasTask, Starting
<1>4. FetchCovered' /\ PositionCovered' /\ StateMatchesOutput' /\ NoLoss'
  BY DEF FetchCovered, PositionCovered, LastBatch, InHand, StateMatchesOutput, NoLoss
<1> QED BY <1>1, <1>2, <1>3, <1>4

\* Every step keeps the inductive invariant.
LEMMA InvariantStep ==
    ASSUME IInv, Next
    PROVE  IInv'
<1>1. TypeOK'
  BY TypeStep DEF IInv
<1>2. StepInPlace' /\ LocalCurrent' /\ TransactionHolds'
  BY StepInPlaceStep, LocalCurrentStep, TransactionHoldsStep DEF IInv
<1>3. ResumedHasTask'
  BY <1>1, ResumedHasTaskStep DEF IInv
<1>4. FetchCovered' /\ PositionCovered'
  BY FetchCoveredStep, PositionCoveredStep DEF IInv
<1>5. StateMatchesOutput' /\ NoLoss'
  BY StateMatchesOutputStep, NoLossStep DEF IInv
<1> QED BY <1>1, <1>2, <1>3, <1>4, <1>5 DEF IInv

\* The inductive invariant: whatever the number of instances, partitions and
\* records, with any number of crashes, failing calls, timeouts, rebalances and
\* evictions, every reachable state satisfies IInv.
THEOREM Invariance == Spec => []IInv
<1>1. IInv /\ [Next]_vars => IInv'
  BY InvariantStep, Stuttering
<1> QED BY <1>1, InitInv, PTL DEF Spec

\* The transformer keeps its types in every reachable state.
THEOREM TypeCorrect == Spec => []TypeOK
<1>1. IInv => TypeOK
  BY DEF IInv
<1> QED BY <1>1, Invariance, PTL

\* State and output never diverge (StateMatchesOutput): whatever happens, each
\* message downstream was folded onto the state its predecessors left, and the
\* changelog holds the fold of exactly the messages downstream.
THEOREM StateConsistency == Spec => []StateMatchesOutput
<1>1. IInv => StateMatchesOutput
  BY DEF IInv
<1> QED BY <1>1, Invariance, PTL

\* No record behind a committed offset is missing downstream (NoLoss), zombies
\* and dropped batches included.
THEOREM NoRecordLost == Spec => []NoLoss
<1>1. IInv => NoLoss
  BY DEF IInv
<1> QED BY <1>1, Invariance, PTL

\* The transformer implements the abstract delivery with replay: every commit is
\* one atomic batch, folded onto the latest committed state, that leaves no gap
\* behind it; every other step changes nothing a reader of the topics can see.
THEOREM ImplementsDelivery == Spec => DeliversAtLeastOnce
<1>1. Init => AtLeastOnce!Init
  BY DEF Init, TxnInit, AtLeastOnce!Init
<1>2. IInv /\ [Next]_vars => [AtLeastOnce!Next]_(AtLeastOnce!vars)
  <2> SUFFICES ASSUME IInv, [Next]_vars
               PROVE  AtLeastOnce!Next \/ UNCHANGED logVars
    BY DEF AtLeastOnce!vars, logVars
  <2>1. CASE UNCHANGED vars
    BY <2>1 DEF vars, txnVars, logVars
  <2>2. ASSUME NEW i \in Instance, NEW p \in Partition, CommitBatch(i, p)
        PROVE  AtLeastOnce!Next
    <3> DEFINE from == fetched[i][p].from
               to == fetched[i][p].to
    <3>1. \E batch \in Seq(Message) : Committed(p, batch, from, to)
      BY <2>2, CommitStep DEF IInv
    <3>2. from \in Offset /\ to \in Offset
      <4>1. fetched[i][p] \in Slice
        BY DEF IInv, TypeOK, BatchTypeOK
      <4> QED BY <4>1, SliceFields
    <3>3. Covers(output[p], from)
      BY DEF IInv, FetchCovered
    <3> HIDE DEF from, to
    <3>4. AtLeastOnce!Process(p, from, to)
      BY <3>1, <3>3 DEF Committed, AtLeastOnce!Process, AtLeastOnce!Covers, AtLeastOnce!Emit,
                        Covers, Emit
    <3> QED BY <3>2, <3>4 DEF AtLeastOnce!Next, AtLeastOnce!Offset, Offset
  <2> QED BY <2>1, <2>2, LogsStep
<1> QED BY <1>1, <1>2, Invariance, PTL DEF Spec, DeliversAtLeastOnce, AtLeastOnce!Spec
====

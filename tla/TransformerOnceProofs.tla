---- MODULE TransformerOnceProofs ----
(***************************************************************************)
(* Exactly-once for the transformer, as long as no live member is evicted. *)
(* Nothing is assumed about crashes, failing calls and callbacks, timeouts *)
(* or rebalances, and nothing about fences: an instance whose pending set  *)
(* is stale may fence the owner of a partition at any point.               *)
(*                                                                         *)
(* The invariant of TransformerProofs, which evictions do not disturb,     *)
(* bounds positions from one side: nothing is missing before them.  The    *)
(* other side is the group's: until a member is evicted, who has a         *)
(* partition assigned is the owner of it (AssignedIsOwned), only who has   *)
(* it assigned commits for it (HeldFromCommitted), and therefore positions *)
(* and records in hand start at the committed offset (PositionCommitted).  *)
(***************************************************************************)
EXTENDS TransformerProofs

\* A task is being started only while start_pending_tasks runs, or after it failed.
StartingInPlace ==
    \A i \in Instance : Starting(i) # {} => pc[i] \in {"starting", "unwinding"}

\* Who has partitions assigned owns them, and the rebalance that could give them
\* to another member waits for it.
OwnsAssigned(i) ==
    /\ assigned[i] \subseteq OwnedBy(i)
    /\ assigned[i] # {} => listener[i] \in {"idle", "revoking"} /\ i \in members \ joined
    /\ \A p \in Partition : position[i][p] # Unset => p \in assigned[i]

AssignedIsOwned == \A i \in Instance : OwnsAssigned(i)

\* i has records of p in hand and a task to commit them.
Holding(i, p) ==
    /\ status[i][p] = "running"
    /\ NonEmpty(fetched[i][p])
    /\ pc[i] = "drain" \/ step[i][p] # "none"

\* Records in hand are those from the committed offset up to the position.
FromCommitted(i, p) ==
    /\ p \in assigned[i]
    /\ fetched[i][p].from = committed[p]
    /\ position[i][p] = fetched[i][p].to

HeldFromCommitted ==
    \A i \in Instance, p \in Partition : Holding(i, p) => FromCommitted(i, p)

\* A position is the committed offset, but for records in hand.
AtCommitted(i, p) ==
    \/ pc[i] = "unwinding" \/ LastBatch(i)
    \/ position[i][p] \in {Unset, committed[p]}
    \/ Holding(i, p)

PositionCommitted == \A i \in Instance, p \in Partition : AtCommitted(i, p)

\* What the group and the consumers keep to until a live member is evicted.
Settled ==
    /\ AssignedIsOwned
    /\ HeldFromCommitted
    /\ PositionCommitted
    /\ ExactlyOnce

OnceInv ==
    /\ IInv
    /\ StartingInPlace
    /\ evictions = 0 => Settled

\* The outputs of two adjacent batches are the outputs of both at once.
LEMMA EmitAppends ==
    ASSUME NEW from \in Nat, NEW to \in Nat, from < to
    PROVE  Emit(0, from, 0) \o Emit(from, to, from) = Emit(0, to, 0)
<1> DEFINE message(k) == [record |-> 0 + k, seen |-> 0 + k - 1]
           later(k) == [record |-> from + k, seen |-> from + k - 1]
           log == [k \in 1..from |-> message(k)]
           batch == [k \in 1..(to - from) |-> later(k)]
           whole == [k \in 1..to |-> message(k)]
<1>1. Emit(0, from, 0) = log /\ Emit(from, to, from) = batch /\ Emit(0, to, 0) = whole
  <2>1. from - 0 = from /\ to - 0 = to
    OBVIOUS
  <2> QED BY <2>1 DEF Emit
<1>2. \A k \in Nat : k > 0 => message(k) \in Message /\ later(k) \in Message
  BY DEF Message
<1>3. ASSUME NEW k \in Nat, k > from PROVE later(k - from) = message(k)
  BY <1>3
<1> HIDE DEF message, later
<1>4. log \in Seq(Message) /\ Len(log) = from
  BY <1>2
<1>5. batch \in Seq(Message) /\ Len(batch) = to - from
  <2>1. to - from \in Nat
    OBVIOUS
  <2> QED BY <1>2, <2>1
<1>6. whole \in Seq(Message) /\ Len(whole) = to
  BY <1>2
<1>7. log \o batch \in Seq(Message) /\ Len(log \o batch) = to
  <2>1. from + (to - from) = to
    OBVIOUS
  <2> HIDE DEF log, batch
  <2> QED BY <1>4, <1>5, <2>1, ConcatProperties
<1>8. ASSUME NEW k \in 1..to PROVE (log \o batch)[k] = whole[k]
  <2>1. whole[k] = message(k)
    OBVIOUS
  <2>2. CASE k <= from
    <3>1. k \in 1..from /\ log[k] = message(k)
      BY <2>2
    <3> HIDE DEF log, batch, whole
    <3> QED BY <1>4, <1>5, <2>1, <3>1, ConcatProperties
  <2>3. CASE k > from
    <3>1. k - from \in 1..(to - from) /\ from + (k - from) = k
      BY <2>3
    <3>2. batch[k - from] = message(k)
      BY <1>3, <2>3, <3>1
    <3> HIDE DEF log, batch, whole
    <3>3. (log \o batch)[Len(log) + (k - from)] = batch[k - from]
      BY <1>4, <1>5, <3>1, ConcatProperties
    <3> QED BY <1>4, <2>1, <3>1, <3>2, <3>3
  <2> QED BY <2>2, <2>3
<1> HIDE DEF log, batch, whole
<1>9. log \o batch = whole
  BY <1>6, <1>7, <1>8, SeqEqual
<1> QED BY <1>1, <1>9

\* A commit moves the committed offset behind the records in hand.
LEMMA CommitMoves ==
    ASSUME TypeOK, StepInPlace, TransactionHolds,
           NEW i \in Instance, NEW p \in Partition, CommitBatch(i, p)
    PROVE  committed' = [committed EXCEPT ![p] = fetched[i][p].to]
  BY CommitStep DEF Committed

\* Who has a partition assigned is its owner, so nobody else has it.
LEMMA AssignedOwner ==
    ASSUME AssignedIsOwned, NEW i \in Instance, NEW p \in assigned[i]
    PROVE  owner[p] = i
  BY DEF AssignedIsOwned, OwnsAssigned, OwnedBy


\* start_pending_tasks holds the loop until the last start_task is done or one failed.
LEMMA StartingInPlaceStep ==
    ASSUME TypeOK, StepInPlace, StartingInPlace, Next
    PROVE  StartingInPlace'
<1> USE DEF TypeOK, LoopTypeOK, TaskTypeOK, BatchTypeOK, StartingInPlace, Starting
<1> SUFFICES ASSUME NEW j \in Instance, NEW q \in Partition,
                    status'[j][q] \in {"init", "fenced", "restored"}
             PROVE  pc'[j] \in {"starting", "unwinding"}
  OBVIOUS
<1>1. ASSUME NEW i \in Instance, OnRevoked(i) PROVE pc'[j] \in {"starting", "unwinding"}
  BY <1>1 DEF OnRevoked, CloseTasks, Tasks, Unassign, JoinGroup, Everywhere, txnVars, logVars,
     loopVars
<1>2. ASSUME NEW i \in Instance, OnRevokedFails(i) PROVE pc'[j] \in {"starting", "unwinding"}
  BY <1>2 DEF OnRevokedFails, CloseTasks, Tasks, Unassign, JoinGroup, Everywhere, txnVars,
     logVars
<1>3. ASSUME NEW i \in Instance, OnAssigned(i) PROVE pc'[j] \in {"starting", "unwinding"}
  BY <1>3 DEF OnAssigned, TakeAssignment, OwnedBy, Everywhere, txnVars, logVars, taskVars,
     batchVars
<1>4. ASSUME NEW i \in Instance, NEW p \in Partition, LookUpPosition(i, p)
      PROVE  pc'[j] \in {"starting", "unwinding"}
  BY <1>4 DEF LookUpPosition, txnVars, logVars, groupVars, loopVars, taskVars, batchVars
<1>5. ASSUME NEW i \in Instance, StartPendingTasks(i)
      PROVE  pc'[j] \in {"starting", "unwinding"}
  BY <1>5 DEF StartPendingTasks, txnVars, logVars, groupVars, batchVars, clientVars
<1>6. ASSUME NEW i \in Instance, NEW p \in Partition, FenceTask(i, p)
      PROVE  pc'[j] \in {"starting", "unwinding"}
  BY <1>6 DEF FenceTask, InitProducerId, logVars, groupVars, loopVars, batchVars, clientVars
<1>7. ASSUME NEW i \in Instance, NEW p \in Partition, RestoreTask(i, p)
      PROVE  pc'[j] \in {"starting", "unwinding"}
  BY <1>7 DEF RestoreTask, txnVars, logVars, groupVars, loopVars, batchVars, clientVars
<1>8. ASSUME NEW i \in Instance, NEW p \in Partition, RunTask(i, p)
      PROVE  pc'[j] \in {"starting", "unwinding"}
  BY <1>8 DEF RunTask, txnVars, logVars, groupVars, batchVars
<1>9. ASSUME NEW i \in Instance, NEW p \in Partition, StartTaskFails(i, p)
      PROVE  pc'[j] \in {"starting", "unwinding"}
  BY <1>9 DEF StartTaskFails, Starting, txnVars, logVars, groupVars, batchVars, clientVars
<1>10. ASSUME NEW i \in Instance, CallGetmany(i) PROVE pc'[j] \in {"starting", "unwinding"}
  BY <1>10 DEF CallGetmany, txnVars, logVars, groupVars, taskVars, batchVars, clientVars
<1>11. ASSUME NEW i \in Instance, GetmanyTimesOut(i)
       PROVE  pc'[j] \in {"starting", "unwinding"}
  BY <1>11 DEF GetmanyTimesOut, NextTop, txnVars, logVars, groupVars, taskVars, batchVars,
     clientVars
<1>12. ASSUME NEW i \in Instance, GetmanyReturns(i) PROVE pc'[j] \in {"starting", "unwinding"}
  BY <1>12 DEF GetmanyReturns, txnVars, logVars, groupVars, taskVars
<1>13. ASSUME NEW i \in Instance, BeginBatch(i) PROVE pc'[j] \in {"starting", "unwinding"}
  BY <1>13 DEF BeginBatch, Tasks, NextTop, txnVars, logVars, groupVars, taskVars, clientVars
<1>14. ASSUME NEW i \in Instance, TransformFails(i) PROVE pc'[j] \in {"starting", "unwinding"}
  BY <1>14 DEF TransformFails, Everywhere, txnVars, logVars, groupVars, taskVars, clientVars
<1>15. ASSUME NEW i \in Instance, NEW p \in Partition, WriteBatch(i, p)
       PROVE  pc'[j] \in {"starting", "unwinding"}
  BY <1>15 DEF WriteBatch, ProduceInTxn, logVars, groupVars, loopVars, clientVars
<1>16. ASSUME NEW i \in Instance, NEW p \in Partition, SendOffsets(i, p)
       PROVE  pc'[j] \in {"starting", "unwinding"}
  BY <1>16 DEF SendOffsets, AddOffset, logVars, groupVars, loopVars, taskVars, clientVars
<1>17. ASSUME NEW i \in Instance, NEW p \in Partition, CommitBatch(i, p)
       PROVE  pc'[j] \in {"starting", "unwinding"}
  <2>1. pc[i] \in {"batch", "unwinding"}
    BY <1>17 DEF CommitBatch, StepInPlace, InPlace
  <2> QED BY <1>17, <2>1 DEF CommitBatch, CommitTxn, NextTop, taskVars
<1>18. ASSUME NEW i \in Instance, NEW p \in Partition, BatchFenced(i, p)
       PROVE  pc'[j] \in {"starting", "unwinding"}
  BY <1>18 DEF BatchFenced, txnVars, logVars, groupVars, taskVars, clientVars
<1>19. ASSUME NEW i \in Instance, NEW p \in Partition, BatchFails(i, p)
       PROVE  pc'[j] \in {"starting", "unwinding"}
  BY <1>19 DEF BatchFails, AbortTxn, logVars, groupVars, taskVars, clientVars
<1>20. ASSUME NEW i \in Instance, Exit(i) PROVE pc'[j] \in {"starting", "unwinding"}
  BY <1>20 DEF Exit, ProcessGone, Everywhere, Unassign, Disconnect, txnVars, logVars
<1>21. ASSUME NEW i \in Instance, Crash(i) PROVE pc'[j] \in {"starting", "unwinding"}
  BY <1>21 DEF Crash, ProcessGone, Everywhere, Unassign, Disconnect, txnVars, logVars
<1>22. ASSUME NEW i \in Instance, Restart(i) PROVE pc'[j] \in {"starting", "unwinding"}
  BY <1>22 DEF Restart, Subscribe, txnVars, logVars, taskVars, batchVars, clientVars
<1>23. ASSUME NEW i \in Instance, EnterStage(i) PROVE pc'[j] \in {"starting", "unwinding"}
  BY <1>23 DEF EnterStage, NextTop, txnVars, logVars, groupVars, taskVars, batchVars,
     clientVars
<1>24. ASSUME NEW i \in Instance, GroupStep(i) PROVE pc'[j] \in {"starting", "unwinding"}
  BY <1>24 DEF GroupStep, NoticeRebalance, SessionExpires, Evict, RemoveMember, txnVars,
     logVars, loopVars, taskVars, batchVars, clientVars
<1>25. ASSUME NEW p \in Partition, TransactionTimesOut(p)
       PROVE  pc'[j] \in {"starting", "unwinding"}
  BY <1>25 DEF TransactionTimesOut, TxnTimeout, logVars, groupVars, loopVars, taskVars,
     batchVars, clientVars
<1>26. ASSUME RebalanceCompletes PROVE pc'[j] \in {"starting", "unwinding"}
  BY <1>26 DEF RebalanceCompletes, CompleteRebalance, txnVars, logVars, loopVars, taskVars,
     batchVars, clientVars
<1>27. ASSUME NEW i \in Instance, OnAssignedFails(i) PROVE pc'[j] \in {"starting", "unwinding"}
  BY <1>27 DEF OnAssignedFails, TakeAssignment, OwnedBy, Everywhere, txnVars, logVars, taskVars,
     batchVars
<1> QED
  BY <1>1, <1>2, <1>3, <1>4, <1>5, <1>6, <1>7, <1>8, <1>9, <1>10, <1>11, <1>12, <1>13, <1>14,
     <1>15, <1>16, <1>17, <1>18, <1>19, <1>20, <1>21, <1>22, <1>23, <1>24, <1>25, <1>26, <1>27
     DEF Next, ListenerStep, LoopStep, TaskStart, BatchStep, Lifecycle

\* Until a live member is evicted, a rebalance completes only after every member gave up
\* what it had, and what a member then takes is what the rebalance gave it.
LEMMA AssignedIsOwnedStep ==
    ASSUME TypeOK, AssignedIsOwned, Next, evictions = 0, evictions' = 0
    PROVE  AssignedIsOwned'
<1> USE DEF TypeOK, GroupTypeOK, ClientTypeOK, AssignedIsOwned, OwnsAssigned, OwnedBy
<1> SUFFICES ASSUME NEW j \in Instance PROVE OwnsAssigned(j)'
  OBVIOUS
<1>1. ASSUME NEW i \in Instance, OnRevoked(i) PROVE OwnsAssigned(j)'
  BY <1>1 DEF OnRevoked, CloseTasks, Tasks, Unassign, JoinGroup, Everywhere, txnVars, logVars,
     loopVars
<1>2. ASSUME NEW i \in Instance, OnRevokedFails(i) PROVE OwnsAssigned(j)'
  BY <1>2 DEF OnRevokedFails, CloseTasks, Tasks, Unassign, JoinGroup, Everywhere, txnVars,
     logVars
<1>3. ASSUME NEW i \in Instance, OnAssigned(i) PROVE OwnsAssigned(j)'
  BY <1>3 DEF OnAssigned, TakeAssignment, OwnedBy, Everywhere, txnVars, logVars, taskVars,
     batchVars
<1>4. ASSUME NEW i \in Instance, NEW p \in Partition, LookUpPosition(i, p)
      PROVE  OwnsAssigned(j)'
  BY <1>4 DEF LookUpPosition, txnVars, logVars, groupVars, loopVars, taskVars, batchVars
<1>5. ASSUME NEW i \in Instance, StartPendingTasks(i) PROVE OwnsAssigned(j)'
  BY <1>5 DEF StartPendingTasks, txnVars, logVars, groupVars, batchVars, clientVars
<1>6. ASSUME NEW i \in Instance, NEW p \in Partition, FenceTask(i, p) PROVE OwnsAssigned(j)'
  BY <1>6 DEF FenceTask, InitProducerId, logVars, groupVars, loopVars, batchVars, clientVars
<1>7. ASSUME NEW i \in Instance, NEW p \in Partition, RestoreTask(i, p) PROVE OwnsAssigned(j)'
  BY <1>7 DEF RestoreTask, txnVars, logVars, groupVars, loopVars, batchVars, clientVars
<1>8. ASSUME NEW i \in Instance, NEW p \in Partition, RunTask(i, p) PROVE OwnsAssigned(j)'
  BY <1>8 DEF RunTask, txnVars, logVars, groupVars, batchVars
<1>9. ASSUME NEW i \in Instance, NEW p \in Partition, StartTaskFails(i, p)
      PROVE  OwnsAssigned(j)'
  BY <1>9 DEF StartTaskFails, Starting, txnVars, logVars, groupVars, batchVars, clientVars
<1>10. ASSUME NEW i \in Instance, CallGetmany(i) PROVE OwnsAssigned(j)'
  BY <1>10 DEF CallGetmany, txnVars, logVars, groupVars, taskVars, batchVars, clientVars
<1>11. ASSUME NEW i \in Instance, GetmanyTimesOut(i) PROVE OwnsAssigned(j)'
  BY <1>11 DEF GetmanyTimesOut, NextTop, txnVars, logVars, groupVars, taskVars, batchVars,
     clientVars
<1>12. ASSUME NEW i \in Instance, GetmanyReturns(i) PROVE OwnsAssigned(j)'
  <2>1. PICK got \in [Fetchable(i) -> 0..MaxBatch] :
          position' = [position EXCEPT ![i] = [p \in Partition |->
              IF p \in Fetchable(i) THEN @[p] + got[p] ELSE @[p]]]
    BY <1>12 DEF GetmanyReturns
  <2>2. \A p \in Partition : position'[j][p] # Unset => p \in assigned[j]
    BY <2>1 DEF Fetchable
  <2> QED BY <1>12, <2>2 DEF GetmanyReturns, groupVars
<1>13. ASSUME NEW i \in Instance, BeginBatch(i) PROVE OwnsAssigned(j)'
  BY <1>13 DEF BeginBatch, Tasks, NextTop, txnVars, logVars, groupVars, taskVars, clientVars
<1>14. ASSUME NEW i \in Instance, TransformFails(i) PROVE OwnsAssigned(j)'
  BY <1>14 DEF TransformFails, Everywhere, txnVars, logVars, groupVars, taskVars, clientVars
<1>15. ASSUME NEW i \in Instance, NEW p \in Partition, WriteBatch(i, p) PROVE OwnsAssigned(j)'
  BY <1>15 DEF WriteBatch, ProduceInTxn, logVars, groupVars, loopVars, clientVars
<1>16. ASSUME NEW i \in Instance, NEW p \in Partition, SendOffsets(i, p)
       PROVE  OwnsAssigned(j)'
  BY <1>16 DEF SendOffsets, AddOffset, logVars, groupVars, loopVars, taskVars, clientVars
<1>17. ASSUME NEW i \in Instance, NEW p \in Partition, CommitBatch(i, p)
       PROVE  OwnsAssigned(j)'
  BY <1>17 DEF CommitBatch, CommitTxn, NextTop, groupVars, taskVars, clientVars
<1>18. ASSUME NEW i \in Instance, NEW p \in Partition, BatchFenced(i, p)
       PROVE  OwnsAssigned(j)'
  BY <1>18 DEF BatchFenced, txnVars, logVars, groupVars, taskVars, clientVars
<1>19. ASSUME NEW i \in Instance, NEW p \in Partition, BatchFails(i, p) PROVE OwnsAssigned(j)'
  BY <1>19 DEF BatchFails, AbortTxn, logVars, groupVars, taskVars, clientVars
<1>20. ASSUME NEW i \in Instance, Exit(i) PROVE OwnsAssigned(j)'
  BY <1>20 DEF Exit, ProcessGone, Everywhere, Unassign, Disconnect, txnVars, logVars
<1>21. ASSUME NEW i \in Instance, Crash(i) PROVE OwnsAssigned(j)'
  BY <1>21 DEF Crash, ProcessGone, Everywhere, Unassign, Disconnect, txnVars, logVars
<1>22. ASSUME NEW i \in Instance, Restart(i) PROVE OwnsAssigned(j)'
  BY <1>22 DEF Restart, Subscribe, txnVars, logVars, taskVars, batchVars, clientVars
<1>23. ASSUME NEW i \in Instance, EnterStage(i) PROVE OwnsAssigned(j)'
  BY <1>23 DEF EnterStage, NextTop, txnVars, logVars, groupVars, taskVars, batchVars,
     clientVars
<1>24. ASSUME NEW i \in Instance, GroupStep(i) PROVE OwnsAssigned(j)'
  <2> USE <1>24 DEF GroupStep, clientVars
  <2>1. CASE NoticeRebalance(i)
    BY <2>1 DEF NoticeRebalance
  <2>2. CASE SessionExpires(i)
    BY <2>2 DEF SessionExpires, RemoveMember
  <2>3. CASE Evict(i)
    BY <2>3 DEF Evict
  <2> QED BY <2>1, <2>2, <2>3
<1>25. ASSUME NEW p \in Partition, TransactionTimesOut(p) PROVE OwnsAssigned(j)'
  BY <1>25 DEF TransactionTimesOut, TxnTimeout, logVars, groupVars, loopVars, taskVars,
     batchVars, clientVars
<1>26. ASSUME RebalanceCompletes PROVE OwnsAssigned(j)'
  BY <1>26 DEF RebalanceCompletes, CompleteRebalance, txnVars, logVars, loopVars, taskVars,
     batchVars, clientVars
<1>27. ASSUME NEW i \in Instance, OnAssignedFails(i) PROVE OwnsAssigned(j)'
  BY <1>27 DEF OnAssignedFails, TakeAssignment, OwnedBy, Everywhere, txnVars, logVars, taskVars,
     batchVars
<1> QED
  BY <1>1, <1>2, <1>3, <1>4, <1>5, <1>6, <1>7, <1>8, <1>9, <1>10, <1>11, <1>12, <1>13, <1>14,
     <1>15, <1>16, <1>17, <1>18, <1>19, <1>20, <1>21, <1>22, <1>23, <1>24, <1>25, <1>26, <1>27
     DEF Next, ListenerStep, LoopStep, TaskStart, BatchStep, Lifecycle

\* The records in hand stay those from the committed offset on: only who has the
\* partition assigned commits for it, and there is one who has.
LEMMA HeldFromCommittedStep ==
    ASSUME TypeOK, StepInPlace, StartingInPlace, ResumedHasTask, TransactionHolds,
           AssignedIsOwned, HeldFromCommitted, PositionCommitted, Next
    PROVE  HeldFromCommitted'
<1> USE DEF TypeOK, TxnTypeOK, LoopTypeOK, TaskTypeOK, BatchTypeOK, ClientTypeOK,
        HeldFromCommitted, FromCommitted
<1> SUFFICES ASSUME NEW j \in Instance, NEW q \in Partition, Holding(j, q)'
             PROVE  FromCommitted(j, q)'
  OBVIOUS
<1> USE DEF Holding, NonEmpty
<1>1. ASSUME NEW i \in Instance, OnRevoked(i) PROVE FromCommitted(j, q)'
  BY <1>1 DEF OnRevoked, CloseTasks, Tasks, Unassign, JoinGroup, Everywhere, txnVars, logVars,
     loopVars
<1>2. ASSUME NEW i \in Instance, OnRevokedFails(i) PROVE FromCommitted(j, q)'
  BY <1>2 DEF OnRevokedFails, CloseTasks, Tasks, Unassign, JoinGroup, Everywhere, txnVars,
     logVars
<1>3. ASSUME NEW i \in Instance, OnAssigned(i) PROVE FromCommitted(j, q)'
  <2>1. listener[i] = "joining" /\ assigned[i] = {}
    BY <1>3 DEF OnAssigned, TakeAssignment, AssignedIsOwned, OwnsAssigned
  <2>2. j # i
    BY <1>3, <2>1 DEF OnAssigned, taskVars, batchVars
  <2> QED BY <1>3, <2>2 DEF OnAssigned, txnVars, logVars, taskVars, batchVars
<1>4. ASSUME NEW i \in Instance, NEW p \in Partition, LookUpPosition(i, p)
      PROVE  FromCommitted(j, q)'
  <2>1. Holding(j, q)
    BY <1>4 DEF LookUpPosition, taskVars, batchVars, loopVars
  <2>2. position[j][q] # Unset
    <3>1. fetched[j][q].to \in Nat
      BY SliceFields
    <3> QED BY <2>1, <3>1 DEF Unset
  <2> QED BY <1>4, <2>1, <2>2 DEF LookUpPosition, txnVars, logVars, batchVars
<1>5. ASSUME NEW i \in Instance, StartPendingTasks(i) PROVE FromCommitted(j, q)'
  BY <1>5 DEF StartPendingTasks, txnVars, logVars, groupVars, batchVars, clientVars
<1>6. ASSUME NEW i \in Instance, NEW p \in Partition, FenceTask(i, p)
      PROVE  FromCommitted(j, q)'
  BY <1>6 DEF FenceTask, InitProducerId, logVars, groupVars, loopVars, batchVars, clientVars
<1>7. ASSUME NEW i \in Instance, NEW p \in Partition, RestoreTask(i, p)
      PROVE  FromCommitted(j, q)'
  BY <1>7 DEF RestoreTask, txnVars, logVars, groupVars, loopVars, batchVars, clientVars
<1>8. ASSUME NEW i \in Instance, NEW p \in Partition, RunTask(i, p) PROVE FromCommitted(j, q)'
  <2>1. pc[i] \in {"starting", "unwinding"}
    BY <1>8 DEF RunTask, StartingInPlace, Starting
  <2>2. step[i][p] = "none"
    BY <1>8 DEF RunTask, StepInPlace, InPlace
  <2> QED BY <1>8, <2>1, <2>2 DEF RunTask, txnVars, logVars, batchVars
<1>9. ASSUME NEW i \in Instance, NEW p \in Partition, StartTaskFails(i, p)
      PROVE  FromCommitted(j, q)'
  BY <1>9 DEF StartTaskFails, Starting, txnVars, logVars, groupVars, batchVars, clientVars
<1>10. ASSUME NEW i \in Instance, CallGetmany(i) PROVE FromCommitted(j, q)'
  BY <1>10 DEF CallGetmany, txnVars, logVars, groupVars, taskVars, batchVars, clientVars
<1>11. ASSUME NEW i \in Instance, GetmanyTimesOut(i) PROVE FromCommitted(j, q)'
  BY <1>11 DEF GetmanyTimesOut, NextTop, txnVars, logVars, groupVars, taskVars, batchVars,
     clientVars
<1>12. ASSUME NEW i \in Instance, GetmanyReturns(i) PROVE FromCommitted(j, q)'
  <2>1. CASE i # j
    BY <1>12, <2>1 DEF GetmanyReturns, txnVars, logVars, taskVars
  <2>2. CASE i = j
    <3>1. PICK got \in [Fetchable(i) -> 0..MaxBatch] :
            /\ fetched' = [fetched EXCEPT ![i] = [x \in Partition |->
                   IF x \in Fetchable(i)
                   THEN [from |-> position[i][x], to |-> position[i][x] + got[x]]
                   ELSE NoSlice]]
            /\ position' = [position EXCEPT ![i] = [x \in Partition |->
                   IF x \in Fetchable(i) THEN @[x] + got[x] ELSE @[x]]]
      BY <1>12 DEF GetmanyReturns
    <3>2. q \in Fetchable(i)
      BY <2>2, <3>1 DEF NoSlice
    <3>3. position[j][q] = committed[q]
      <4>1. ~Holding(j, q) /\ pc[j] = "polling"
        BY <1>12, <2>2 DEF GetmanyReturns, StepInPlace, InPlace
      <4> QED BY <2>2, <3>2, <4>1 DEF PositionCommitted, AtCommitted, LastBatch, Fetchable
    <3> QED BY <1>12, <2>2, <3>1, <3>2, <3>3 DEF GetmanyReturns, Fetchable, txnVars, logVars
  <2> QED BY <2>1, <2>2
<1>13. ASSUME NEW i \in Instance, BeginBatch(i) PROVE FromCommitted(j, q)'
  BY <1>13 DEF BeginBatch, Tasks, NextTop, txnVars, logVars, groupVars, taskVars, clientVars
<1>14. ASSUME NEW i \in Instance, TransformFails(i) PROVE FromCommitted(j, q)'
  BY <1>14 DEF TransformFails, Everywhere, txnVars, logVars, groupVars, taskVars, clientVars
<1>15. ASSUME NEW i \in Instance, NEW p \in Partition, WriteBatch(i, p)
       PROVE  FromCommitted(j, q)'
  BY <1>15 DEF WriteBatch, ProduceInTxn, logVars, groupVars, loopVars, clientVars
<1>16. ASSUME NEW i \in Instance, NEW p \in Partition, SendOffsets(i, p)
       PROVE  FromCommitted(j, q)'
  BY <1>16 DEF SendOffsets, AddOffset, logVars, groupVars, loopVars, taskVars, clientVars
<1>17. ASSUME NEW i \in Instance, NEW p \in Partition, CommitBatch(i, p)
       PROVE  FromCommitted(j, q)'
  <2>a. committed' = [committed EXCEPT ![p] = fetched[i][p].to]
    BY <1>17, CommitMoves
  <2>1. /\ committed' = [committed EXCEPT ![p] = fetched[i][p].to]
        /\ fetched' = [fetched EXCEPT ![i][p] = NoSlice]
        /\ UNCHANGED <<status, assigned, position>>
    BY <1>17, <2>a DEF CommitBatch, taskVars, clientVars
  <2>2. i # j \/ p # q
    BY <2>1 DEF NoSlice
  <2>3. Holding(j, q)
    BY <1>17, <2>1, <2>2 DEF CommitBatch, NextTop
  <2>4. p # q
    <3>1. Holding(i, p)
      BY <1>17 DEF CommitBatch, StepInPlace, InPlace
    <3>2. p \in assigned[i] /\ q \in assigned[j]
      BY <2>3, <3>1
    <3>3. owner[p] = i /\ owner[q] = j
      BY <3>2, AssignedOwner
    <3> QED BY <2>2, <3>3
  <2> HIDE DEF Holding
  <2> QED BY <2>1, <2>3, <2>4
<1>18. ASSUME NEW i \in Instance, NEW p \in Partition, BatchFenced(i, p)
       PROVE  FromCommitted(j, q)'
  BY <1>18 DEF BatchFenced, txnVars, logVars, groupVars, taskVars, clientVars
<1>19. ASSUME NEW i \in Instance, NEW p \in Partition, BatchFails(i, p)
       PROVE  FromCommitted(j, q)'
  BY <1>19 DEF BatchFails, AbortTxn, logVars, groupVars, taskVars, clientVars
<1>20. ASSUME NEW i \in Instance, Exit(i) PROVE FromCommitted(j, q)'
  BY <1>20 DEF Exit, ProcessGone, Everywhere, Unassign, Disconnect, txnVars, logVars
<1>21. ASSUME NEW i \in Instance, Crash(i) PROVE FromCommitted(j, q)'
  BY <1>21 DEF Crash, ProcessGone, Everywhere, Unassign, Disconnect, txnVars, logVars
<1>22. ASSUME NEW i \in Instance, Restart(i) PROVE FromCommitted(j, q)'
  BY <1>22 DEF Restart, Subscribe, txnVars, logVars, taskVars, batchVars, clientVars
<1>23. ASSUME NEW i \in Instance, EnterStage(i) PROVE FromCommitted(j, q)'
  BY <1>23 DEF EnterStage, NextTop, txnVars, logVars, groupVars, taskVars, batchVars,
     clientVars
<1>24. ASSUME NEW i \in Instance, GroupStep(i) PROVE FromCommitted(j, q)'
  BY <1>24 DEF GroupStep, NoticeRebalance, SessionExpires, Evict, RemoveMember, txnVars,
     logVars, loopVars, taskVars, batchVars, clientVars
<1>25. ASSUME NEW p \in Partition, TransactionTimesOut(p) PROVE FromCommitted(j, q)'
  BY <1>25 DEF TransactionTimesOut, TxnTimeout, logVars, groupVars, loopVars, taskVars,
     batchVars, clientVars
<1>26. ASSUME RebalanceCompletes PROVE FromCommitted(j, q)'
  BY <1>26 DEF RebalanceCompletes, CompleteRebalance, txnVars, logVars, loopVars, taskVars,
     batchVars, clientVars
<1>27. ASSUME NEW i \in Instance, OnAssignedFails(i) PROVE FromCommitted(j, q)'
  <2>1. listener[i] = "joining" /\ assigned[i] = {}
    BY <1>27 DEF OnAssignedFails, TakeAssignment, AssignedIsOwned, OwnsAssigned
  <2>2. j # i
    BY <1>27, <2>1 DEF OnAssignedFails, taskVars, batchVars
  <2> QED BY <1>27, <2>2 DEF OnAssignedFails, txnVars, logVars, taskVars, batchVars
<1> QED
  BY <1>1, <1>2, <1>3, <1>4, <1>5, <1>6, <1>7, <1>8, <1>9, <1>10, <1>11, <1>12, <1>13, <1>14,
     <1>15, <1>16, <1>17, <1>18, <1>19, <1>20, <1>21, <1>22, <1>23, <1>24, <1>25, <1>26, <1>27
     DEF Next, ListenerStep, LoopStep, TaskStart, BatchStep, Lifecycle

\* A position stays at the committed offset until records are in hand from there, and is
\* there again when they are committed.
LEMMA PositionCommittedStep ==
    ASSUME TypeOK, TypeOK', StepInPlace, StartingInPlace, ResumedHasTask, TransactionHolds,
           AssignedIsOwned, HeldFromCommitted, PositionCommitted, Next
    PROVE  PositionCommitted'
<1> USE DEF TypeOK, TxnTypeOK, LoopTypeOK, TaskTypeOK, BatchTypeOK, ClientTypeOK,
        PositionCommitted, AtCommitted, LastBatch
<1> SUFFICES ASSUME NEW j \in Instance, NEW q \in Partition PROVE AtCommitted(j, q)'
  OBVIOUS
<1>a. AtCommitted(j, q)
  OBVIOUS
<1> USE DEF Holding, NonEmpty
<1>1. ASSUME NEW i \in Instance, OnRevoked(i) PROVE AtCommitted(j, q)'
  BY <1>1, <1>a DEF OnRevoked, CloseTasks, Tasks, Unassign, JoinGroup, Everywhere, txnVars,
     logVars, loopVars
<1>2. ASSUME NEW i \in Instance, OnRevokedFails(i) PROVE AtCommitted(j, q)'
  BY <1>2, <1>a DEF OnRevokedFails, CloseTasks, Tasks, Unassign, JoinGroup, Everywhere,
     txnVars, logVars
<1>3. ASSUME NEW i \in Instance, OnAssigned(i) PROVE AtCommitted(j, q)'
  BY <1>3, <1>a DEF OnAssigned, TakeAssignment, OwnedBy, Everywhere, txnVars, logVars,
     taskVars, batchVars
<1>4. ASSUME NEW i \in Instance, NEW p \in Partition, LookUpPosition(i, p)
      PROVE  AtCommitted(j, q)'
  BY <1>4, <1>a DEF LookUpPosition, txnVars, logVars, groupVars, loopVars, taskVars, batchVars
<1>5. ASSUME NEW i \in Instance, StartPendingTasks(i) PROVE AtCommitted(j, q)'
  <2>1. CASE i # j
    BY <1>5, <2>1, <1>a DEF StartPendingTasks, txnVars, logVars, batchVars, clientVars
  <2>2. CASE i = j
    <3>1. ~Holding(j, q)
      BY <1>5, <2>2 DEF StartPendingTasks, StepInPlace, InPlace
    <3> QED BY <1>5, <2>2, <3>1, <1>a DEF StartPendingTasks, txnVars, logVars, clientVars
  <2> QED BY <2>1, <2>2
<1>6. ASSUME NEW i \in Instance, NEW p \in Partition, FenceTask(i, p) PROVE AtCommitted(j, q)'
  BY <1>6, <1>a DEF FenceTask, InitProducerId, logVars, groupVars, loopVars, batchVars,
     clientVars
<1>7. ASSUME NEW i \in Instance, NEW p \in Partition, RestoreTask(i, p)
      PROVE  AtCommitted(j, q)'
  BY <1>7, <1>a DEF RestoreTask, txnVars, logVars, groupVars, loopVars, batchVars, clientVars
<1>8. ASSUME NEW i \in Instance, NEW p \in Partition, RunTask(i, p) PROVE AtCommitted(j, q)'
  <2>1. pc[i] \in {"starting", "unwinding"}
    BY <1>8 DEF RunTask, StartingInPlace, Starting
  <2>2. step[i][p] = "none"
    BY <1>8 DEF RunTask, StepInPlace, InPlace
  <2>3. CASE i # j
    BY <1>8, <2>3, <1>a DEF RunTask, txnVars, logVars, batchVars
  <2>4. CASE i = j
    BY <1>8, <2>1, <2>2, <2>4, <1>a DEF RunTask, txnVars, logVars, batchVars
  <2> QED BY <2>3, <2>4
<1>9. ASSUME NEW i \in Instance, NEW p \in Partition, StartTaskFails(i, p)
      PROVE  AtCommitted(j, q)'
  BY <1>9, <1>a DEF StartTaskFails, Starting, txnVars, logVars, groupVars, batchVars,
     clientVars
<1>10. ASSUME NEW i \in Instance, CallGetmany(i) PROVE AtCommitted(j, q)'
  BY <1>10, <1>a DEF CallGetmany, txnVars, logVars, groupVars, taskVars, batchVars, clientVars
<1>11. ASSUME NEW i \in Instance, GetmanyTimesOut(i) PROVE AtCommitted(j, q)'
  BY <1>11, <1>a DEF GetmanyTimesOut, NextTop, txnVars, logVars, groupVars, taskVars,
     batchVars, clientVars
<1>12. ASSUME NEW i \in Instance, GetmanyReturns(i) PROVE AtCommitted(j, q)'
  <2>1. CASE i # j
    BY <1>12, <2>1, <1>a DEF GetmanyReturns, txnVars, logVars, taskVars
  <2>2. CASE i = j
    <3>1. PICK got \in [Fetchable(i) -> 0..MaxBatch] :
            /\ fetched' = [fetched EXCEPT ![i] = [x \in Partition |->
                   IF x \in Fetchable(i)
                   THEN [from |-> position[i][x], to |-> position[i][x] + got[x]]
                   ELSE NoSlice]]
            /\ position' = [position EXCEPT ![i] = [x \in Partition |->
                   IF x \in Fetchable(i) THEN @[x] + got[x] ELSE @[x]]]
      BY <1>12 DEF GetmanyReturns
    <3>2. position[j][q] \in {Unset, committed[q]}
      BY <1>12, <2>2, <1>a DEF GetmanyReturns, StepInPlace, InPlace
    <3>3. CASE q \notin Fetchable(i)
      BY <1>12, <2>2, <3>1, <3>2, <3>3 DEF GetmanyReturns, txnVars, logVars
    <3>4. CASE q \in Fetchable(i)
      <4>1. /\ got[q] \in Nat /\ position[j][q] \in Int
            /\ position'[j][q] = position[j][q] + got[q]
            /\ fetched'[j][q].from = position[j][q]
            /\ fetched'[j][q].to = position[j][q] + got[q]
        BY <2>2, <3>1, <3>4, TransformerAssumption, RecordsAssumption DEF Offset, Unset
      <4>2. /\ pc'[j] = "drain"
            /\ status'[j][q] = "running" \/ fatal'[j]
        BY <1>12, <2>2, <3>4 DEF GetmanyReturns, Fetchable, ResumedHasTask, HasTask, taskVars
      <4>3. CASE got[q] = 0
        BY <1>12, <3>2, <4>1, <4>3 DEF GetmanyReturns, txnVars, logVars
      <4>4. CASE got[q] > 0
        BY <4>1, <4>2, <4>4
      <4> QED BY <4>1, <4>3, <4>4
    <3> QED BY <3>3, <3>4
  <2> QED BY <2>1, <2>2
<1>13. ASSUME NEW i \in Instance, BeginBatch(i) PROVE AtCommitted(j, q)'
  <2>1. CASE i # j
    BY <1>13, <2>1, <1>a DEF BeginBatch, NextTop, txnVars, logVars, taskVars, clientVars
  <2>2. CASE i = j /\ ~Holding(j, q)
    <3>1. position[j][q] \in {Unset, committed[q]} \/ fatal[j]
      BY <1>13, <2>2, <1>a DEF BeginBatch
    <3> QED BY <1>13, <2>2, <3>1 DEF BeginBatch, NextTop, txnVars, logVars, clientVars
  <2>3. CASE i = j /\ Holding(j, q)
    <3>1. q \in {x \in Tasks(i) : NonEmpty(fetched[i][x])}
      BY <2>3 DEF Tasks
    <3>2. /\ fetched'[j][q] = fetched[j][q] /\ step'[j][q] = "todo"
          /\ status' = status
      BY <1>13, <2>3, <3>1 DEF BeginBatch, taskVars
    <3> QED BY <2>3, <3>2
  <2> QED BY <2>1, <2>2, <2>3
<1>14. ASSUME NEW i \in Instance, TransformFails(i) PROVE AtCommitted(j, q)'
  BY <1>14, <1>a DEF TransformFails, Everywhere, txnVars, logVars, groupVars, taskVars,
     clientVars
<1>15. ASSUME NEW i \in Instance, NEW p \in Partition, WriteBatch(i, p)
       PROVE  AtCommitted(j, q)'
  BY <1>15, <1>a DEF WriteBatch, ProduceInTxn, logVars, groupVars, loopVars, clientVars
<1>16. ASSUME NEW i \in Instance, NEW p \in Partition, SendOffsets(i, p)
       PROVE  AtCommitted(j, q)'
  BY <1>16, <1>a DEF SendOffsets, AddOffset, logVars, groupVars, loopVars, taskVars,
     clientVars
<1>17. ASSUME NEW i \in Instance, NEW p \in Partition, CommitBatch(i, p)
       PROVE  AtCommitted(j, q)'
  <2>a. committed' = [committed EXCEPT ![p] = fetched[i][p].to]
    BY <1>17, CommitMoves
  <2>1. /\ committed' = [committed EXCEPT ![p] = fetched[i][p].to]
        /\ fetched' = [fetched EXCEPT ![i][p] = NoSlice]
        /\ step' = [step EXCEPT ![i][p] = "none"]
        /\ UNCHANGED <<status, assigned, position>>
    BY <1>17, <2>a DEF CommitBatch, taskVars, clientVars
  <2>2. /\ Holding(i, p) /\ FromCommitted(i, p)
        /\ pc[i] \in {"batch", "unwinding"} /\ step[i][p] # "none"
    <3>1. Holding(i, p) /\ pc[i] \in {"batch", "unwinding"} /\ step[i][p] # "none"
      BY <1>17 DEF CommitBatch, StepInPlace, InPlace
    <3> QED BY <3>1 DEF HeldFromCommitted
  <2>3. CASE i = j /\ p = q
    <3>1. position'[j][q] = committed'[q]
      BY <2>1, <2>2, <2>3 DEF FromCommitted
    <3> QED BY <3>1
  <2>4. CASE i = j /\ p # q
    <3>1. committed'[q] = committed[q] /\ position'[j][q] = position[j][q]
      BY <2>1, <2>4
    <3>2. CASE position[j][q] \in {Unset, committed[q]}
      BY <3>1, <3>2
    <3>3. CASE pc[j] = "unwinding" \/ LastBatch(j)
      BY <1>17, <2>4, <3>3 DEF CommitBatch, NextTop
    <3>4. CASE pc[j] = "batch" /\ Holding(j, q)
      <4>1. pc'[j] = "batch"
        BY <1>17, <2>4, <3>4 DEF CommitBatch
      <4> QED BY <2>1, <2>4, <3>4, <4>1
    <3> QED BY <1>a, <2>2, <2>4, <3>2, <3>3, <3>4
  <2>5. CASE i # j
    <3>1. pc'[j] = pc[j]
      <4>1. UNCHANGED pc \/ NextTop(i)
        BY <1>17 DEF CommitBatch
      <4>2. CASE UNCHANGED pc
        BY <4>2
      <4>3. CASE NextTop(i)
        BY <2>5, <4>3 DEF NextTop
      <4> QED BY <4>1, <4>2, <4>3
    <3>2. /\ fetched'[j][q] = fetched[j][q] /\ step'[j][q] = step[j][q]
          /\ fatal' = fatal
      BY <1>17, <2>1, <2>5 DEF CommitBatch
    <3>3. CASE p # q
      BY <1>a, <2>1, <3>1, <3>2, <3>3
    <3>4. CASE p = q
      <4>1. q \notin assigned[j]
        <5>1. owner[p] = i
          BY <2>2, AssignedOwner DEF FromCommitted
        <5> QED BY <2>5, <3>4, <5>1, AssignedOwner
      <4>2. position[j][q] = Unset
        BY <4>1 DEF AssignedIsOwned, OwnsAssigned
      <4> QED BY <2>1, <4>2
    <3> QED BY <3>3, <3>4
  <2> QED BY <2>3, <2>4, <2>5
<1>18. ASSUME NEW i \in Instance, NEW p \in Partition, BatchFenced(i, p)
       PROVE  AtCommitted(j, q)'
  BY <1>18, <1>a DEF BatchFenced, txnVars, logVars, groupVars, taskVars, clientVars
<1>19. ASSUME NEW i \in Instance, NEW p \in Partition, BatchFails(i, p)
       PROVE  AtCommitted(j, q)'
  BY <1>19, <1>a DEF BatchFails, AbortTxn, logVars, groupVars, taskVars, clientVars
<1>20. ASSUME NEW i \in Instance, Exit(i) PROVE AtCommitted(j, q)'
  BY <1>20, <1>a DEF Exit, ProcessGone, Everywhere, Unassign, Disconnect, txnVars, logVars
<1>21. ASSUME NEW i \in Instance, Crash(i) PROVE AtCommitted(j, q)'
  BY <1>21, <1>a DEF Crash, ProcessGone, Everywhere, Unassign, Disconnect, txnVars, logVars
<1>22. ASSUME NEW i \in Instance, Restart(i) PROVE AtCommitted(j, q)'
  BY <1>22, <1>a DEF Restart, Subscribe, txnVars, logVars, taskVars, batchVars, clientVars
<1>23. ASSUME NEW i \in Instance, EnterStage(i) PROVE AtCommitted(j, q)'
  BY <1>23, <1>a DEF EnterStage, NextTop, txnVars, logVars, groupVars, taskVars, batchVars,
     clientVars
<1>24. ASSUME NEW i \in Instance, GroupStep(i) PROVE AtCommitted(j, q)'
  BY <1>24, <1>a DEF GroupStep, NoticeRebalance, SessionExpires, Evict, RemoveMember, txnVars,
     logVars, loopVars, taskVars, batchVars, clientVars
<1>25. ASSUME NEW p \in Partition, TransactionTimesOut(p) PROVE AtCommitted(j, q)'
  BY <1>25, <1>a DEF TransactionTimesOut, TxnTimeout, logVars, groupVars, loopVars, taskVars,
     batchVars, clientVars
<1>26. ASSUME RebalanceCompletes PROVE AtCommitted(j, q)'
  BY <1>26, <1>a DEF RebalanceCompletes, CompleteRebalance, txnVars, logVars, loopVars,
     taskVars, batchVars, clientVars
<1>27. ASSUME NEW i \in Instance, OnAssignedFails(i) PROVE AtCommitted(j, q)'
  BY <1>27, <1>a DEF OnAssignedFails, TakeAssignment, OwnedBy, Everywhere, txnVars, logVars,
     taskVars, batchVars
<1> QED
  BY <1>1, <1>2, <1>3, <1>4, <1>5, <1>6, <1>7, <1>8, <1>9, <1>10, <1>11, <1>12, <1>13, <1>14,
     <1>15, <1>16, <1>17, <1>18, <1>19, <1>20, <1>21, <1>22, <1>23, <1>24, <1>25, <1>26, <1>27
     DEF Next, ListenerStep, LoopStep, TaskStart, BatchStep, Lifecycle

\* Evictions are only counted up.
LEMMA EvictionsStep ==
    ASSUME TypeOK, Next, evictions' = 0
    PROVE  evictions = 0
<1>1. evictions \in Nat
  BY GroupAssumption DEF TypeOK, GroupTypeOK
<1>2. ASSUME NEW i \in Instance, ListenerStep(i) PROVE evictions' = evictions
  BY <1>2 DEF ListenerStep, OnRevoked, OnRevokedFails, OnAssigned, OnAssignedFails, LookUpPosition,
     JoinGroup,
     TakeAssignment, groupVars
<1>3. ASSUME NEW i \in Instance, NEW p \in Partition, TaskStart(i, p) \/ BatchStep(i, p)
      PROVE  evictions' = evictions
  BY <1>3 DEF TaskStart, FenceTask, RestoreTask, RunTask, StartTaskFails, BatchStep, WriteBatch,
     SendOffsets, CommitBatch, BatchFenced, BatchFails, groupVars
<1>4. ASSUME NEW i \in Instance, LoopStep(i) PROVE evictions' = evictions
  BY <1>3, <1>4 DEF LoopStep, StartPendingTasks, CallGetmany, GetmanyTimesOut, GetmanyReturns,
     BeginBatch, TransformFails, groupVars
<1>5. ASSUME NEW i \in Instance, Lifecycle(i) PROVE evictions' = evictions
  BY <1>5 DEF Lifecycle, Exit, Crash, ProcessGone, Disconnect, Restart, Subscribe, EnterStage,
     groupVars
<1>6. ASSUME NEW i \in Instance, GroupStep(i) PROVE evictions' \in {evictions, evictions + 1}
  BY <1>6 DEF GroupStep, NoticeRebalance, SessionExpires, Evict
<1>7. ASSUME NEW p \in Partition, TransactionTimesOut(p) PROVE evictions' = evictions
  BY <1>7 DEF TransactionTimesOut, groupVars
<1>8. ASSUME RebalanceCompletes PROVE evictions' = evictions
  BY <1>8 DEF RebalanceCompletes, CompleteRebalance
<1> QED BY <1>1, <1>2, <1>4, <1>5, <1>6, <1>7, <1>8 DEF Next

\* A batch that starts at the committed offset extends the outputs up to there by the
\* outputs of the records behind it.
LEMMA CommitContinues ==
    ASSUME TypeOK, StepInPlace, TransactionHolds, StateMatchesOutput, HeldFromCommitted,
           ExactlyOnce, NEW i \in Instance, NEW p \in Partition, CommitBatch(i, p)
    PROVE  /\ fetched[i][p].from = committed[p]
           /\ ExactlyOnce'
<1>1. fetched[i][p].from = committed[p]
  <2>1. Holding(i, p)
    BY DEF CommitBatch, StepInPlace, InPlace, Holding
  <2> QED BY <2>1 DEF HeldFromCommitted, FromCommitted
<1>2. PICK batch \in Seq(Message), from \in Nat, to \in Nat :
         /\ from = fetched[i][p].from /\ to = fetched[i][p].to
         /\ Committed(p, batch, from, to)
  BY CommitStep
<1>3. output[p] = Emit(0, from, 0)
  BY <1>1, <1>2 DEF ExactlyOnce
<1>4. changelog[p] = from
  <2>1. CASE from = 0
    <3>1. output[p] = [k \in 1..0 |-> [record |-> 0 + k, seen |-> 0 + k - 1]]
      BY <1>3, <2>1 DEF Emit
    <3>2. Len(output[p]) = 0
      BY <3>1
    <3> QED BY <2>1, <3>2 DEF StateMatchesOutput
  <2>2. CASE from > 0
    <3>1. from - 0 = from
      OBVIOUS
    <3>2. Len(Emit(0, from, 0)) = from
      BY <2>2, <3>1, EmitType
    <3> QED BY <1>3, <3>2 DEF StateMatchesOutput
  <2> QED BY <1>2, <2>1, <2>2
<1>5. SUFFICES ASSUME NEW q \in Partition PROVE output'[q] = Emit(0, committed'[q], 0)
  BY <1>1 DEF ExactlyOnce
<1>6. output \in [Partition -> Seq(Message)] /\ committed \in [Partition -> Offset]
  BY DEF TypeOK, TxnTypeOK
<1>7. CASE p = q
  <2>1. output'[q] = Emit(0, from, 0) \o Emit(from, to, from) /\ committed'[q] = to
    BY <1>2, <1>3, <1>4, <1>6, <1>7 DEF Committed
  <2> QED BY <1>2, <2>1, EmitAppends DEF Committed
<1>8. CASE p # q
  BY <1>2, <1>6, <1>8 DEF Committed, ExactlyOnce
<1> QED BY <1>7, <1>8

\* Exactly-once is kept: a commit continues what is downstream, nothing else is visible.
LEMMA ExactlyOnceStep ==
    ASSUME TypeOK, StepInPlace, TransactionHolds, StateMatchesOutput, HeldFromCommitted,
           ExactlyOnce, Next
    PROVE  ExactlyOnce'
<1>1. CASE UNCHANGED logVars
  BY <1>1 DEF ExactlyOnce, logVars
<1>2. ASSUME NEW i \in Instance, NEW p \in Partition, CommitBatch(i, p) PROVE ExactlyOnce'
  BY <1>2, CommitContinues
<1> QED BY <1>1, <1>2, LogsStep

\* No records have no outputs.
LEMMA EmitNothing == Emit(0, 0, 0) = <<>>
<1> DEFINE message(k) == [record |-> 0 + k, seen |-> 0 + k - 1]
           log(n) == [k \in 1..n |-> message(k)]
<1>1. Emit(0, 0, 0) = log(0)
  <2>1. 0 - 0 = 0
    OBVIOUS
  <2> QED BY <2>1 DEF Emit
<1>2. \A n \in Nat : (\A k \in 1..n : message(k) \in Message)
                    => log(n) \in Seq(Message) /\ Len(log(n)) = n
  <2> HIDE DEF message
  <2> QED OBVIOUS
<1>3. \A k \in 1..0 : message(k) \in Message
  OBVIOUS
<1> HIDE DEF message, log
<1>4. log(0) \in Seq(Message) /\ Len(log(0)) = 0
  BY <1>2, <1>3
<1> QED BY <1>1, <1>4, EmptySeq

\* Before the first process starts nothing is assigned, in hand or downstream.
LEMMA OnceInit ==
    ASSUME Init
    PROVE  OnceInv
<1>1. StartingInPlace
  BY DEF Init, StartingInPlace, Starting, Everywhere
<1>2. AssignedIsOwned /\ PositionCommitted
  BY DEF Init, Everywhere, AssignedIsOwned, OwnsAssigned, PositionCommitted, AtCommitted
<1>3. HeldFromCommitted
  BY DEF Init, Everywhere, HeldFromCommitted, Holding
<1>4. ExactlyOnce
  <2> QED BY EmitNothing DEF Init, TxnInit, ExactlyOnce
<1> QED BY <1>1, <1>2, <1>3, <1>4, InitInv DEF OnceInv, Settled

\* A step that changes nothing keeps it.
LEMMA OnceStutters ==
    ASSUME OnceInv, UNCHANGED vars
    PROVE  OnceInv'
<1> USE DEF vars, txnVars, logVars, groupVars, loopVars, taskVars, batchVars, clientVars
<1>1. IInv'
  BY Stuttering DEF OnceInv
<1>2. StartingInPlace'
  BY DEF OnceInv, StartingInPlace, Starting
<1>3. ASSUME evictions = 0 PROVE Settled'
  <2> USE <1>3 DEF OnceInv, Settled
  <2>1. AssignedIsOwned'
    BY DEF AssignedIsOwned, OwnsAssigned, OwnedBy
  <2>2. HeldFromCommitted' /\ PositionCommitted'
    BY DEF HeldFromCommitted, FromCommitted, PositionCommitted, AtCommitted, LastBatch, Holding
  <2>3. ExactlyOnce'
    BY DEF ExactlyOnce
  <2> QED BY <2>1, <2>2, <2>3
<1> QED BY <1>1, <1>2, <1>3 DEF OnceInv

\* The invariant that exactly-once rests on, for any instances, partitions, records, batch
\* sizes, faults and rebalances; what it says of ownership and positions, until a
\* live member is evicted.
THEOREM OnceInvariance == Spec => []OnceInv
<1>1. OnceInv /\ [Next]_vars => OnceInv'
  <2> SUFFICES ASSUME OnceInv, Next PROVE OnceInv'
    BY OnceStutters
  <2>1. TypeOK /\ StepInPlace /\ TransactionHolds /\ ResumedHasTask /\ StateMatchesOutput
    BY DEF OnceInv, IInv
  <2>2. IInv'
    BY InvariantStep DEF OnceInv
  <2>3. StartingInPlace /\ StartingInPlace'
    BY <2>1, StartingInPlaceStep DEF OnceInv
  <2>4. ASSUME evictions' = 0 PROVE Settled'
    <3>1. evictions = 0
      BY <2>1, <2>4, EvictionsStep
    <3>2. AssignedIsOwned /\ HeldFromCommitted /\ PositionCommitted /\ ExactlyOnce
      BY <3>1 DEF OnceInv, Settled
    <3>3. TypeOK'
      BY <2>2 DEF IInv
    <3>4. AssignedIsOwned'
      BY <2>1, <2>4, <3>1, <3>2, AssignedIsOwnedStep
    <3>5. HeldFromCommitted' /\ PositionCommitted'
      BY <2>1, <2>3, <3>2, <3>3, HeldFromCommittedStep, PositionCommittedStep
    <3>6. ExactlyOnce'
      BY <2>1, <3>2, ExactlyOnceStep
    <3> QED BY <3>4, <3>5, <3>6 DEF Settled
  <2> QED BY <2>2, <2>3, <2>4 DEF OnceInv
<1> QED BY <1>1, OnceInit, PTL DEF Spec

\* Exactly-once (ExactlyOnce) until a live member is evicted: through any crashes, failing
\* calls, timeouts, rebalances and stray fences, downstream holds each record behind the
\* committed offset once, in order, folded onto the state of its predecessors.
THEOREM ExactlyOnceUntilEviction == Spec => [](evictions = 0 => ExactlyOnce)
<1>1. OnceInv => (evictions = 0 => ExactlyOnce)
  BY DEF OnceInv, Settled
<1> QED BY <1>1, OnceInvariance, PTL

\* Where no live member is ever evicted, the transformer implements the abstract delivery
\* without replay (DeliversExactlyOnce): a commit is one atomic batch that starts at the
\* committed offset, every other step is a stutter.
THEOREM ImplementsExactlyOnce ==
    ASSUME MaxEvictions = 0
    PROVE  Spec => DeliversExactlyOnce
<1>1. Init => Exactly!Init
  BY DEF Init, TxnInit, Exactly!Init
<1>2. OnceInv /\ [Next]_vars => [Exactly!Next]_(Exactly!vars)
  <2> SUFFICES ASSUME OnceInv, [Next]_vars
               PROVE  Exactly!Next \/ UNCHANGED logVars
    BY DEF Exactly!vars, logVars
  <2>1. CASE UNCHANGED vars
    BY <2>1 DEF vars, txnVars, logVars
  <2>2. ASSUME NEW i \in Instance, NEW p \in Partition, CommitBatch(i, p)
        PROVE  Exactly!Next
    <3> DEFINE from == fetched[i][p].from
               to == fetched[i][p].to
    <3>1. evictions = 0
      BY GroupAssumption DEF OnceInv, IInv, TypeOK, GroupTypeOK
    <3>2. \E batch \in Seq(Message) : Committed(p, batch, from, to)
      BY <2>2, CommitStep DEF OnceInv, IInv
    <3>3. from = committed[p]
      BY <2>2, <3>1, CommitContinues DEF OnceInv, IInv, Settled
    <3>4. from \in Offset /\ to \in Offset
      <4>1. fetched[i][p] \in Slice
        BY DEF OnceInv, IInv, TypeOK, BatchTypeOK
      <4> QED BY <4>1, SliceFields
    <3> HIDE DEF from, to
    <3>5. Exactly!Process(p, from, to)
      BY <3>2, <3>3 DEF Committed, Exactly!Process, Exactly!Emit, Emit
    <3> QED BY <3>4, <3>5 DEF Exactly!Next, Exactly!Offset, Offset
  <2> QED BY <2>1, <2>2, LogsStep
<1> QED BY <1>1, <1>2, OnceInvariance, PTL DEF Spec, DeliversExactlyOnce, Exactly!Spec
====

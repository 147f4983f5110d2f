---- MODULE Transformer ----
(***************************************************************************)
(* TransformerRunner (flechtwerk/transformer.py): several processes run    *)
(* the same stage as one consumer group, one task per input partition,     *)
(* one Kafka transaction per task and getmany() batch.                     *)
(*                                                                         *)
(* Two threads of control per instance share the event loop: the main      *)
(* loop run(), and aiokafka's coordinator, which calls the rebalance       *)
(* listener.  An action is the code between two awaits at which the other  *)
(* one - or another instance, or the broker - can come in between.         *)
(***************************************************************************)
EXTENDS Transactions, ConsumerGroup, Integers

CONSTANTS MaxBatch,     \* max_poll_records; applied per partition here
          MaxFaults     \* bound: crashes, failing calls, transaction timeouts

ASSUME TransformerAssumption ==
    /\ MaxBatch \in Nat \ {0}
    /\ MaxFaults \in Nat

VARIABLES
    pc,         \* where run() of each instance is
    fatal,      \* runner.fatal: a callback failed
    pending,    \* runner.pending
    status,     \* per partition: a start_task() in progress, or in runner.tasks
    local,      \* per partition: the state in the task's local store
    fetched,    \* per partition: the records getmany() returned
    step,       \* per partition: how far send_transactional() is
    assigned,   \* consumer.assignment()
    paused,     \* ... and the part of it that is paused
    position,   \* per partition: the consumer's fetch position, or Unset
    faults      \* faults so far

loopVars == <<pc, fatal, pending>>
taskVars == <<status, local>>
batchVars == <<fetched, step>>
clientVars == <<assigned, paused, position>>
vars == <<txnVars, groupVars, loopVars, taskVars, batchVars, clientVars, faults>>

(***************************************************************************)
(* "entering": subscribed, in the stage's __aenter__.  "top": waiting for  *)
(* a revoke callback to release the batch lock (if it does not hold it,    *)
(* there is no await here).  "starting": under the lock, in                *)
(* start_pending_tasks().  "fetch": calling getmany().                     *)
(* "polling": inside it, past the point where it waits for a rebalance.    *)
(* "drain": records in hand, in check_config_updates(), without the lock.  *)
(* "batch": under the lock, in process_batch().  "unwinding": an exception *)
(* left the loop; coroutines that gather() started still run.              *)
(***************************************************************************)
Location == {"down", "entering", "top", "starting", "fetch", "polling", "drain", "batch",
             "unwinding"}
Status == {"none", "init", "fenced", "restored", "running"}
Step == {"none", "todo", "written", "offsets"}
Unset == -1
Slice == [from : Offset, to : Offset]
NoSlice == [from |-> 0, to |-> 0]

\* Mutant: the fetch is moved under the batch lock.
LockHeldFetching(i) == pc[i] \in {"starting", "fetch", "polling", "batch"}

LockHeld(i) == pc[i] \in {"starting", "batch"}
Tasks(i) == {p \in Partition : status[i][p] = "running"}
Starting(i) == {p \in Partition : status[i][p] \in {"init", "fenced", "restored"}}
NonEmpty(slice) == slice.from < slice.to

Everywhere(value) == [p \in Partition |-> value]

Init ==
    /\ TxnInit
    /\ GroupInit
    /\ pc = [i \in Instance |-> "down"]
    /\ fatal = [i \in Instance |-> FALSE]
    /\ pending = [i \in Instance |-> {}]
    /\ status = [i \in Instance |-> Everywhere("none")]
    /\ local = [i \in Instance |-> Everywhere(0)]
    /\ fetched = [i \in Instance |-> Everywhere(NoSlice)]
    /\ step = [i \in Instance |-> Everywhere("none")]
    /\ assigned = [i \in Instance |-> {}]
    /\ paused = [i \in Instance |-> {}]
    /\ position = [i \in Instance |-> Everywhere(Unset)]
    /\ faults = 0

Fault ==
    /\ faults < MaxFaults
    /\ faults' = faults + 1

\* Mutant: the loop does not look at runner.fatal.
NextTopIgnoringFatal(i) == pc' = [pc EXCEPT ![i] = "top"]

\* The next iteration: a recorded callback failure is raised first.
NextTop(i) == pc' = [pc EXCEPT ![i] = IF fatal[i] THEN "unwinding" ELSE "top"]

-----------------------------------------------------------------------------
(* The rebalance listener *)

\* close_tasks(): runner.tasks is emptied, producers and stores of the tasks
\* in it are gone.  Tasks still being started are not in runner.tasks yet.
CloseTasks(i) ==
    /\ status' = [status EXCEPT ![i] =
           [p \in Partition |-> IF p \in Tasks(i) THEN "none" ELSE @[p]]]
    /\ local' = [local EXCEPT ![i] =
           [p \in Partition |-> IF p \in Tasks(i) THEN 0 ELSE @[p]]]
    /\ step' = [step EXCEPT ![i] = Everywhere("none")]

\* The consumer gives up its assignment; nothing of it can be fetched again.
Unassign(i) ==
    /\ assigned' = [assigned EXCEPT ![i] = {}]
    /\ paused' = [paused EXCEPT ![i] = {}]
    /\ position' = [position EXCEPT ![i] = Everywhere(Unset)]

\* on_partitions_revoked: under the batch lock, close every task; then rejoin.
\* runner.pending is left as it is.
OnRevoked(i) ==
    /\ ~LockHeld(i)
    /\ CloseTasks(i)
    /\ Unassign(i)
    /\ JoinGroup(i)
    /\ UNCHANGED <<txnVars, loopVars, fetched, faults>>

\* The same with close_tasks() raising: recorded, and the group moves on.
OnRevokedFails(i) ==
    /\ ~LockHeld(i)
    /\ Fault
    /\ CloseTasks(i)
    /\ Unassign(i)
    /\ JoinGroup(i)
    /\ fatal' = [fatal EXCEPT ![i] = TRUE]
    /\ UNCHANGED <<txnVars, pc, pending, fetched>>

\* Mutant: what is assigned is not paused.
OnAssignedUnpaused(i) ==
    /\ pc[i] # "top"
    /\ TakeAssignment(i)
    /\ assigned' = [assigned EXCEPT ![i] = OwnedBy(i)]
    /\ paused' = [paused EXCEPT ![i] = {}]
    /\ position' = [position EXCEPT ![i] = Everywhere(Unset)]
    /\ pending' = [pending EXCEPT ![i] = OwnedBy(i)]
    /\ UNCHANGED <<txnVars, pc, fatal, taskVars, batchVars, faults>>

\* on_partitions_assigned: pause everything, mark it pending; no I/O.  The
\* loop waits at its top for a revoke callback only, never for this one.
OnAssigned(i) ==
    /\ pc[i] # "top"
    /\ TakeAssignment(i)
    /\ assigned' = [assigned EXCEPT ![i] = OwnedBy(i)]
    /\ paused' = [paused EXCEPT ![i] = OwnedBy(i)]
    /\ position' = [position EXCEPT ![i] = Everywhere(Unset)]
    /\ pending' = [pending EXCEPT ![i] = OwnedBy(i)]
    /\ UNCHANGED <<txnVars, pc, fatal, taskVars, batchVars, faults>>

\* The same with consumer.pause() raising at one of the partitions: recorded,
\* with some of them paused and runner.pending as it was.
OnAssignedFails(i) ==
    /\ pc[i] # "top"
    /\ Fault
    /\ TakeAssignment(i)
    /\ assigned' = [assigned EXCEPT ![i] = OwnedBy(i)]
    /\ \E kept \in SUBSET OwnedBy(i) \ {OwnedBy(i)} :
           paused' = [paused EXCEPT ![i] = kept]
    /\ position' = [position EXCEPT ![i] = Everywhere(Unset)]
    /\ fatal' = [fatal EXCEPT ![i] = TRUE]
    /\ UNCHANGED <<txnVars, pc, pending, taskVars, batchVars>>

\* The consumer looks up where to fetch from: the group's committed offset.
\* It does so for every assigned partition, paused or not.
LookUpPosition(i, p) ==
    /\ p \in assigned[i]
    /\ position[i][p] = Unset
    /\ position' = [position EXCEPT ![i][p] = committed[p]]
    /\ UNCHANGED <<txnVars, groupVars, loopVars, taskVars, batchVars, assigned,
                   paused, faults>>

-----------------------------------------------------------------------------
(* run(): starting tasks *)

\* The lock is free: take over runner.pending and start a task for each.
StartPendingTasks(i) ==
    /\ pc[i] = "top"
    /\ pc' = [pc EXCEPT ![i] = IF pending[i] = {} THEN "fetch" ELSE "starting"]
    /\ status' = [status EXCEPT ![i] =
           [p \in Partition |-> IF p \in pending[i] THEN "init" ELSE @[p]]]
    /\ pending' = [pending EXCEPT ![i] = {}]
    /\ UNCHANGED <<txnVars, groupVars, fatal, local, batchVars, clientVars, faults>>

\* start_task(): producer.start() fences the previous owner.
FenceTask(i, p) ==
    /\ status[i][p] = "init"
    /\ InitProducerId(i, p)
    /\ status' = [status EXCEPT ![i][p] = "fenced"]
    /\ UNCHANGED <<groupVars, loopVars, local, batchVars, clientVars, faults>>

\* Mutant: the restore is skipped.
RestoreTaskEmpty(i, p) ==
    /\ status[i][p] = "fenced"
    /\ status' = [status EXCEPT ![i][p] = "restored"]
    /\ UNCHANGED <<txnVars, groupVars, loopVars, local, batchVars, clientVars, faults>>

\* start_task(): store.restore() reads the changelog partition to the LSO.
RestoreTask(i, p) ==
    /\ status[i][p] = "fenced"
    /\ local' = [local EXCEPT ![i][p] = changelog[p]]
    /\ status' = [status EXCEPT ![i][p] = "restored"]
    /\ UNCHANGED <<txnVars, groupVars, loopVars, batchVars, clientVars, faults>>

\* Mutant: the partition is not resumed.
RunTaskPaused(i, p) ==
    /\ status[i][p] = "restored"
    /\ status' = [status EXCEPT ![i][p] = "running"]
    /\ pc' = [pc EXCEPT ![i] =
           IF @ = "starting" /\ Starting(i) = {p} THEN "fetch" ELSE @]
    /\ UNCHANGED <<txnVars, groupVars, fatal, pending, local, batchVars, clientVars,
                   faults>>

\* start_task(): register the task, resume the partition if it is assigned.
\* The last one ends start_pending_tasks().
RunTask(i, p) ==
    /\ status[i][p] = "restored"
    /\ status' = [status EXCEPT ![i][p] = "running"]
    /\ paused' = [paused EXCEPT ![i] = @ \ {p}]
    /\ pc' = [pc EXCEPT ![i] =
           IF @ = "starting" /\ Starting(i) = {p} THEN "fetch" ELSE @]
    /\ UNCHANGED <<txnVars, groupVars, fatal, pending, local, batchVars, assigned,
                   position, faults>>

\* A start_task() raises; its siblings in the gather() keep running.
StartTaskFails(i, p) ==
    /\ p \in Starting(i)
    /\ Fault
    /\ status' = [status EXCEPT ![i][p] = "none"]
    /\ local' = [local EXCEPT ![i][p] = 0]
    /\ pc' = [pc EXCEPT ![i] = "unwinding"]
    /\ UNCHANGED <<txnVars, groupVars, fatal, pending, batchVars, clientVars>>

-----------------------------------------------------------------------------
(* run(): fetching *)

\* getmany() blocks while a rebalance of this consumer is under way ...
CallGetmany(i) ==
    /\ pc[i] = "fetch"
    /\ listener[i] = "idle"
    /\ pc' = [pc EXCEPT ![i] = "polling"]
    /\ UNCHANGED <<txnVars, groupVars, fatal, pending, taskVars, batchVars,
                   clientVars, faults>>

\* ... but once past that its timeout ends it, rebalance or not.
GetmanyTimesOut(i) ==
    /\ pc[i] = "polling"
    /\ NextTop(i)
    /\ UNCHANGED <<txnVars, groupVars, fatal, pending, taskVars, batchVars,
                   clientVars, faults>>

Fetchable(i) == {p \in assigned[i] \ paused[i] : position[i][p] # Unset}

\* Records of some resumed partitions, from their positions on.
GetmanyReturns(i) ==
    /\ pc[i] = "polling"
    /\ listener[i] = "idle"
    /\ \E got \in [Fetchable(i) -> 0..MaxBatch] :
           /\ \E p \in Fetchable(i) : got[p] > 0
           /\ \A p \in Fetchable(i) : position[i][p] + got[p] <= NumRecords
           /\ fetched' = [fetched EXCEPT ![i] = [p \in Partition |->
                  IF p \in Fetchable(i)
                  THEN [from |-> position[i][p], to |-> position[i][p] + got[p]]
                  ELSE NoSlice]]
           /\ position' = [position EXCEPT ![i] = [p \in Partition |->
                  IF p \in Fetchable(i) THEN @[p] + got[p] ELSE @[p]]]
    /\ pc' = [pc EXCEPT ![i] = "drain"]
    /\ UNCHANGED <<txnVars, groupVars, fatal, pending, taskVars, step, assigned,
                   paused, faults>>

-----------------------------------------------------------------------------
(* run(): processing a batch *)

\* The lock is free: keep the records of live tasks only, drop the others.
BeginBatch(i) ==
    LET live == {p \in Tasks(i) : NonEmpty(fetched[i][p])}
    IN  /\ pc[i] = "drain"
        /\ IF live = {} THEN NextTop(i) ELSE pc' = [pc EXCEPT ![i] = "batch"]
        /\ fetched' = [fetched EXCEPT ![i] = [p \in Partition |->
               IF p \in live THEN @[p] ELSE NoSlice]]
        /\ step' = [step EXCEPT ![i] = [p \in Partition |->
               IF p \in live THEN "todo" ELSE "none"]]
        /\ UNCHANGED <<txnVars, groupVars, fatal, pending, taskVars, clientVars, faults>>

\* Decoding or transform() raises: no transaction was begun.
TransformFails(i) ==
    /\ pc[i] = "batch"
    /\ \A p \in Partition : step[i][p] \in {"none", "todo"}
    /\ Fault
    /\ pc' = [pc EXCEPT ![i] = "unwinding"]
    /\ step' = [step EXCEPT ![i] = Everywhere("none")]
    /\ UNCHANGED <<txnVars, groupVars, fatal, pending, taskVars, fetched, clientVars>>

\* The state the task's local store holds once the batch is folded into it.
Folded(i, p) == local[i][p] + (fetched[i][p].to - fetched[i][p].from)

\* Mutant: the state goes to the changelog but not to the local store.
WriteBatchRemotely(i, p) ==
    /\ step[i][p] = "todo"
    /\ ProduceInTxn(i, p, Emit(fetched[i][p].from, fetched[i][p].to, local[i][p]),
                    Folded(i, p))
    /\ step' = [step EXCEPT ![i][p] = "written"]
    /\ UNCHANGED <<groupVars, loopVars, taskVars, fetched, clientVars, faults>>

\* send_transactional(): outputs and state.  The local store is written now,
\* before the transaction commits.
WriteBatch(i, p) ==
    /\ step[i][p] = "todo"
    /\ ProduceInTxn(i, p, Emit(fetched[i][p].from, fetched[i][p].to, local[i][p]),
                    Folded(i, p))
    /\ local' = [local EXCEPT ![i][p] = Folded(i, p)]
    /\ step' = [step EXCEPT ![i][p] = "written"]
    /\ UNCHANGED <<groupVars, loopVars, status, fetched, clientVars, faults>>

\* Mutants: the offset of the last record itself, and one too many.
SendOffsetsOfLast(i, p) ==
    /\ step[i][p] = "written"
    /\ AddOffset(i, p, fetched[i][p].to - 1)
    /\ step' = [step EXCEPT ![i][p] = "offsets"]
    /\ UNCHANGED <<groupVars, loopVars, taskVars, fetched, clientVars, faults>>

SendOffsetsBeyond(i, p) ==
    /\ step[i][p] = "written"
    /\ AddOffset(i, p, fetched[i][p].to + 1)
    /\ step' = [step EXCEPT ![i][p] = "offsets"]
    /\ UNCHANGED <<groupVars, loopVars, taskVars, fetched, clientVars, faults>>

\* send_transactional(): the offset behind the last record of the batch.
SendOffsets(i, p) ==
    /\ step[i][p] = "written"
    /\ AddOffset(i, p, fetched[i][p].to)
    /\ step' = [step EXCEPT ![i][p] = "offsets"]
    /\ UNCHANGED <<groupVars, loopVars, taskVars, fetched, clientVars, faults>>

\* send_transactional(): the transaction scope ends, the transaction commits.
\* The last commit of the gather() ends the batch.
CommitBatch(i, p) ==
    /\ step[i][p] = "offsets"
    /\ CommitTxn(i, p)
    /\ step' = [step EXCEPT ![i][p] = "none"]
    /\ fetched' = [fetched EXCEPT ![i][p] = NoSlice]
    /\ IF pc[i] = "batch" /\ \A q \in Partition \ {p} : step[i][q] = "none"
       THEN NextTop(i)
       ELSE UNCHANGED pc
    /\ UNCHANGED <<groupVars, fatal, pending, taskVars, clientVars, faults>>

\* A produce, offset or commit call of a fenced producer is refused.
BatchFenced(i, p) ==
    /\ step[i][p] # "none"
    /\ holder[p] # i
    /\ pc' = [pc EXCEPT ![i] = "unwinding"]
    /\ step' = [step EXCEPT ![i][p] = "none"]
    /\ UNCHANGED <<txnVars, groupVars, fatal, pending, taskVars, fetched,
                   clientVars, faults>>

\* A call inside the transaction scope raises: abort, and let it crash.
BatchFails(i, p) ==
    /\ step[i][p] \in {"written", "offsets"}
    /\ Fault
    /\ AbortTxn(i, p)
    /\ pc' = [pc EXCEPT ![i] = "unwinding"]
    /\ step' = [step EXCEPT ![i][p] = "none"]
    /\ UNCHANGED <<groupVars, fatal, pending, taskVars, fetched, clientVars>>

-----------------------------------------------------------------------------
(* Leaving and coming back *)

ProcessGone(i) ==
    /\ pc' = [pc EXCEPT ![i] = "down"]
    /\ fatal' = [fatal EXCEPT ![i] = FALSE]
    /\ pending' = [pending EXCEPT ![i] = {}]
    /\ status' = [status EXCEPT ![i] = Everywhere("none")]
    /\ local' = [local EXCEPT ![i] = Everywhere(0)]
    /\ fetched' = [fetched EXCEPT ![i] = Everywhere(NoSlice)]
    /\ step' = [step EXCEPT ![i] = Everywhere("none")]
    /\ Unassign(i)
    /\ Disconnect(i)
    /\ UNCHANGED txnVars

\* run()'s finally closed the tasks; the exception ends the process.
Exit(i) ==
    /\ pc[i] = "unwinding"
    /\ ProcessGone(i)
    /\ UNCHANGED faults

\* The process is killed at any point.
Crash(i) ==
    /\ pc[i] # "down"
    /\ Fault
    /\ ProcessGone(i)

\* The orchestrator restarts it; run() subscribes with a fresh runner.
Restart(i) ==
    /\ pc[i] = "down"
    /\ Subscribe(i)
    /\ pc' = [pc EXCEPT ![i] = "entering"]
    /\ UNCHANGED <<txnVars, fatal, pending, taskVars, batchVars, clientVars, faults>>

\* The stage's __aenter__ returned; the loop begins.
EnterStage(i) ==
    /\ pc[i] = "entering"
    /\ NextTop(i)
    /\ UNCHANGED <<txnVars, groupVars, fatal, pending, taskVars, batchVars,
                   clientVars, faults>>

\* A transaction outlives transaction.timeout.ms.
TransactionTimesOut(p) ==
    /\ Fault
    /\ TxnTimeout(p)
    /\ UNCHANGED <<groupVars, loopVars, taskVars, batchVars, clientVars>>

\* A step of the group protocol that runs none of the program's code.
GroupStep(i) ==
    /\ NoticeRebalance(i) \/ SessionExpires(i) \/ Evict(i)
    /\ UNCHANGED <<txnVars, loopVars, taskVars, batchVars, clientVars, faults>>

RebalanceCompletes ==
    /\ CompleteRebalance
    /\ UNCHANGED <<txnVars, loopVars, taskVars, batchVars, clientVars, faults>>

-----------------------------------------------------------------------------
ListenerStep(i) ==
    \/ OnRevoked(i)
    \/ OnRevokedFails(i)
    \/ OnAssigned(i)
    \/ OnAssignedFails(i)
    \/ \E p \in Partition : LookUpPosition(i, p)

TaskStart(i, p) ==
    \/ FenceTask(i, p)
    \/ RestoreTask(i, p)
    \/ RunTask(i, p)
    \/ StartTaskFails(i, p)

BatchStep(i, p) ==
    \/ WriteBatch(i, p)
    \/ SendOffsets(i, p)
    \/ CommitBatch(i, p)
    \/ BatchFenced(i, p)
    \/ BatchFails(i, p)

LoopStep(i) ==
    \/ StartPendingTasks(i)
    \/ CallGetmany(i)
    \/ GetmanyTimesOut(i)
    \/ GetmanyReturns(i)
    \/ BeginBatch(i)
    \/ TransformFails(i)
    \/ \E p \in Partition : TaskStart(i, p) \/ BatchStep(i, p)

Lifecycle(i) == Exit(i) \/ Crash(i) \/ Restart(i) \/ EnterStage(i)

Next ==
    \/ \E i \in Instance :
           ListenerStep(i) \/ LoopStep(i) \/ Lifecycle(i) \/ GroupStep(i)
    \/ \E p \in Partition : TransactionTimesOut(p)
    \/ RebalanceCompletes

Spec == Init /\ [][Next]_vars

(***************************************************************************)
(* Fairness.  Every await of the program returns, the orchestrator         *)
(* restarts what exited, and the group protocol keeps going; nothing is    *)
(* assumed about faults, evictions and timeouts.  getmany() is only asked  *)
(* to return, with or without records (GetmanyTimesOut or GetmanyReturns): *)
(* that it returns records it could return again and again needs SF.       *)
(***************************************************************************)
FairTask(i, p) ==
    /\ WF_vars(FenceTask(i, p)) /\ WF_vars(RestoreTask(i, p)) /\ WF_vars(RunTask(i, p))
    /\ WF_vars(WriteBatch(i, p)) /\ WF_vars(SendOffsets(i, p)) /\ WF_vars(CommitBatch(i, p))
    /\ WF_vars(BatchFenced(i, p)) /\ WF_vars(LookUpPosition(i, p))

FairInstance(i) ==
    /\ WF_vars(OnRevoked(i)) /\ WF_vars(OnAssigned(i))
    /\ WF_vars(StartPendingTasks(i)) /\ WF_vars(CallGetmany(i))
    /\ WF_vars(GetmanyTimesOut(i)) /\ SF_vars(GetmanyReturns(i)) /\ WF_vars(BeginBatch(i))
    /\ WF_vars(Exit(i)) /\ WF_vars(Restart(i)) /\ WF_vars(EnterStage(i))
    /\ WF_vars(NoticeRebalance(i) /\ GroupStep(i))
    /\ WF_vars(SessionExpires(i) /\ GroupStep(i))

FairSpec ==
    /\ Spec
    /\ WF_vars(RebalanceCompletes)
    /\ \A i \in Instance : FairInstance(i) /\ \A p \in Partition : FairTask(i, p)

-----------------------------------------------------------------------------
(* What should hold *)

LoopTypeOK ==
    /\ pc \in [Instance -> Location]
    /\ fatal \in [Instance -> BOOLEAN]
    /\ pending \in [Instance -> SUBSET Partition]
    /\ faults \in 0..MaxFaults

TaskTypeOK ==
    /\ status \in [Instance -> [Partition -> Status]]
    /\ local \in [Instance -> [Partition -> Nat]]

BatchTypeOK ==
    /\ fetched \in [Instance -> [Partition -> Slice]]
    /\ step \in [Instance -> [Partition -> Step]]

ClientTypeOK ==
    /\ assigned \in [Instance -> SUBSET Partition]
    /\ paused \in [Instance -> SUBSET Partition]
    /\ position \in [Instance -> [Partition -> Offset \cup {Unset}]]

\* The variables the code, its consumer and the brokers keep, by their types.
TypeOK ==
    /\ TxnTypeOK
    /\ GroupTypeOK
    /\ LoopTypeOK
    /\ TaskTypeOK
    /\ BatchTypeOK
    /\ ClientTypeOK

\* State and output never diverge: the k-th message downstream was folded onto
\* the state the k-1 messages before it left, and the changelog holds the fold
\* of exactly the messages downstream.  This is what fencing before restoring,
\* restoring up to the LSO and one transaction for both buy (start_task,
\* send_transactional) - with zombies, crashes and aborted transactions.
StateMatchesOutput ==
    \A p \in Partition :
        /\ changelog[p] = Len(output[p])
        /\ \A k \in 1..Len(output[p]) : output[p][k].seen = k - 1

\* No record behind a committed offset is missing downstream: records dropped
\* because their task was torn down between fetch and processing (run) are
\* fetched again, whoever commits next.
NoLoss ==
    \A p \in Partition : Covers(output[p], committed[p])

\* Exactly-once: downstream holds each record behind the committed offset once
\* and in order, each folded onto the state of its predecessors
\* (TransformerRunner's docstring: "exactly-once semantics").
ExactlyOnce ==
    \A p \in Partition : output[p] = Emit(0, committed[p], 0)

\* "Whichever instance is assigned partition p fences the previous owner"
\* (module.py, create_task_producer): a producer start never fences an
\* instance the partition is currently assigned to.
OnlyPreviousOwnersFenced ==
    [][\A i \in Instance, p \in Partition :
          status[i][p] = "init" /\ status'[i][p] = "fenced"
              => \A j \in Instance \ {i} : p \notin assigned[j]]_vars

\* A rebalance is never stuck on a member: the loop always releases the batch
\* lock to the revoke callback (run: the fetch MUST stay outside the lock).
RebalancesEnd == rebalancing ~> ~rebalancing

\* What a callback failed with ends the process, although aiokafka swallows it
\* (TaskRebalanceListener): the main loop gets to raise it.
FatalSurfaces == \A i \in Instance : fatal[i] ~> pc[i] = "down"

AllCommitted == \A p \in Partition : committed[p] = NumRecords

\* Once the group has settled, every record is processed: assigned partitions
\* are started, resumed and drained (start_pending_tasks, run).
Progress == <>[](~rebalancing /\ members # {}) => <>[]AllCommitted

\* A transformer delivers every record in atomic batches on the latest state ...
AtLeastOnce == INSTANCE Delivery WITH Replay <- TRUE
\* ... and, as long as no live member is evicted, without replaying any.
Exactly == INSTANCE Delivery WITH Replay <- FALSE

\* Every committed transaction is one atomic batch of the abstract delivery, on
\* the latest committed state and leaving no gap (send_transactional).
DeliversAtLeastOnce == AtLeastOnce!Spec

\* ... and it starts exactly at the committed offset.
DeliversExactlyOnce == Exactly!Spec

-----------------------------------------------------------------------------
(* The inductive invariant behind StateMatchesOutput and NoLoss *)

\* A transaction step is under way only in a batch, for a live task and records.
InPlace(i, p) ==
    /\ pc[i] \in {"batch", "unwinding"}
    /\ status[i][p] = "running"
    /\ NonEmpty(fetched[i][p])

StepInPlace ==
    \A i \in Instance, p \in Partition : step[i][p] # "none" => InPlace(i, p)

\* i owns p's transactional ID and may still fold records onto its local store.
MayFold(i, p) ==
    /\ holder[p] = i
    /\ status[i][p] \in {"restored", "running"}
    /\ step[i][p] = "todo" \/ (step[i][p] = "none" /\ pc[i] # "unwinding")

\* What the unfenced task folds onto is the state in the changelog.
LocalCurrent ==
    \A i \in Instance, p \in Partition :
        MayFold(i, p) => local[i][p] = changelog[p]

\* p's transaction is the batch i has in hand, folded onto the changelog.
TxnMatches(i, p) ==
    LET r == fetched[i][p]
    IN  /\ txn[p].open
        /\ txn[p].out = Emit(r.from, r.to, changelog[p])
        /\ txn[p].state = changelog[p] + (r.to - r.from)
        /\ txn[p].state = local[i][p]
        /\ step[i][p] = "offsets" => txn[p].offset = r.to

TransactionHolds ==
    \A i \in Instance, p \in Partition :
        holder[p] = i /\ step[i][p] \in {"written", "offsets"} => TxnMatches(i, p)

\* A partition that can be fetched from has a task, or is getting one anew - or
\* it could not be paused, and the loop will not fetch twice.
HasTask(i, p) ==
    \/ fatal[i] \/ pc[i] = "unwinding"
    \/ status[i][p] = "running"
    \/ pc[i] = "starting" /\ p \in Starting(i)

ResumedHasTask ==
    \A i \in Instance : \A p \in assigned[i] \ paused[i] : HasTask(i, p)

\* Nothing is missing downstream where the records in hand start, ...
FetchCovered ==
    \A i \in Instance, p \in Partition : Covers(output[p], fetched[i][p].from)

\* i has the records up to its position in hand, and a task to commit them.
InHand(i, p) ==
    /\ position[i][p] = fetched[i][p].to
    /\ status[i][p] = "running"
    /\ NonEmpty(fetched[i][p])
    /\ pc[i] = "drain" \/ (pc[i] = "batch" /\ step[i][p] # "none")

\* The loop raises what a callback failed with before it fetches again.
LastBatch(i) == fatal[i] /\ pc[i] \in {"drain", "batch"}

\* ... and a position is ahead of what is downstream by records in hand only.
PositionCovered ==
    \A i \in Instance, p \in Partition :
        \/ pc[i] = "unwinding" \/ LastBatch(i)
        \/ Covers(output[p], position[i][p])
        \/ InHand(i, p)

IInv ==
    /\ TypeOK
    /\ StepInPlace
    /\ LocalCurrent
    /\ TransactionHolds
    /\ ResumedHasTask
    /\ FetchCovered
    /\ PositionCovered
    /\ StateMatchesOutput
    /\ NoLoss
====

---- MODULE Extractor ----
(***************************************************************************)
(* ExtractorRunner.run_sharded (flechtwerk/extractor.py): the configs of   *)
(* an extractor are divided among its instances by tokens - partition      *)
(* numbers of the config topics, leased through a consumer group - and     *)
(* each instance polls those whose state key falls on a token it holds.    *)
(* A poll runs in pages: messages, then a State that is the resume cursor, *)
(* each page one transaction of its token's producer.                      *)
(*                                                                         *)
(* Three threads of control per instance share the event loop: the main    *)
(* loop, the cycle task with the polls it gathers, and aiokafka's          *)
(* coordinator, which calls the listener.                                  *)
(***************************************************************************)
EXTENDS PageLog, ConsumerGroup

CONSTANTS MaxPage,      \* bound: items in a page
          MaxFaults     \* bound: crashes, failing calls, interrupts, timeouts

ASSUME ExtractorAssumption ==
    /\ None \notin Partition
    /\ MaxPage \in Nat \ {0}
    /\ MaxFaults \in Nat

VARIABLES
    pc,         \* where the main loop of each instance is
    fatal,      \* runner.fatal: a callback failed
    pending,    \* runner.pending
    tokens,     \* runner.tokens
    tasks,      \* runner.tasks: tokens with a started producer
    starting,   \* tokens whose start_task() is under way
    cycle,      \* runner.cycle, the background task
    failed,     \* a poll of the running cycle raised
    poll,       \* per config: where its poll_one() is
    local,      \* per config: its cursor in the shared local store
    base,       \* per config: the cursor its poll last committed, 0 without a poll
    cursor,     \* per config: the last item its poll yielded, 0 without a poll
    faults      \* faults so far

loopVars == <<pc, fatal, pending, tokens, tasks, starting>>
cycleVars == <<cycle, failed>>
pollVars == <<poll, base, cursor>>
vars == <<brokerVars, groupVars, loopVars, cycleVars, pollVars, local, faults>>

(***************************************************************************)
(* "pump": calling the membership consumer's getmany().  "polling": inside *)
(* it, past the point where it waits for a rebalance.  "drain": awaiting   *)
(* check_config_updates() or the rebalance lock.  "fencing": under the     *)
(* lock, in start_pending_tokens().  "unwinding": an exception left the    *)
(* loop.                                                                   *)
(***************************************************************************)
Location == {"down", "pump", "polling", "drain", "fencing", "unwinding"}

\* The cycle task: not there; between polls; polling; ended by an exception;
\* cancelled by suspend_tokens(), which waits for it to unwind.
Cycle == {"none", "idle", "polling", "failed", "cancelled"}

\* poll_one(): not running; waiting for the token's lock; the generator runs;
\* a page's state is in the local store and sent, the commit under way.
Poll == {"none", "queued", "paging", "closing"}

\* runner.pending is None, which is not the empty assignment of a standby.
NoAssignment == {None}

Everywhere(value) == [c \in Config |-> value]

Init ==
    /\ BrokerInit
    /\ GroupInit
    /\ pc = [i \in Instance |-> "down"]
    /\ fatal = [i \in Instance |-> FALSE]
    /\ pending = [i \in Instance |-> NoAssignment]
    /\ tokens = [i \in Instance |-> {}]
    /\ tasks = [i \in Instance |-> {}]
    /\ starting = [i \in Instance |-> {}]
    /\ cycle = [i \in Instance |-> "none"]
    /\ failed = [i \in Instance |-> FALSE]
    /\ poll = [i \in Instance |-> Everywhere("none")]
    /\ local = [i \in Instance |-> Everywhere(0)]
    /\ base = [i \in Instance |-> Everywhere(0)]
    /\ cursor = [i \in Instance |-> Everywhere(0)]
    /\ faults = 0

Fault ==
    /\ faults < MaxFaults
    /\ faults' = faults + 1

\* The rebalance lock: start_pending_tokens(), or a revoke callback at work.
LockHeld(i) == pc[i] = "fencing" \/ cycle[i] = "cancelled"

Quiet(i) == \A c \in Config : poll[i][c] = "none"

\* Mutant: the loop looks neither at runner.fatal nor at the cycle.
NextTopRegardless(i) == pc' = [pc EXCEPT ![i] = "pump"]

\* The next iteration raises what a callback or the cycle failed with.
NextTop(i) ==
    pc' = [pc EXCEPT ![i] =
              IF fatal[i] \/ cycle[i] = "failed" THEN "unwinding" ELSE "pump"]

-----------------------------------------------------------------------------
(* The rebalance listener *)

\* Mutant: the store is kept.
CloseTasksOnly(i) ==
    /\ tasks' = [tasks EXCEPT ![i] = {}]
    /\ UNCHANGED local

\* close_tasks(): producers stopped, the shared local store wiped.
CloseTasks(i) ==
    /\ tasks' = [tasks EXCEPT ![i] = {}]
    /\ local' = [local EXCEPT ![i] = Everywhere(0)]

\* Mutant: runner.pending survives the revocation.
OnRevokedPending(i) ==
    /\ ~LockHeld(i)
    /\ cycle[i] = "none" /\ tokens[i] = {} /\ tasks[i] = {}
    /\ JoinGroup(i)
    /\ UNCHANGED <<brokerVars, loopVars, cycleVars, pollVars, local, faults>>

\* on_partitions_revoked with nothing running since the last handover.
OnRevokedStandby(i) ==
    /\ ~LockHeld(i)
    /\ cycle[i] = "none" /\ tokens[i] = {} /\ tasks[i] = {}
    /\ JoinGroup(i)
    /\ pending' = [pending EXCEPT ![i] = NoAssignment]
    /\ UNCHANGED <<brokerVars, pc, fatal, tokens, tasks, starting, cycleVars,
                   pollVars, local, faults>>

\* on_partitions_revoked: give up the tokens and cancel the cycle.
OnRevoked(i) ==
    /\ listener[i] = "revoking"
    /\ ~LockHeld(i)
    /\ cycle[i] \in {"idle", "polling"} /\ pc[i] # "unwinding"
    /\ pending' = [pending EXCEPT ![i] = NoAssignment]
    /\ tokens' = [tokens EXCEPT ![i] = {}]
    /\ cycle' = [cycle EXCEPT ![i] = "cancelled"]
    /\ UNCHANGED <<brokerVars, groupVars, pc, fatal, tasks, starting, failed,
                   pollVars, local, faults>>

\* Mutant: the cancelled cycle is not awaited.
SuspendTokensAtOnce(i) ==
    /\ cycle[i] = "cancelled"
    /\ CloseTasks(i)
    /\ cycle' = [cycle EXCEPT ![i] = "none"]
    /\ failed' = [failed EXCEPT ![i] = FALSE]
    /\ JoinGroup(i)
    /\ UNCHANGED <<brokerVars, pc, fatal, pending, tokens, starting, pollVars,
                   faults>>

\* The cycle has unwound: close the tasks, wipe the store, and rejoin.
SuspendTokens(i) ==
    /\ cycle[i] = "cancelled"
    /\ Quiet(i)
    /\ CloseTasks(i)
    /\ cycle' = [cycle EXCEPT ![i] = "none"]
    /\ failed' = [failed EXCEPT ![i] = FALSE]
    /\ JoinGroup(i)
    /\ UNCHANGED <<brokerVars, pc, fatal, pending, tokens, starting, pollVars,
                   faults>>

\* A producer does not stop: recorded, the store is not wiped.
SuspendTokensFails(i) ==
    /\ cycle[i] = "cancelled"
    /\ Quiet(i)
    /\ Fault
    /\ tasks' = [tasks EXCEPT ![i] = {}]
    /\ cycle' = [cycle EXCEPT ![i] = "none"]
    /\ failed' = [failed EXCEPT ![i] = FALSE]
    /\ fatal' = [fatal EXCEPT ![i] = TRUE]
    /\ JoinGroup(i)
    /\ UNCHANGED <<brokerVars, pc, pending, tokens, starting, pollVars, local>>

\* on_partitions_revoked when the cycle has died: cancel_cycle() raises its
\* error before the tasks are closed.
OnRevokedAfterFailure(i) ==
    /\ ~LockHeld(i)
    /\ cycle[i] = "failed"
    /\ pending' = [pending EXCEPT ![i] = NoAssignment]
    /\ tokens' = [tokens EXCEPT ![i] = {}]
    /\ cycle' = [cycle EXCEPT ![i] = "none"]
    /\ failed' = [failed EXCEPT ![i] = FALSE]
    /\ fatal' = [fatal EXCEPT ![i] = TRUE]
    /\ JoinGroup(i)
    /\ UNCHANGED <<brokerVars, pc, tasks, starting, pollVars, local, faults>>

\* ... or when the cycle is gone: run_sharded()'s finally is cancelling it, or
\* an earlier revoke left the tasks behind.  They are closed without waiting.
OnRevokedAgain(i) ==
    /\ ~LockHeld(i)
    /\ \/ cycle[i] = "none" /\ (tokens[i] # {} \/ tasks[i] # {})
       \/ pc[i] = "unwinding" /\ cycle[i] \in {"idle", "polling"}
    /\ pending' = [pending EXCEPT ![i] = NoAssignment]
    /\ tokens' = [tokens EXCEPT ![i] = {}]
    /\ CloseTasks(i)
    /\ JoinGroup(i)
    /\ UNCHANGED <<brokerVars, pc, fatal, starting, cycleVars, pollVars,
                   faults>>

\* on_partitions_assigned: bookkeeping only, and no call in it that could fail.
OnAssigned(i) ==
    /\ TakeAssignment(i)
    /\ pending' = [pending EXCEPT ![i] = OwnedBy(i)]
    /\ UNCHANGED <<brokerVars, pc, fatal, tokens, tasks, starting, cycleVars,
                   pollVars, local, faults>>

-----------------------------------------------------------------------------
(* The main loop *)

\* getmany() blocks while a rebalance of this consumer is under way ...
CallGetmany(i) ==
    /\ pc[i] = "pump"
    /\ listener[i] = "idle"
    /\ pc' = [pc EXCEPT ![i] = "polling"]
    /\ UNCHANGED <<brokerVars, groupVars, fatal, pending, tokens, tasks,
                   starting, cycleVars, pollVars, local, faults>>

\* ... but past that it returns, rebalance or not; its records are discarded.
GetmanyReturns(i) ==
    /\ pc[i] = "polling"
    /\ pc' = [pc EXCEPT ![i] = "drain"]
    /\ UNCHANGED <<brokerVars, groupVars, fatal, pending, tokens, tasks,
                   starting, cycleVars, pollVars, local, faults>>

\* The lock is free and no assignment is pending.
NothingPending(i) ==
    /\ pc[i] = "drain"
    /\ ~LockHeld(i)
    /\ pending[i] = NoAssignment
    /\ NextTop(i)
    /\ UNCHANGED <<brokerVars, groupVars, fatal, pending, tokens, tasks,
                   starting, cycleVars, pollVars, local, faults>>

\* start_pending_tokens(): what is left of an earlier generation is closed and
\* the store wiped; without tokens the instance is a standby.
StartPendingTokens(i) ==
    /\ pc[i] = "drain"
    /\ ~LockHeld(i)
    /\ pending[i] # NoAssignment
    /\ pending' = [pending EXCEPT ![i] = NoAssignment]
    /\ tokens' = [tokens EXCEPT ![i] = pending[i]]
    /\ starting' = [starting EXCEPT ![i] = pending[i]]
    /\ CloseTasks(i)
    /\ IF pending[i] = {} THEN NextTop(i) ELSE pc' = [pc EXCEPT ![i] = "fencing"]
    /\ UNCHANGED <<brokerVars, groupVars, fatal, cycleVars, pollVars, faults>>

\* start_task(): producer.start() fences the token's previous owner.  When one
\* of them raises, gather() leaves the others running.
StartTask(i, t) ==
    /\ t \in starting[i]
    /\ InitProducerId(i, t)
    /\ starting' = [starting EXCEPT ![i] = @ \ {t}]
    /\ tasks' = [tasks EXCEPT ![i] = @ \cup {t}]
    /\ UNCHANGED <<groupVars, pc, fatal, pending, tokens, cycleVars, pollVars,
                   local, faults>>

\* What the changelog has is put into the store; the rest of it stays.
Restored(i) ==
    [c \in Config |->
        IF HasRecord(KeyOf[c]) THEN Restorable(KeyOf[c])[c] ELSE local[i][c]]

\* Mutant: the cycle is not started.
RestoreWithoutCycle(i) ==
    /\ pc[i] = "fencing"
    /\ starting[i] = {}
    /\ local' = [local EXCEPT ![i] = Restored(i)]
    /\ pc' = [pc EXCEPT ![i] = IF fatal[i] THEN "unwinding" ELSE "pump"]
    /\ UNCHANGED <<brokerVars, groupVars, fatal, pending, tokens, tasks,
                   starting, cycleVars, pollVars, faults>>

\* All fenced: restore the whole changelog, start the cycle.
Restore(i) ==
    /\ pc[i] = "fencing"
    /\ starting[i] = {}
    /\ local' = [local EXCEPT ![i] = Restored(i)]
    /\ cycle' = [cycle EXCEPT ![i] = "idle"]
    /\ pc' = [pc EXCEPT ![i] = IF fatal[i] THEN "unwinding" ELSE "pump"]
    /\ UNCHANGED <<brokerVars, groupVars, fatal, pending, tokens, tasks,
                   starting, failed, pollVars, faults>>

-----------------------------------------------------------------------------
(* The cycle task *)

\* owns(): the configs whose token this instance holds.
Owned(i) == {c \in Config : Token(c) \in tokens[i]}

\* poll_cycle(): one poll of every owned config, at once.
PollCycle(i) ==
    /\ cycle[i] = "idle"
    /\ pc[i] # "unwinding"
    /\ Owned(i) # {}
    /\ cycle' = [cycle EXCEPT ![i] = "polling"]
    /\ poll' = [poll EXCEPT ![i] =
                   [c \in Config |-> IF c \in Owned(i) THEN "queued" ELSE "none"]]
    /\ UNCHANGED <<brokerVars, groupVars, loopVars, failed, base, cursor, local,
                   faults>>

\* The poll of c is over, and what it had in hand gone.  The last one ends the
\* gather(): poll_cycle() raises what one of them raised, else the cycle idles.
PollEnds(i, c, raised) ==
    /\ poll' = [poll EXCEPT ![i][c] = "none"]
    /\ base' = [base EXCEPT ![i][c] = 0]
    /\ cursor' = [cursor EXCEPT ![i][c] = 0]
    /\ failed' = [failed EXCEPT ![i] = @ \/ raised]
    /\ cycle' = [cycle EXCEPT ![i] =
           IF @ = "polling" /\ \A d \in Config \ {c} : poll[i][d] = "none"
           THEN IF failed[i] \/ raised THEN "failed" ELSE "idle"
           ELSE @]

InToken(i, c) ==
    {d \in Config : Token(d) = Token(c) /\ poll[i][d] \in {"paging", "closing"}}

\* poll_one(): the token's lock is free; read the state, start the generator.
PollOne(i, c) ==
    /\ poll[i][c] = "queued"
    /\ cycle[i] = "polling" /\ pc[i] # "unwinding"
    /\ InToken(i, c) = {}
    /\ poll' = [poll EXCEPT ![i][c] = "paging"]
    /\ base' = [base EXCEPT ![i][c] = local[i][c]]
    /\ cursor' = [cursor EXCEPT ![i][c] = local[i][c]]
    /\ UNCHANGED <<brokerVars, groupVars, loopVars, cycleVars, local, faults>>

\* The generator yields a Message: it is sent before the generator resumes.
YieldMessage(i, c) ==
    /\ poll[i][c] = "paging"
    /\ cursor[i][c] < NumItems
    /\ cursor[i][c] - base[i][c] < MaxPage
    /\ SendItem(i, c, cursor[i][c] + 1)
    /\ cursor' = [cursor EXCEPT ![i][c] = @ + 1]
    /\ UNCHANGED <<groupVars, loopVars, cycleVars, poll, base, local, faults>>

\* Mutant: the cursor of the next item.
NewStateBeyond(i, c) ==
    [d \in ConfigsOf(KeyOf[c]) |-> IF d = c THEN cursor[i][c] + 1 ELSE local[i][d]]

\* What a State yielded by the poll of c holds: its own cursor moved, the others
\* of the state key as they were read.
NewState(i, c) ==
    [d \in ConfigsOf(KeyOf[c]) |-> IF d = c THEN cursor[i][c] ELSE local[i][d]]

\* Mutant: the state does not reach the changelog.
YieldStateLocally(i, c) ==
    /\ poll[i][c] = "paging"
    /\ cursor[i][c] > base[i][c]
    /\ local' = [local EXCEPT ![i][c] = cursor[i][c]]
    /\ poll' = [poll EXCEPT ![i][c] = "closing"]
    /\ UNCHANGED <<brokerVars, groupVars, loopVars, cycleVars, base, cursor, faults>>

\* The generator yields a State: commit_boundary() writes it to the local store
\* and to the changelog, in this order.
YieldState(i, c) ==
    /\ poll[i][c] = "paging"
    /\ cursor[i][c] > base[i][c]
    /\ SendState(i, KeyOf[c], NewState(i, c))
    /\ local' = [local EXCEPT ![i][c] = cursor[i][c]]
    /\ poll' = [poll EXCEPT ![i][c] = "closing"]
    /\ UNCHANGED <<groupVars, loopVars, cycleVars, base, cursor, faults>>

\* commit_boundary(): the page commits, the generator resumes.
CommitPage(i, c) ==
    /\ poll[i][c] = "closing"
    /\ CommitTxn(i, Token(c))
    /\ poll' = [poll EXCEPT ![i][c] = "paging"]
    /\ base' = [base EXCEPT ![i][c] = cursor[i][c]]
    /\ UNCHANGED <<groupVars, loopVars, cycleVars, cursor, local, faults>>

\* The generator ends; there is no trailing page.
PollCompletes(i, c) ==
    /\ poll[i][c] = "paging"
    /\ cursor[i][c] = base[i][c]
    /\ PollEnds(i, c, FALSE)
    /\ UNCHANGED <<brokerVars, groupVars, loopVars, local, faults>>

\* poll() or a call to Kafka raises: the page is aborted, the others go on.
PollFails(i, c) ==
    /\ poll[i][c] \in {"paging", "closing"}
    /\ Fault
    /\ AbortTxn(i, Token(c))
    /\ PollEnds(i, c, TRUE)
    /\ UNCHANGED <<groupVars, loopVars, local>>

\* A call of a fenced producer is refused.
PollFenced(i, c) ==
    /\ poll[i][c] \in {"paging", "closing"}
    /\ holder[Token(c)] # i
    /\ PollEnds(i, c, TRUE)
    /\ UNCHANGED <<brokerVars, groupVars, loopVars, local, faults>>

Cancelled(i) == cycle[i] = "cancelled" \/ (pc[i] = "unwinding" /\ cycle[i] = "polling")

\* Mutant: a cancelled poll commits what it has sent as a trailing page.
CancelPollCommitting(i, c) ==
    /\ Cancelled(i)
    /\ poll[i][c] # "none"
    /\ CommitTxn(i, Token(c)) \/ (~txn[Token(c)].open /\ UNCHANGED brokerVars)
    /\ PollEnds(i, c, FALSE)
    /\ UNCHANGED <<groupVars, loopVars, local, faults>>

\* Mutant: what a cancelled poll does on its way out takes the rebalance lock.
CancelPollLocking(i, c) ==
    /\ Cancelled(i)
    /\ ~LockHeld(i)
    /\ poll[i][c] # "none"
    /\ IF poll[i][c] = "queued" THEN UNCHANGED brokerVars ELSE AbortTxn(i, Token(c))
    /\ PollEnds(i, c, FALSE)
    /\ UNCHANGED <<groupVars, loopVars, local, faults>>

\* The cancellation reaches a poll before its commit: it aborts its page.
CancelPoll(i, c) ==
    /\ Cancelled(i)
    /\ poll[i][c] # "none"
    /\ IF poll[i][c] = "queued" THEN UNCHANGED brokerVars ELSE AbortTxn(i, Token(c))
    /\ PollEnds(i, c, FALSE)
    /\ UNCHANGED <<groupVars, loopVars, local, faults>>

\* ... or while EndTxn is under way: it is carried out, or the transaction is
\* left open, since a producer that is committing does not abort.
CancelCommit(i, c) ==
    /\ Cancelled(i)
    /\ poll[i][c] = "closing"
    /\ CommitTxn(i, Token(c)) \/ UNCHANGED brokerVars
    /\ PollEnds(i, c, FALSE)
    /\ UNCHANGED <<groupVars, loopVars, local, faults>>

-----------------------------------------------------------------------------
(* Leaving and coming back *)

ProcessGone(i) ==
    /\ pc' = [pc EXCEPT ![i] = "down"]
    /\ fatal' = [fatal EXCEPT ![i] = FALSE]
    /\ pending' = [pending EXCEPT ![i] = NoAssignment]
    /\ tokens' = [tokens EXCEPT ![i] = {}]
    /\ tasks' = [tasks EXCEPT ![i] = {}]
    /\ starting' = [starting EXCEPT ![i] = {}]
    /\ cycle' = [cycle EXCEPT ![i] = "none"]
    /\ failed' = [failed EXCEPT ![i] = FALSE]
    /\ poll' = [poll EXCEPT ![i] = Everywhere("none")]
    /\ local' = [local EXCEPT ![i] = Everywhere(0)]
    /\ base' = [base EXCEPT ![i] = Everywhere(0)]
    /\ cursor' = [cursor EXCEPT ![i] = Everywhere(0)]
    /\ Disconnect(i)
    /\ UNCHANGED brokerVars

\* A call of the main loop raises - a producer does not start, the restore fails -
\* or the main task is cancelled: Ctrl-C, or a stage next to this one crashed.
Interrupt(i) ==
    /\ pc[i] \in {"pump", "polling", "drain", "fencing"}
    /\ Fault
    /\ pc' = [pc EXCEPT ![i] = "unwinding"]
    /\ UNCHANGED <<brokerVars, groupVars, fatal, pending, tokens, tasks,
                   starting, cycleVars, pollVars, local>>

\* run_sharded()'s finally suspended the tokens; the exception ends the process.
\* It waits for the polls to unwind, unless a revoke callback does that.
Exit(i) ==
    /\ pc[i] = "unwinding"
    /\ Quiet(i) \/ cycle[i] = "cancelled"
    /\ ProcessGone(i)
    /\ UNCHANGED faults

\* The process is killed at any point.
Crash(i) ==
    /\ pc[i] # "down"
    /\ Fault
    /\ ProcessGone(i)

\* The orchestrator restarts it; run_sharded() subscribes with a fresh runner.
Restart(i) ==
    /\ pc[i] = "down"
    /\ Subscribe(i)
    /\ pc' = [pc EXCEPT ![i] = "pump"]
    /\ UNCHANGED <<brokerVars, fatal, pending, tokens, tasks, starting,
                   cycleVars, pollVars, local, faults>>

\* A page outlives transaction.timeout.ms.
PageTimesOut(t) ==
    /\ Fault
    /\ TxnTimeout(t)
    /\ UNCHANGED <<groupVars, loopVars, cycleVars, pollVars, local>>

\* A step of the group protocol that runs none of the program's code.
GroupStep(i) ==
    /\ NoticeRebalance(i) \/ SessionExpires(i) \/ Evict(i)
    /\ UNCHANGED <<brokerVars, loopVars, cycleVars, pollVars, local, faults>>

RebalanceCompletes ==
    /\ CompleteRebalance
    /\ UNCHANGED <<brokerVars, loopVars, cycleVars, pollVars, local, faults>>

-----------------------------------------------------------------------------
ListenerStep(i) ==
    \/ OnRevokedStandby(i)
    \/ OnRevoked(i)
    \/ SuspendTokens(i)
    \/ SuspendTokensFails(i)
    \/ OnRevokedAfterFailure(i)
    \/ OnRevokedAgain(i)
    \/ OnAssigned(i)

LoopStep(i) ==
    \/ CallGetmany(i)
    \/ GetmanyReturns(i)
    \/ NothingPending(i)
    \/ StartPendingTokens(i)
    \/ \E t \in Partition : StartTask(i, t)
    \/ Restore(i)

PollStep(i, c) ==
    \/ PollOne(i, c)
    \/ YieldMessage(i, c)
    \/ YieldState(i, c)
    \/ CommitPage(i, c)
    \/ PollCompletes(i, c)
    \/ PollFails(i, c)
    \/ PollFenced(i, c)
    \/ CancelPoll(i, c)
    \/ CancelCommit(i, c)

CycleStep(i) == PollCycle(i) \/ \E c \in Config : PollStep(i, c)

Lifecycle(i) == Interrupt(i) \/ Exit(i) \/ Crash(i) \/ Restart(i)

Next ==
    \/ \E i \in Instance :
           ListenerStep(i) \/ LoopStep(i) \/ CycleStep(i) \/ Lifecycle(i) \/ GroupStep(i)
    \/ \E t \in Partition : PageTimesOut(t)
    \/ RebalanceCompletes

Spec == Init /\ [][Next]_vars

(***************************************************************************)
(* Fairness.  Every await of the program returns, a source that has items  *)
(* yields them (SF: a poll may end early, but not every time), the         *)
(* orchestrator restarts what exited, and the group protocol keeps going.  *)
(* Nothing is assumed about faults, evictions and timeouts.                *)
(***************************************************************************)
\* What the poll of c does next, or what its cancellation does to it.
PollGoesOn(i, c) ==
    \/ PollOne(i, c) \/ YieldState(i, c) \/ CommitPage(i, c) \/ PollCompletes(i, c)
    \/ PollFenced(i, c) \/ CancelPoll(i, c) \/ CancelCommit(i, c)

\* A callback of the listener goes on, without the fault.
Callback(i) ==
    \/ OnRevokedStandby(i) \/ OnRevoked(i) \/ OnRevokedAfterFailure(i)
    \/ OnRevokedAgain(i) \/ SuspendTokens(i) \/ OnAssigned(i)

FairInstance(i) ==
    /\ WF_vars(Callback(i))
    /\ WF_vars(LoopStep(i))
    /\ WF_vars(PollCycle(i))
    /\ WF_vars(Exit(i) \/ Restart(i))
    /\ WF_vars(GroupStep(i) /\ (NoticeRebalance(i) \/ SessionExpires(i)))
    /\ \A c \in Config : WF_vars(PollGoesOn(i, c)) /\ SF_vars(YieldMessage(i, c))

FairSpec ==
    /\ Spec
    /\ WF_vars(RebalanceCompletes)
    /\ \A i \in Instance : FairInstance(i)

-----------------------------------------------------------------------------
(* What should hold *)

RunnerTypeOK ==
    /\ pc \in [Instance -> Location]
    /\ fatal \in [Instance -> BOOLEAN]
    /\ pending \in [Instance -> (SUBSET Partition) \cup {NoAssignment}]
    /\ tokens \in [Instance -> SUBSET Partition]
    /\ tasks \in [Instance -> SUBSET Partition]
    /\ starting \in [Instance -> SUBSET Partition]
    /\ cycle \in [Instance -> Cycle]
    /\ failed \in [Instance -> BOOLEAN]
    /\ faults \in 0..MaxFaults

PollTypeOK ==
    /\ poll \in [Instance -> [Config -> Poll]]
    /\ local \in [Instance -> [Config -> Cursor]]
    /\ base \in [Instance -> [Config -> Cursor]]
    /\ cursor \in [Instance -> [Config -> Cursor]]

\* The variables the code, its consumer and the brokers keep, by their types.
TypeOK ==
    /\ BrokerTypeOK
    /\ GroupTypeOK
    /\ RunnerTypeOK
    /\ PollTypeOK

\* From cursor to Kafka exactly-once (ExtractorRunner's docstring): downstream
\* holds the items behind the committed cursor once and in order - with zombies,
\* crashes, handovers in the middle of a page and timeouts.
ExactlyOnce ==
    \A c \in Config : output[c] = [n \in 1..Durable(c) |-> n]

\* No cursor is committed ahead of the items it accounts for (Extractor.poll):
\* an item that was skipped is never extracted again.
NoItemSkipped ==
    \A c \in Config : \A n \in 1..Durable(c) : n \in ToSet(output[c])

\* No state entry has two owners (token_for): the rebalance lock and the reset
\* of runner.pending keep a token from being resurrected after its revocation.
\* As long as no live member is evicted.
OneOwner ==
    \A i, j \in Instance : i # j => tokens[i] \cap tokens[j] = {}

\* The barrier (TokenRebalanceListener): once a revoke callback has returned, no
\* poll of this instance is in flight, unless the process is about to end.
RevokeIsBarrier ==
    \A i \in Instance :
        listener[i] = "joining" /\ pc[i] # "unwinding" => Quiet(i)

\* A poll about to start on an unfenced token reads the committed cursor: nothing
\* of an aborted page or of an earlier generation is left in the local store.
ReadsCommitted ==
    \A i \in Instance, c \in Config :
        /\ poll[i][c] = "queued" /\ cycle[i] = "polling" /\ pc[i] # "unwinding"
        /\ holder[Token(c)] = i
        => local[i][c] = Durable(c)

\* A rebalance is never stuck on a member whose cycle is polling (cancel_cycle).
RebalancesEnd == rebalancing ~> ~rebalancing

\* What a callback or a poll failed with ends the process (run_sharded).
FailureSurfaces ==
    \A i \in Instance : fatal[i] \/ cycle[i] = "failed" ~> pc[i] = "down"

AllExtracted == \A c \in Config : Durable(c) = NumItems

\* Once the group has settled, every config is polled to the end of its source.
Progress == <>[](~rebalancing /\ members # {}) => <>[]AllExtracted

Source == INSTANCE Extraction WITH cursor <- [c \in Config |-> Durable(c)]

\* Every commit is one page that starts where the committed cursor stands.
ExtractsExactlyOnce == Source!Spec
====

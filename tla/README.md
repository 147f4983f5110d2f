# A verification development of flechtwerk

Flechtwerk runs *stages* between Kafka topics: extractors that poll a source
and transformers that fold input records into state and output, both with
exactly-once semantics built from Kafka transactions, static transactional IDs
and a changelog topic.  What is hard about it is not in one function: it is in
the order in which awaits of the main loop, callbacks of the consumer group,
other instances and the brokers come between each other.  This directory models
that with TLA+, checks it with TLC and proves the main safety results with TLAPS.

## 1. Inventory

All paths are relative to `src/` of the repository unless they start with `flechtctl/`.

| Component | State it keeps | Operations | What makes it correct |
|---|---|---|---|
| `flechtwerk/transformer.py` `TransformerRunner`, `Task`, `TaskRebalanceListener` | `batch_lock`, `fatal`, `pending`, `tasks`; per task a producer and a store; the consumer's assignment, pauses and positions | `run`, `start_pending_tasks`, `start_task`, `close_tasks`, `process_batch`, `send_transactional`, the two callbacks | each input record takes effect once: output, state and offset together, on the state its predecessors left; a rebalance always ends; a settled group drains its input |
| `flechtwerk/extractor.py` `ExtractorRunner`, `TokenTask`, `TokenRebalanceListener` | `cycle`, `entries`, `fatal`, `pending`, `rebalance_lock`, `tasks`, `tokens`; one shared local store | `run_sharded`, `run_dispatched`, `start_pending_tokens`, `suspend_tokens`, `cancel_cycle`, `poll_cycle`, `poll_one`, `apply_config`, the callbacks | a page and its cursor commit together; a config is polled by one instance; nothing of an old generation survives a handover |
| `flechtwerk/mqtt.py` `MqttExtractor` | session, subscriptions, per-filter buffers, pending acknowledgements | MQTT callbacks, `poll`, `on_active_configs` | a message is acknowledged only once its transaction committed, and none is forgotten across reconnects |
| `flechtwerk/configs.py` config store | enriched configs by wire key, their bytes | `bootstrap_config_store`, `apply_config_record`, `drain_config_updates` | a running stage holds what a restart would build; the bytes and the runner's entries agree with it; the read to the end ends |
| `flechtwerk/state.py` stores, `flechtwerk/kafka.py` helpers | RocksDB per task; nothing | `put`, `delete`, `restore`, `close`; `read_to_end`, `restore_changelog` | local store = changelog whenever it is folded onto; a restore reads to the end it captured |
| `flechtwerk/module.py` `Flechtwerk` container | clients, the seat at the exporter, the keyring | `of`, `__aenter__`, `__aexit__`, `run`, client factories, `ensure_topics` | what was opened is closed, wherever a start fails; a transformer's changelog fits its inputs, whoever of the replicas created it; what is set up right comes up |
| `flechtwerk/metrics.py`, `flechtwerk/observer.py` | one exporter per port | `acquire_exporter`, `release_exporter`, counters | the endpoint lives as long as a stage uses it, and no two stages' series merge |
| `flechtwerk/secrets.py`, `flechtwerk/keyring.py` | process keyring | codecs, `encrypt_value`, `reencrypt`, `scan_config_topics`, `install_keyring` | in the middle of a rotation or a rollout, what was meant is what is read; a scope is never dropped |
| `flechtwerk/attribute/`, `flechtwerk/types.py`, `flechtwerk/stage.py` | none | typed views, message types, invalid-message policy | pure |
| `flechtctl/` | keyring files | one-shot commands: `keyring new/add/import/export/primary/signing/remove`, `encrypt`, `decrypt`, `sign`, `verify`, `reencrypt` | a keyring that is written is well formed; a rotation ends with the old key gone |
| `flechtwerk/testing.py`, `hooks/`, `tools/`, docs | - | - | not part of a deployment |

Interactions.  Kafka's group coordinator assigns partitions (or tokens) to
instances; aiokafka's coordinator task on the same event loop calls the
listener, which shares `pending`, `fatal` and a lock with the main loop.  A
task's producer fences every earlier producer of the same transactional ID
(`InitProducerId`), its store writes into the same transaction, and a restore
reads the changelog up to the last stable offset (LSO).  Hard behaviours are
listed, each at its line, under `hazards` in `PROJECT.json`.

## 2. Modules

| Module | Models | 
|---|---|
| `Runners` | the instances of a stage and the partitions they divide |
| `Records` | input records, the fold and its outputs |
| `Delivery` | the abstract promise: atomic batches, exactly-once or at-least-once |
| `Transactions` | external: transaction coordinator, committed offsets, changelog, output |
| `ConsumerGroup` | external: group coordinator and the eager protocol of aiokafka |
| `Transformer` | `TransformerRunner`, its listener, its process |
| `MCTransformer` | TLC instances of it |
| `TransformerProofs` | the theorems that hold with evictions |
| `TransformerOnceProofs` | exactly-once until a live member is evicted |
| `PageLog` | external: transaction coordinator, a changelog whose partitions tokens share, output |
| `Extraction` | the abstract promise: pages that start at the committed cursor |
| `Extractor` | `ExtractorRunner.run_sharded`, its listener, its cycle task, its process |
| `MCExtractor` | TLC instances of it |
| `ExtractorLeaseProofs` | types, threads of control, whose tokens are whose |
| `ExtractorPageProofs` | pages, cursors, the refinement of `Extraction` |
| `Relay` | the abstract promise: a message leaves the broker's session once it is in Kafka or dropped |
| `MqttBridge` | `MqttConnection`, `MqttSubscription`, `MqttExtractor`, `ExtractorRunner.run_dispatched`, the process; external: the session at the MQTT broker |
| `MCMqttBridge` | TLC instances of it |
| `MqttBridgeProofs` | lemmas about sequences and what a poll does to them; the theorems |
| `Wire` | `kafka.py`: what a record's key and value decode to, and the invalid-message policy |
| `TopicLog` | external: the partitions of the config topics, with transactions, aborted records and markers |
| `ConfigStore` | `configs.py`, `read_to_end`, and the entries an extractor's runner keeps beside the store |
| `MCConfigStore` | a TLC instance of it |
| `ConfigStoreProofs` | the theorems |
| `Container` | `module.py`, the exporter table, the installed keyring; external: TaskGroup, process, topics, metadata |
| `MCContainer` | a TLC instance of it |
| `ContainerProofs` | the theorems |
| `Tokens` | pure: keyrings, their validation and edits, tokens, the codecs of an attribute |
| `Rotation` | the keyring files, the processes that load them, the topic, the operator |
| `MCRotation` | a TLC instance of it |
| `RotationProofs` | the theorems |

`Transformer` EXTENDS `Transactions` and `ConsumerGroup`, `Extractor` EXTENDS
`PageLog` and `ConsumerGroup`: a step of the program that calls them is one
action that conjoins their operator.  `ConfigStore` EXTENDS `TopicLog`, which EXTENDS
`Wire`, in the same way, and `Rotation` EXTENDS `Tokens`.  `Container` stands for
itself: its handles' `running` is where the runners of the other modules begin.

### State and actions of `Transformer`

An action is the code between two awaits at which something else can run.

| Code | Model |
|---|---|
| `run()`'s program counter | `pc`: `entering` (in the stage's `__aenter__`, already subscribed), `top`, `starting`, `fetch`, `polling`, `drain` (records in hand, `check_config_updates` awaited), `batch`, `unwinding`, `down` |
| `batch_lock` | held exactly in `starting` and `batch` (`LockHeld`) |
| `fatal`, `pending` | the same; `fatal` as a flag, since only whether it is set matters |
| `tasks` and the `start_task()` coroutines | `status`: `init`, `fenced`, `restored`, then `running` = in `tasks` |
| a task's local store | `local`, one folded state per partition |
| the records `getmany()` returned | `fetched`, the slice `from+1 .. to` of each partition |
| `send_transactional()` | `step`: `todo`, `written` (outputs and state sent, local store written), `offsets`, then commit |
| `consumer.assignment()`, pause, positions | `assigned`, `paused`, `position` |
| `on_partitions_revoked` / `..._assigned` | `OnRevoked`, `OnRevokedFails` / `OnAssigned`, `OnAssignedFails` |
| `start_pending_tasks`, `start_task` | `StartPendingTasks`, `FenceTask`, `RestoreTask`, `RunTask`, `StartTaskFails` |
| `getmany` | `CallGetmany`, `GetmanyTimesOut`, `GetmanyReturns` |
| the locked half of the loop, `process_batch`, `send_transactional` | `BeginBatch`, `TransformFails`, `WriteBatch`, `SendOffsets`, `CommitBatch`, `BatchFenced`, `BatchFails` |
| leaving and restarting | `Exit`, `Crash`, `Restart`, `EnterStage` |

Decisions a reader should know of:

- **Data.** A partition is the records `1..NumRecords`; the fold counts them,
  and an output names its record and the state it was folded onto.  That tells
  loss, duplication, reordering and a wrong state apart, which is all the
  properties need.  Buckets by state key are folded as one.
- **Epochs.** `holder[p]` is the instance whose `InitProducerId` was last;
  everything an epoch decides is whether a producer is the holder.
- **The local store of a crashed process is lost.** The code restores into a
  fresh temporary directory (`module.py`, `path`).
- **`top` waits for a revoke callback only.** Acquiring a free lock does not
  yield to the event loop, so `OnAssigned` cannot come there.
- **`MaxBatch` bounds each partition** of a batch, not their sum.
- **A commit is one step.** The time between `EndTxn` and the last marker is
  the broker's and is not modelled.

External behaviour assumed, beyond the Kafka protocol itself: the revoke
callback completes before every join attempt (eager protocol); `getmany()`
waits for a rebalance of its consumer, but one already past that point returns
on its timeout in the middle of a later one; positions are looked up for
paused partitions too, from the offset committed at that time; a member that
was evicted while it lives keeps its assignment until it notices; the assignor
is any function from partitions to members.

### State and actions of `Extractor`

| Code | Model |
|---|---|
| `run_sharded()`'s program counter | `pc`: `pump` (before `getmany()`), `polling` (inside it), `drain`, `fencing` (in `start_pending_tokens`, under the lock), `unwinding`, `down` |
| `rebalance_lock` | held in `fencing` and while a revoke callback cancels a cycle (`LockHeld`) |
| `fatal`, `pending`, `tokens`, `tasks` | the same; `pending` tells `None` (no assignment) from the empty set (a standby) |
| the `start_task()` coroutines | `starting`, the tokens whose producer has not started yet |
| `cycle` (the background task) | `cycle`: `idle`, `polling`, `failed`, `cancelled`; `failed`: a poll of the gather raised |
| `poll_one()` | `poll`: `queued` (waiting for the token's lock), `paging` (the generator runs), `closing` (state written and sent, `EndTxn` under way) |
| `inner_store`, `committed`, what the generator yielded | `local`, `base`, `cursor`, per config |
| `on_partitions_revoked` | `OnRevokedStandby` (nothing to do), `OnRevoked` then `SuspendTokens` or `SuspendTokensFails`, `OnRevokedAfterFailure` (the cycle had died), `OnRevokedAgain` (it is being torn down elsewhere) |
| the main loop | `CallGetmany`, `GetmanyReturns`, `NothingPending`, `StartPendingTokens`, `StartTask`, `Restore` |
| a cycle and its polls | `PollCycle`, `PollOne`, `YieldMessage`, `YieldState`, `CommitPage`, `PollCompletes`, `PollFails`, `PollFenced`, `CancelPoll`, `CancelCommit` |
| leaving and restarting | `Interrupt`, `Exit`, `Crash`, `Restart` |

Decisions a reader should know of:

- **Data.** A config's source is the items `1..NumItems`, re-read from any cursor;
  the state under a state key is one cursor per config that shares the key.
  `KeyOf`, `TokenOf` and `LogOf` say how configs share state keys, state keys
  tokens (`token_for`) and state keys changelog partitions (the producer's key
  hash).  The source keeps the contract of `Extractor.poll`: a page is one or
  more items and then a State; a poll may end after any State.
- **The local store is one for all tokens.**  It is wiped by `close_tasks()` only,
  and a restore overwrites what the changelog holds and leaves the rest.
- **A cancelled commit** is carried out or left open: aiokafka shields the
  `EndTxn` request from the cancellation, and a producer that is committing
  refuses to abort.
- **A changelog partition is a set of records with offsets.**  What is asked of it is the last
  record of a key, what is before the LSO, and what one token's transaction holds: each is a
  subset, where a sequence would have to be filtered and re-indexed.
- **A restore is one step** at the LSO it captured.  A record of an aborted
  transaction is left out of the log, since no reader sees it.

Assumed of aiokafka as for the transformer.  The configs do not change here: what
records on the config topic make of the store and of the entries is `ConfigStore`,
configs that come and go while polls run is `MqttBridge`.

### State and actions of `MqttBridge`

| Code | Model |
|---|---|
| the persistent session (external) | `filters`, `absorbed`, `unacked`, `sent` (over this connection, at most `Window`), `pubacks` (on their way) |
| the connection and `conn.error` | `conn`; `lost` is an error that `drain()` will raise |
| `desired`, `subscriptions`, `unrouted`, `wakeup` | the same, `subs` for the views |
| a view's `items`, `pending_acks` | `items`, `acks`, per topic |
| `mqtt_message_dropped()` | `dropped` |
| `entries` of the runner, without suspended ones | `entries`, against `configs` on the config topic |
| `cycle_loop()`, `poll_one()` | `cycle`, `poll`; `batch` and `forwarded` of the poll that holds the lock, `forwarded` being its open transaction |
| paho's callbacks | `Deliver` with `OnMessage`, `OnConnect`, `OnDisconnect` (also a refused CONNECT) |
| `reconcile()`, `unsubscribe()` | `Reconcile`, `Dispose`, at the start of each `PollCycle` |
| `idle()` | `IdleWakes`, `IdleTimesOut`, each with the cycle that follows at once |
| `poll()` up to its first message | `PollStarts`: subscribe, acknowledge, drain, re-arm |
| a message of the batch | `RelayMessage` or `DropMessage` |
| the end of the poll | `CommitPage`, `CommitFails`, `SendFails` with `RollBack` |
| the main loop | `LoadInitialConfigs`, `CheckConfigUpdates`, `Exit` |

Decisions a reader should know of:

- **A topic is the filter of one config**, active or not.  Overlapping filters are
  excluded by the docs; rewriting a config to another topic is removing one and
  adding another.  A filter left in the session by an earlier deployment is an
  initial state.
- **Messages are numbers** in the order of publication; the broker delivers what a
  session holds in that order, anew on every connection.
- **`unrouted` is kept per topic.**  The code holds one list for all; what becomes of a
  held message depends on its own topic only, and the order across topics is no property.
- **An acknowledgement takes time** and is lost with the connection.  SUBSCRIBE and
  UNSUBSCRIBE take effect at once: a message published before one arrives is the
  same as one published earlier.
- **Once per process.**  `landed` is what the running process has
  committed, per topic, and starts over with it; `output` is what Kafka has.
- **The rollback cannot be told from its absence here**: in the dispatched loop
  every failed poll ends the process, and with it the buffer.  It is modelled
  because it is part of the step, and matters to stateful stages on tokens.

### State and actions of `ConfigStore`

| Code | Model |
|---|---|
| where the stage is | `pc`: `down`, `reading` (in `read_to_end()`), `applying` (records to the store, then to the entries), `running` |
| the consumer's positions, the end captured at entry | `position`, `end` |
| records that a `getmany()` returned and that are not handled yet | those of `log` from `handled` to `position` (`InHand`, `NextOf`) |
| `latest` of `bootstrap_config_store()` | `latest`, the surviving raw record per key |
| the messages `bootstrap_config_store()` or `drain_config_updates()` will return | `applied` |
| `ConfigStore._raw`, `_nbytes` | `store`, `nbytes` |
| `ExtractorRunner.entries` | `entries`: the config, and what `extract_state_key()` saw of the record (`keyedBy`) |
| `_put`, `_delete`, `apply_config_record` | `Put`, `Delete`, `ApplyConfigRecord` over a record of both, `Apply` |
| `decode_key_mediated`, `decode_event_mediated` | `DecodeKeyMediated`, `DecodeEventMediated`, with the outcomes value, substitute, `Skip`, `Raise` |
| `read_to_end()` of `bootstrap_config_store()` | `Bootstrap`, `ReadBatch` (one `getmany()`), `CollectRecord` (`collect()` of a record), `EndOfRead` |
| its loop over `latest` | `ApplySurvivor` |
| `check_config_updates()` of either runner, `drain_config_updates()` | `CheckConfigUpdates` (the `getmany()`), `ApplyDrained` (a record) |
| `apply_config()` for each record that came back | `SyncEntry`, then `BackToLoop` |
| whoever writes the config topics | `Write` |

Decisions a reader should know of:

- **Records are handled one by one**, each at an await: a stage may go down between any two.
  A drain handles its partitions in any interleaving, of which the code's, partition
  by partition, is one; records of a partition never change once they can be fetched,
  so the records in hand are read off the log.
- **Values** decode, or do not in one of three ways; `Enrich` is a permutation without
  fixed points, so that enriching twice is not enriching once.  A suspended config is
  a value like any other here: it stays in the store, and whether it is polled is
  read off it later (`MqttBridge`).
- **A key keeps to a partition**, as a keyed producer has it, or is written to both, as
  a tool may.  `NoDivergence` says for the second kind what it can: one of the last
  records of the partitions.  For it two boots may differ.
- **A partition's offsets** include those no consumer is handed: aborted records and
  control records.  The position moves over them, which is how the read ends.
- **What `on_invalid_message` raises** ends the stage; it is restarted by the orchestrator.

### State and actions of `Container`

A handle is a `Flechtwerk` instance: a stage in a process.  An action is what the code
does from one await to the next; `pc` names the await the handle is suspended at.

| Code | Model |
|---|---|
| what `Flechtwerk.of()` is given | `deployment`, which never changes: kind, topics, poll interval, TLS, metric families, labels, keyring |
| `metrics._exporters[port]` | `exporter[i]`: families, seats (`holders`), whether the server runs |
| `keyring._keyring` | `keyring[i]` |
| the clients a handle has open | `open`: admin, consumer, config consumer, membership consumer |
| the exporter, the keyring, `validate_*` | `Enter`, which has no await |
| `ensure_topics()` | `StartAdmin`, `CheckConfigTopics`, `CountInputs`, `CreateChangelog`, `DescribeChangelog`, `CloseAdmin` |
| the consumers of `__aenter__` | `StartConsumer`, `StartConfigConsumer` |
| a sharded runner's first steps | `CountTokens`, `EnsureChangelog`, `StartMembershipConsumer` |
| the `except` of `__aenter__`, `__aexit__` | `StopClient` in `undo` and `stop`, `WipeInnerStore` |
| an exception or a cancellation at an await | `Raise`, by `Fails`, `Abort`, `Interrupt`; `Unwound` says where it leads |
| the process and the cluster | `ProcessEnds`, `Kill`, `MetadataSpreads`, `Grow` |

Decisions a reader should know of:

- **Co-hosted stages** run in one `asyncio.TaskGroup`, as `docs/guides/getting-started.md` has it: the first that
  ends cancels the others, and the process is started anew when all have ended.
- **A `start()` that raises** may leave the client holding connections or not; a client
  counts as open until its `stop()` has been called.
  The admin clients are the exception: both are started outside their `try`
  (`module.py:533`, `module.py:751`), so one whose `start()` raises is never closed by
  the code, and the model takes it to hold nothing.  `EnsureChangelog` takes the start, the
  creation and the close of its own admin client as one step.
- **`unclean`** marks a handle in which a call that closes something raised or was
  cancelled.  The code does not go on closing the others then, and
  `LeavesNoClientOpen` does not ask it to: the process ends with the handle.
- **Topics** are counted, not filled; partitions are only ever added.

### State and actions of `Tokens` and `Rotation`

`Tokens` has no state: keyrings are records of what is held under each kid, the
private halves, the bindings to scopes, the primaries and the signing keys; a token is a record
of what it names and is stamped with, and opens under that key only.  `Decode` and
`Encode` are the codecs `STR`, `ENCRYPTED(STR)` and `ENCRYPTED(SIGNED(STR))`.

| Code or procedure | Model |
|---|---|
| the readers' and the writer's keyring file | `file` |
| what a process installed at its start, the declaration it was deployed with | `ring`, `version` |
| the attribute in the surviving record of each config, and what was meant | `topic`, `value` |
| what `scan_config_topics()` still sees of superseded records | `stale` |
| `keyring add`, `import`, `primary`, `remove` | `Add`, `Import`, `Promote`, `Retire`, each through `Save`, which validates |
| `reencrypt()` of a sweep | `BeginSweep`, `Sweep`, `EndSweep` |
| an `encrypt_value()` or a typed write | `Edit` |
| start with the keyring file | `Deploy` (the next declaration), `RestartAsIs` |

Decisions a reader should know of:

- **The operator follows `docs/concepts/secrets.md`**: the guards of
  `MayDeploy`, `Promote` and `Retire` are its sentences ("readers before writers", "once
  every reader shows the key", "once the scan names the old kid no more"), read off
  what an operator can see.  What is checked is that these procedures are enough, in every
  order they leave open and with processes restarting in between, for the code
  as it is - and that they can be completed.  In two places the operator is a little more
  careful than the sentences are: it promotes the successor for the scope before it does so
  for the rest, and retires a key only when no writer may still seal under it (`SealsUnder`, see
  `OldIsSpent` in section 5).  They are external; the keyring's
  validation, the tokens and the codecs are the code's.
- **A plain value** is any string that does not have the form of a token (`flenc:`, `flsig:`): a
  plaintext that does would be taken for one by the tolerant codecs of the code, too.
- **"No read takes the unsigned branch"** is read with what that branch does: it is
  taken for a token without a signature and for a plaintext value.
- **Where a rotation starts** (`StartAssumption`): the readers can open what the writer
  seals and verify what it signs; the key to retire is theirs, the new one nobody's.
- **What a rollout is** (`RolloutAssumption`): the first declaration reads plaintext, which is
  what is there; what one declaration seals, scopes or signs, the next ones do; a
  signature has a scope and is inside a token.
- **An edit of a file is atomic** (`write_private()` renames); two edits at one time are
  left out.
- **A sweep may be run without its `--scope`.**

## 3. Runs

Two instances in the runs of the transformer and the sharded extractor: every hazard of a handover needs an old and a new owner,
none needs a third.  The runs of the transformer have one partition; that siblings in one process - a
`start_task()` or a transaction that fails beside another that goes on - do no harm to each other is what
the theorems say, for any number of partitions.  `MaxFaults` bounds crashes, failing calls, failing
callbacks and transaction timeouts together; `MaxEvictions` bounds evictions of
live members; `NumRecords`, `MaxBatch` bound the data.  Group steps and
rebalances are not bounded.

| Run | Bounds | Checks |
|---|---|---|
| `exactly_once` | 1 partition, 2 records, batches of 1-2, 1 fault, no eviction, fairness | `TypeOK`, `ExactlyOnce`, refinement of exactly-once delivery, `RebalancesEnd`, `Progress`, `FatalSurfaces` |
| `zombies` | 1 partition, 2 records, 1 fault, 1 eviction | `StateMatchesOutput`, `NoLoss`, the inductive invariant `IInv`, refinement of at-least-once delivery |
| `zombie_handover` | 1 eviction, no fault | expects `ExactlyOnce` violated |
| `stale_pending` | no eviction, no fault | expects `OnlyPreviousOwnersFenced` violated |
| `pages` | 1 config, 2 items in pages of 1-2, 1 fault, 1 eviction | `TypeOK`, `ExactlyOnce`, `RevokeIsBarrier`, `ReadsCommitted`, refinement of `Extraction` |
| `extractor_progress` | 2 configs with a state key each on one token, 1 item, 1 fault, no eviction, fairness | `ExactlyOnce` side by side, `OneOwner`, `RebalancesEnd`, `Progress`, `FailureSurfaces` |
| `shared_changelog` | 2 configs on a token each, one changelog partition, 1 item, 1 fault | expects `ExactlyOnce` violated |
| `shared_state` | 1 instance, 2 configs on one state key, 1 fault | expects `NoItemSkipped` violated |
| `mqtt` | 2 topics (one whose config changes twice), 4 messages (one poison), window 3, batches of 1-2, 1 fault, fairness | `TypeOK`, `OnceInOrder`, `WakesForBacklog`, the inductive invariant `IInv`, refinement of `Relay`, `EventuallyRelayed` |
| `configs` | 2 partitions, 2 keys, 3 records of 7 kinds, 1 crash, fairness | `TypeOK`, `NoDivergence`, `StoreAndEntriesAgree`, `ComesUpToDate` |
| `container` | 2 processes, 2 stages, 7 deployments, 2 topics of up to 2 partitions, 2 faults, fairness | `TypeOK`, `EndpointServes`, `CoHostedAgree`, `ChangelogMatches`, `LeavesNoClientOpen`, `ComesUp` |
| `rotation` | 2 readers, 1 writer, 1 config, 5 declarations, 3 successors, 1 edit, fairness | `TypeOK`, `ReadsWhatWasMeant`, `ScopeNeverDropped`, `RotationEnds` |

The bounds of the extractor are `NumItems`, `MaxPage`, `MaxFaults` (which also
counts an interrupt of the main task) and `MaxEvictions`.  Two items in pages of
one or two give a page of two, two pages, and a page behind a committed one; two
configs on two tokens are the smallest system in which a token's restore can see
another token's transaction (`shared_changelog`), and two configs on one token the
smallest in which polls wait for each other's lock and one fails while the other
is queued (`extractor_progress`); one fault ends a process or a poll at every point.

For the MQTT bridge, three messages of the lasting topic exceed the drain limit of
two, so that leftovers and a batch of two both occur, in between which the other
topic's message arrives; two config changes add a topic and take it away again, or
take away what was added while its messages are buffered; and the one fault is a
crash, a lost or refused connection, or a failed send or commit at any point.

For the transformer, two records with batches of one or two give a batch of two, two batches, and a
batch behind a committed one; one fault already reaches every error path, and
whatever a second fault could do it would do to a process that restarted fresh.

For the config store, three records (`MaxRecords`) let a key be set, replaced and deleted, or let a
transaction abort between two records of a key, while the other partition moves; every kind of
record can meet every other under its key.  The crash (`MaxFaults`) comes at any point.

For the container, one deployment is in order with two replicas, one with two
hops in a pod, and five are wrong in one way each (equal labels, a poll interval of 0, other
families, another keyring, a broker without authentication); topics start with any
number of partitions and are grown up to `MaxPartitions`.  Two faults (`MaxFaults`) are a
failure and one more while it is being undone, or one in each process.

For the rotation, two readers and a writer are the least that can be upgraded one after the other;
the five declarations are plain, tolerant of plaintext, scoped, tolerant of unsigned values, and
signed; the successor is an oct key, a recipient key bound to the scope, or one that nobody bound, which
flechtctl refuses.  One edit (`MaxEdits`) comes at any point, the initial value being there from the start.
Deadlock is not checked there, since the procedure ends.

**Fairness** (`FairSpec`).  Weak fairness of everything the program or its
client does next: an await of Kafka returns, a callback whose lock is free runs,
the orchestrator restarts what exited, the group coordinator completes a
rebalance all members joined and expires dead sessions.  `GetmanyReturns` has
strong fairness: that records keep being available and are never returned would
otherwise be possible, since the timeout of `getmany()` disables it each time.
Faults, evictions and timeouts have no fairness.  `Progress` has the premise
that the group settles: without it, two instances that fence each other through
stale `pending` sets can go on forever, which the first finding is about.

The extractor's `FairSpec` is per loop, callback and poll: weak fairness of the listener's
callbacks, of the main loop, of a cycle, of the way out and back of a process, of the group's answers,
and of each config's poll going on; `YieldMessage` has
strong fairness: a source may end a poll before it yields its next item, but one
that has items yields them in some poll.  `Progress` has the same premise.

The bridge's `FairSpec` is weak fairness of the broker's deliveries, of the event
loop's steps, of the restart and of the poll interval.

The config store's is weak fairness of the stage's process as a whole (`Run`): it restarts,
its fetches return in the end, its loop goes on.  Writers are under no obligation, and a
transaction may stay open for ever: its records are then beyond `stable`, and up to date is up to there.

The container's is weak fairness of each handle's coming up and going down (broker calls
return or raise), of the TaskGroup's cancellation, of the restart, and of
the brokers' metadata.  Nothing makes an operator repair a topic: `ComesUp` has that as its premise.

The rotation's is weak fairness of each process' rollout or restart, of compaction, and of the
operator as a whole: some step that is open to them is taken, in any order.

## 4. Findings

- **`stale_pending`**: `on_partitions_revoked` closes the tasks but does not
  clear `runner.pending` (`transformer.py:224-233`; the extractor's listener
  does, `extractor.py:350-353`).  An assignment that is revoked before the main
  loop took it over is started later nevertheless, and fences the instance the
  partition now belongs to.
- **`zombie_handover`**: the new task resumes at the position its consumer
  looked up when the partition was assigned, which is before the fence.  An
  evicted owner that commits in between makes the new owner process that batch
  again.  `docs/concepts/exactly-once.md:98` calls the handover safe.  What does
  hold with evictions is proved: nothing is lost, and state and output agree.  And
  it takes the eviction: up to the first one exactly-once is proved
  (`ExactlyOnceUntilEviction`).

- **`shared_changelog`**: a restore reads up to the LSO of the changelog's
  partitions (`extractor.py:715`), and only the tokens of this instance were
  fenced before it.  The changelog is created with the broker's default partition
  count (`module.py:535`, `state.py:276-277`), so tokens share its partitions,
  and an open transaction of another token - its owner crashed, its new owner has
  not fenced it yet - hides committed cursors behind it.  A committed page is then
  extracted again, against `docs/concepts/architecture.md:60` ("the changelog
  needs no partition alignment ... cursors never regress").
- **`shared_state`**: `commit_boundary()` writes the local store before the commit
  (`extractor.py:934`).  After an abort the process ends, but not before the other
  polls of the `gather()` ran: one on the same state key commits the cursor of the
  aborted page, whose items are then never extracted.

Divergences read off the code on the way, without a run of their own:

- `on_disconnect()` sets the wakeup so that the error surfaces "now instead of up to
  poll_interval later" (`mqtt.py:525-528`), but `drain()` raises only from an empty buffer.
  With messages buffered the wakeup is used up by draining them, and the error
  waits for the poll interval.
- Acknowledgements leave at the next poll only (`mqtt.py:826`), and only arrivals start it
  early.  When a window's worth of messages is committed and not acknowledged, nothing
  can arrive, and what is behind waits for the poll interval - against
  `docs/guides/mqtt.md:12` ("sub-second rather than poll-interval-bound").
- `configs.py:22-25` has it that the store "cannot diverge from what a fresh boot would
  build".  For a key that is written to two partitions it can, with its last records in the
  order they happened to be fetched; and where `on_invalid_message` skips a
  key's last record, a boot has nothing and a drain keeps the value before it.
  `NoDivergence` leaves out exactly these, and `StoreIsDetermined` proves the sentence for the rest.
- `apply_config()` reads a store that holds the whole drain (`extractor.py:869`): a tombstone
  with a later value of its key in one drain is a config update whose record has no
  value, so `extract_state_key()` sees `None` once before it sees the value.  The entry that stays is
  the last record's (`StoreAndEntriesAgree`).
- An `__aenter__` that fails or is cancelled keeps its seat at the exporter and the secret observer's
  binding (`module.py:801-811` calls `__aexit__` only for a handle that came
  up).  The process ends with it, so nothing is served for nobody; a test that
  opens a second handle in the process would be refused.
- `scan_config_topics()` reports tokens at the top level of a record: one nested in a list or
  a record does not hold a key's removal up.

## 5. Theorems

`TransformerProofs` proves, for every set of instances and partitions and every
value of the bounds, from the constants' assumptions alone:

| Theorem | Statement |
|---|---|
| `Invariance` | `Spec => []IInv` |
| `TypeCorrect` | `Spec => []TypeOK` |
| `StateConsistency` | `Spec => []StateMatchesOutput` |
| `NoRecordLost` | `Spec => []NoLoss` |
| `ImplementsDelivery` | `Spec => DeliversAtLeastOnce` (the abstract specification) |

Neither `StateMatchesOutput` nor `NoLoss` is inductive.  `IInv` adds

- for the state: `LocalCurrent` (an unfenced task that may still fold has the
  changelog's state in its local store) and `TransactionHolds` (the open
  transaction of the holder is the batch in hand folded onto the changelog), with
  `StepInPlace` (a transaction step runs only for a live task with records).
  They are why the fence has to come before the restore, and why a task whose
  transaction was aborted - its local store is ahead - must never fold again;
- for coverage: `ResumedHasTask` (what can be fetched from has a task),
  `FetchCovered` (nothing is missing downstream before the records in hand) and
  `PositionCovered` (a consumer's position is ahead of what is downstream by
  the records in hand only).  They are why assigned partitions are paused, and
  why dropping records between fetch and batch loses none of them: their
  position went with the assignment.  A process that has a `fatal` to raise is
  excused: a callback may have failed with partitions assigned but not paused, yet
  no iteration follows the batch in hand (`LastBatch`).

The proof has one lemma per half and group of actions; the refinement proof
shows that a commit is a `Process` step and every other action a stutter.

`TransformerOnceProofs` proves the other direction, that nothing is processed twice:

| Theorem | Statement |
|---|---|
| `OnceInvariance` | `Spec => []OnceInv` |
| `ExactlyOnceUntilEviction` | `Spec => [](evictions = 0 => ExactlyOnce)` |
| `ImplementsExactlyOnce` | `MaxEvictions = 0` gives `Spec => DeliversExactlyOnce` |

Up to the first eviction of a live member, crashes, failing calls, timeouts and
rebalances notwithstanding, the protection is the group's and not the fence's.
`OnceInv` says so: who has a partition assigned owns it in the group
(`AssignedIsOwned`: a rebalance cannot complete before he gave it up); whoever
has records in hand and a task has the partition assigned and took them from the
committed offset on (`HeldFromCommitted`); so only he moves the committed offset,
and every other position is the committed offset (`PositionCommitted`).  No conjunct
speaks of fences: the stale `pending` set of the first finding, by which an
instance fences the owner of a partition, costs a restart and no record.

`MqttBridgeProofs` proves, for any topics and messages, any window and drain limit,
and any number of faults and config changes:

| Theorem | Statement |
|---|---|
| `Invariance` | `Spec => []IInv` |
| `TypeCorrect` | `Spec => []TypeOK` |
| `NoWakeupLost` | `Spec => []WakesForBacklog` |
| `WrittenOnceInOrder` | `Spec => []OnceInOrder` |
| `ImplementsRelay` | `Spec => RelaysAtLeastOnce` (the abstract specification) |

What `IInv` adds, and why it is needed:

- for the acknowledgements: `PendingIsDurable` says what is pending on a topic is in
  Kafka or in the open transaction of the poll that runs, unless a poll of it has
  failed.  It needs `OnePoll`: one poll at a time holds the lock, and once a cycle
  has failed no further one starts, so that the pending messages of a commit that
  failed are never acknowledged.  `AckedIsSettled` and `LastingKept` say that
  nothing else is ever acknowledged, and that a lasting config's topic is among what is
  reconciled before anything is dropped;
- for the wakeup: `BacklogSeen` carries "buffered implies set" through the cycle:
  while it runs, each topic's buffer has yet to be polled, or has set the event;
- for the order: `InOrder`.  Per topic, what the process wrote, what the open
  transaction and the batch hold, the buffer and what the broker has still to
  deliver form one ascending chain (`Chain`), of which reconnecting, draining,
  rolling back and dropping move or remove pieces and never swap two.

The conjuncts are disturbed by different actions, so the proof has a lemma per conjunct
with a step per action; `Routed` says that no topic's messages reach another's
buffers, so that an action at one topic leaves the chains of the others alone.

`ContainerProofs` proves, for any processes, stages, topics, deployments and faults:

| Theorem | Statement |
|---|---|
| `Invariance` | `Spec => []IInv` |
| `TypeCorrect` | `Spec => []TypeOK` |
| `EndpointAlive` | `Spec => []EndpointServes` |
| `CoHostedStagesAgree` | `Spec => []CoHostedAgree` |
| `ChangelogFits` | `Spec => []ChangelogMatches` |
| `NoClientLeft` | `Spec => []LeavesNoClientOpen` |

`LeavesNoClientOpen` speaks of handles that are gone only, and `ChangelogMatches` of those past
their checks.  `IInv` adds what leads there:

- `ClosedAhead`: a client is open only while the handle is where an await ahead
  of it, or the way an exception there takes, closes it - unless a closing call itself raised.  For every
  place and every client this is one line of `Unwound` against one of `StopClient`;
- `ChangelogInPlace`: what was counted and what the changelog has, from the count on.  A changelog is created once and never
  changes, so what one replica found right stays right for it, however
  the input topics are grown;
- `SeatsHeld`: who is up has its own seat, and its families and keyring are the process'; two handles
  that are up have different labels.  A seat that its owner never left
  only makes the endpoint refuse more.

`ExtractorLeaseProofs` proves, for any instances, configs, faults and evictions and any layout
of state keys, tokens and changelog partitions:

| Theorem | Statement |
|---|---|
| `LeaseInvariance` | `Spec => []LeaseInv` |
| `TypeCorrect` | `Spec => []TypeOK` |
| `RevokeWaits` | `Spec => []RevokeIsBarrier` |
| `OneOwnerUntilEviction` | `Spec => [](evictions = 0 => OneOwner)` |

`LeaseInv` holds the types and, per instance, `Control`: how the main loop, the listener and
the cycle wait for each other.  A cycle runs only while there is neither an assignment to take over nor a producer
to start; it is cancelled by a revoke callback only, which has taken the tokens away before it awaits;
a member joins without one.  `RevokeIsBarrier` follows only together with these, since a cycle that failed
on its own is the main loop's to clean up and not the callback's.  `HeldIsOwned` is what
`OneOwner` needs: tokens and pending tokens are owned in the group, which has one owner per token.

`ExtractorPageProofs` assumes what the runs `shared_state` and `shared_changelog` drop, and
only that: each config has a state key of its own (`OwnState`), and no two tokens share
a changelog partition (`OwnLog`).  Both `pages` and `extractor_progress` are such layouts.

| Theorem | Statement |
|---|---|
| `PageInvariance` | `Spec => []PageInv` |
| `PagesExactlyOnce` | `Spec => []ExactlyOnce` |
| `CursorNeverAhead` | `Spec => []NoItemSkipped`, the property that `shared_state` violates |
| `PollsReadCommitted` | `Spec => []ReadsCommitted` |
| `ImplementsExtraction` | `Spec => ExtractsExactlyOnce` (the abstract specification) |

Here evictions do no harm.  What protects a page is the fence, since a cursor is read from the
changelog after it and not, as the transformer's position, before.  `PageInv` says: a token
that is held unfenced and has no page in hand has a clean transaction (`CleanBetween`: the
producer was started after the token was taken, a poll that ends has committed, aborted or ended the
cycle); the store then has the committed cursor, of configs that are not polled too (`LocalCurrent`,
which for a restarted process needs `WipedBeforeRestore`: a restore leaves alone what the changelog does not
have); so a page in hand is the items right behind the committed cursor, its transaction
holds those and at most a state with the cursor after them (`PageInHand`), and a commit appends them.
A step at one token leaves the others' transactions and cursors as they were: without
`OwnLog` that fails for a restore, without `OwnState` for the store.

Where these proofs need the last record of a log, they need that a finite set of numbers has a greatest
member.  Induction over sets takes an operator as parameter; the library's well-founded ordering
of finite sets by inclusion (`FS_StrictSubsetOrderingWellFounded`) does not, and a minimal set without
a least member contradicts it (`MinimalMember`).

`RotationProofs` proves, for any number of readers, writers, configs, scopes and keys, any
chain of declarations, any edits and any successor of the key, of either kind and bound to any scopes:

| Theorem | Statement |
|---|---|
| `RotationInvariance` | `Spec => []RotationInv` |
| `TypeCorrect` | `Spec => []TypeOK` |
| `ReadsAsMeant` | `Spec => []ReadsWhatWasMeant` |
| `ScopeKept` | `Spec => ScopeNeverDropped` |

They rest on `StartAssumption` and `RolloutAssumption` (section 2), which the run `rotation`
instantiates.  `ReadsWhatWasMeant` says that a value is read; `RotationInv` says why it still will be after
the next restart and edit:

- `KeyringsDescend`: a keyring, in a file or loaded, is the one its role began with but for the
  key that comes and the key that goes.  So whoever holds a key holds the same
  key (`KeysAgree`);
- `NewIsLoaded`: no keyring seals under the new key before every reader has loaded it -
  what "once every reader's `keyring_keys_loaded` shows the key" is good for;
- `OldIsSpent`: while the readers' file is without the old key, nothing is sealed under it any more, neither by
  a running writer nor by one that starts from its file.  Here the order of the steps
  counts: a scan that finds no old token is not enough, if a writer may still write one;
- `ReadersFirst` and `ToleranceOutlived`: no writer is ahead of a reader, and where a
  reader tolerates plaintext or unsigned values no more, no writer writes them;
- `Legible`: a surviving value is plaintext that every reader tolerates, or a token that the readers' file
  and every running reader open, of a scope their declarations accept, around a
  signature they all verify or an unsigned value they all tolerate.

`SealOpens` joins them: whatever a writer or the sweep seals, every reader opens.
That a sweep works for the least declaration among the readers needs that there is a least one,
which again comes from the inclusion ordering.

`ConfigStoreProofs` proves, for any keys, values, weights, policies and enrichments, any partitions
and any log that writers, transactions, aborts and markers leave in them:

| Theorem | Statement |
|---|---|
| `ConfigInvariance` | `Spec => []ConfigInv` |
| `TypeCorrect` | `Spec => []TypeOK` |
| `StoreNeverDiverges` | `Spec => []NoDivergence` |
| `EntriesAgree` | `Spec => []StoreAndEntriesAgree` |
| `StoreIsDetermined` | `Spec => []BootsAlike`: for a key that keeps to a partition, no two boots differ |

The properties speak of a stage that is back in its loop (but for the byte count); `ConfigInv` of what goes on before:

- `Compacted` and `StoreAsBooted`: bootstrap and drains alike handle each partition in order, so what they
  hold for a key - raw while the topics are read, enriched afterwards - is that of a record which
  is the last one of its partition so far (`LastMoves`).  A survivor that is not applied yet is
  still such a record, for nothing below `stable` changes (`WriteGrows`);
- `EntriesFollow`: an entry agrees with the store unless a record of its key has yet to reach
  it, and the last of those is the one the store's value was built from.  That is why `apply_config()` may
  take the config from a store that holds the whole drain and the state key from a record in
  the middle of it: in between the two disagree, after the last record of the key they do not;
- `BytesCounted`: the incremental count is the number of bytes held.  The sum is stated as the cardinality of
  the set of those bytes, so no induction over the keys is needed, and a
  put or a delete takes out and puts in an interval of them (`CountKept`).

**Only model-checked.**  Every safety property of a passing run is stated by a theorem.  What follows
from fairness is not: `RebalancesEnd`, `Progress`, `FatalSurfaces`, `FailureSurfaces`,
`EventuallyRelayed`, `ComesUpToDate`, `ComesUp` and `RotationEnds` stay with the
runs, and so does the absence of deadlock, which is a matter of ENABLED.
The properties of the runs that expect a violation are false of the code, so there is
nothing to prove; the theorems say where they hold (`CursorNeverAhead` under `OwnState` and `OwnLog`,
`ExactlyOnceUntilEviction`, `OneOwnerUntilEviction`).

## 6. Not modelled

- **Batches of a transformer by state key**: `_process_key_bucket()` folds the records of a key in order
  and `process_batch()` the buckets side by side, on states that are separate by construction.
  `Records` folds a partition as one bucket.
- **Attributes and records** (`attribute/`): typed views over JSON without a state.
- **Cryptography, JOSE encoding, passwords** of `flechtctl` and of the keyring files.
- **Two `flechtctl` edits at a time** of one file: `open_keyring()` and `save_keyring()`
  (`cli.py:252-263`) do not lock, so the later rename wins and the earlier edit is lost.
- **Socket plumbing and TLS** of the MQTT connection, QoS 0 and 2, session expiry and queue limits,
  several replicas of a share group.
- **asyncio's `cancelling()` counter**, by which `cancel_cycle()` tells a cancellation of its own from one
  of the runner.
- **Metrics** other than the exporter's life: counters only count.
- **The test harness, hooks and tools**: no part of a deployment.

## 7. Plan

Done: the transformer, the sharded extractor, the MQTT bridge, the config store, the
composition root, and keys and scopes, and of each the proofs of its safety.  What would come next, in this order:

1. The config store composed with `run_sharded`: a config that changes or goes while its poll
   runs.  The cycle reads the entries while a drain is being applied, which is when they and
   the store disagree (`EntriesFollow`).
2. A second replica of the share group in `MqttBridge`, and the order that is left then.
3. Proofs: exactly-once of the extractor without `OwnLog`, for layouts whose tokens on one changelog
   partition never have a transaction open at one time; that would say what a deployment has to
   give up, or keep, when it has more tokens than partitions.

The runs are at most one per distinct question: sibling partitions of the
transformer are left to the theorems, which hold for all of them at once.

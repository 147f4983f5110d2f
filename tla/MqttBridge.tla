---- MODULE MqttBridge ----
(***************************************************************************)
(* MqttConnection, MqttSubscription and MqttExtractor (flechtwerk/mqtt.py) *)
(* under ExtractorRunner.run_dispatched (flechtwerk/extractor.py): one     *)
(* replica, its session at the MQTT broker, and the loop that moves what   *)
(* arrives into Kafka and acknowledges a message when the next poll of its *)
(* topic begins.                                                           *)
(*                                                                         *)
(* Everything runs on one event loop: paho's callbacks, the main loop that *)
(* applies config records, and the cycle task with the polls it gathers,   *)
(* one of which at a time holds the lock of the only token.  QoS is 1, the *)
(* level the design is for, and a topic stands for the filter of one       *)
(* config: active, or suspended, removed or rewritten to another topic.    *)
(***************************************************************************)
EXTENDS Naturals, Sequences, FiniteSets, Functions

CONSTANTS
    Topic,          \* topic filters, one config each; they do not overlap
    Lasting,        \* topics whose config nobody changes
    None,           \* Python's None
    NumMessages,    \* bound: publishers send 1..NumMessages, in that order
    TopicOf,        \* [1..NumMessages -> Topic]
    Relayed,        \* messages for which relay() returns a Message
    Window,         \* un-acknowledged messages the broker sends ahead
    DrainLimit,     \* MqttExtractor.drain_limit
    MaxFaults,      \* bound: crashes, lost connections, refusals, failed polls
    MaxChanges      \* bound: config changes

Message == 1..NumMessages

ASSUME MqttAssumption ==
    /\ Lasting \subseteq Topic
    /\ None \notin Topic
    /\ NumMessages \in Nat
    /\ TopicOf \in [Message -> Topic]
    /\ Relayed \subseteq Message
    /\ Window \in Nat \ {0}
    /\ DrainLimit \in Nat \ {0}
    /\ MaxFaults \in Nat
    /\ MaxChanges \in Nat

VARIABLES
    \* The MQTT broker: this replica's persistent session.
    published,  \* messages publishers have sent, to whomever
    filters,    \* topics the session has a subscription for
    absorbed,   \* messages it has taken in
    unacked,    \* those it still holds
    sent,       \* those of them it has sent over this connection
    pubacks,    \* acknowledgements on their way to it
    \* Kafka
    configs,    \* topics with an active config on the config topic
    output,     \* messages committed to the output topic
    \* MqttConnection and its MqttSubscriptions
    conn,       \* the connection and conn.error
    desired,    \* conn.desired
    subs,       \* topics in conn.subscriptions
    unrouted,   \* per topic: its messages in conn.unrouted
    items,      \* per topic: subscription.items
    acks,       \* per topic: subscription.pending_acks
    wakeup,     \* the stage's wakeup event
    dropped,    \* messages counted by mqtt_message_dropped()
    \* ExtractorRunner
    pc,         \* where run_dispatched() is
    entries,    \* topics of the active entries
    cycle,      \* the cycle task
    poll,       \* per topic: where its poll_one() is
    batch,      \* what the running poll has drained and not looked at
    forwarded,  \* what it has yielded: its open transaction
    landed,     \* per topic: messages this process committed, in order
    faults, changes

sessionVars == <<published, filters, absorbed, unacked, sent, pubacks>>
viewVars == <<subs, unrouted, items, acks>>
clientVars == <<conn, desired, viewVars, wakeup, dropped>>
pollVars == <<poll, batch, forwarded>>
runnerVars == <<pc, entries, cycle, pollVars, landed>>
boundVars == <<faults, changes>>
vars == <<sessionVars, configs, output, clientVars, runnerVars, boundVars>>

\* Not there; CONNECT sent; usable; conn.error is set.
Connection == {"off", "connecting", "up", "lost"}

\* Not running; before load_initial_configs() has returned; in the main loop.
Location == {"down", "loading", "running"}

\* None; about to run its first cycle; in idle(); polling; ended by an error.
Cycle == {"none", "due", "idle", "polling", "failed"}

\* No poll; waiting for the lock; inside poll(); after its last message; ended
\* in this cycle, well or with an error.
Poll == {"none", "queued", "relaying", "committing", "done", "failed"}

\* conn.desired is None, which is not the empty set of filters.
NotReconciled == {None}

ForEach(value) == [t \in Topic |-> value]

Fault ==
    /\ faults < MaxFaults
    /\ faults' = faults + 1
    /\ UNCHANGED changes

Init ==
    /\ published = 0
    /\ filters \in SUBSET Topic     \* of an earlier deployment
    /\ absorbed = {} /\ unacked = {} /\ sent = {} /\ pubacks = {}
    /\ configs = Lasting
    /\ output = {}
    /\ conn = "off"
    /\ desired = NotReconciled
    /\ subs = {}
    /\ unrouted = ForEach(<<>>)
    /\ items = ForEach(<<>>)
    /\ acks = ForEach({})
    /\ wakeup = FALSE
    /\ dropped = {}
    /\ pc = "down"
    /\ entries = {}
    /\ cycle = "none"
    /\ poll = ForEach("none")
    /\ batch = <<>>
    /\ forwarded = <<>>
    /\ landed = ForEach(<<>>)
    /\ faults = 0
    /\ changes = 0

-----------------------------------------------------------------------------
(* The session: publishers and the MQTT broker *)

\* The broker picks this session for a message of a topic it subscribes.
Publish ==
    /\ published < NumMessages
    /\ published' = published + 1
    /\ LET m == published'
           taken == {m} \cap {n \in Message : TopicOf[n] \in filters}
       IN  /\ absorbed' = absorbed \cup taken
           /\ unacked' = unacked \cup taken
    /\ UNCHANGED <<filters, sent, pubacks, configs, output, clientVars,
                   runnerVars, boundVars>>

\* A PUBACK reaches the broker, unless the connection is lost first.
PubackArrives(m) ==
    /\ m \in pubacks
    /\ pubacks' = pubacks \ {m}
    /\ unacked' = unacked \ {m}
    /\ sent' = sent \ {m}
    /\ UNCHANGED <<published, filters, absorbed, configs, output, clientVars,
                   runnerVars, boundVars>>

\* ack(): the PUBACKs that leave.  Without a connection none does.
Puback(ms) == pubacks' = IF conn = "up" THEN pubacks \cup ms ELSE pubacks

-----------------------------------------------------------------------------
(* paho's callbacks *)

\* on_message(): into its view; dropped when the reconciled configs do not want
\* it; held until its view is there otherwise.
OnMessage(m) ==
    \/ /\ TopicOf[m] \in subs
       /\ items' = [items EXCEPT ![TopicOf[m]] = Append(@, m)]
       /\ wakeup' = TRUE
       /\ UNCHANGED <<unrouted, dropped, pubacks>>
    \/ /\ TopicOf[m] \notin subs
       /\ desired # NotReconciled /\ TopicOf[m] \notin desired
       /\ Puback({m})
       /\ dropped' = dropped \cup {m}
       /\ UNCHANGED <<items, unrouted, wakeup>>
    \/ /\ TopicOf[m] \notin subs
       /\ desired = NotReconciled \/ TopicOf[m] \in desired
       /\ unrouted' = [unrouted EXCEPT ![TopicOf[m]] = Append(@, m)]
       /\ UNCHANGED <<items, wakeup, dropped, pubacks>>

\* The broker sends what it holds in the order of arrival, up to its window.
Deliver ==
    /\ conn = "up"
    /\ Cardinality(sent) < Window
    /\ \E m \in unacked \ sent :
           /\ \A n \in unacked \ sent : m <= n
           /\ sent' = sent \cup {m}
           /\ OnMessage(m)
    /\ UNCHANGED <<published, filters, absorbed, unacked, configs, output,
                   conn, desired, subs, acks, runnerVars, boundVars>>

\* on_connect() with success: stale acknowledgements and held messages are
\* forgotten, every view is subscribed again.
OnConnect ==
    /\ conn = "connecting"
    /\ conn' = "up"
    /\ unrouted' = ForEach(<<>>)
    /\ acks' = ForEach({})
    /\ filters' = filters \cup subs
    /\ UNCHANGED <<published, absorbed, unacked, sent, pubacks, configs, output,
                   desired, subs, items, wakeup, dropped, runnerVars, boundVars>>

\* Mutant: the client reconnects, as it would in paho's own loop.
OnDisconnectReconnects ==
    /\ conn = "up"
    /\ Fault
    /\ conn' = "connecting"
    /\ sent' = {}
    /\ pubacks' = {}
    /\ UNCHANGED <<published, filters, absorbed, unacked, configs, output,
                   desired, viewVars, wakeup, dropped, runnerVars>>

\* on_connect() with a failure and on_disconnect(): the error is kept for the
\* next drain(), and the runner is woken.  What was on the wire is gone.
OnDisconnect ==
    /\ conn \in {"connecting", "up"}
    /\ Fault
    /\ conn' = "lost"
    /\ wakeup' = TRUE
    /\ sent' = {}
    /\ pubacks' = {}
    /\ UNCHANGED <<published, filters, absorbed, unacked, configs, output,
                   desired, viewVars, dropped, runnerVars>>

-----------------------------------------------------------------------------
(* run_dispatched(): the main loop and the cycle task *)

\* __aenter__() connects, with clean_start false: the session is resumed.
Restart ==
    /\ pc = "down"
    /\ pc' = "loading"
    /\ conn' = "connecting"
    /\ UNCHANGED <<sessionVars, configs, output, desired, viewVars, wakeup,
                   dropped, entries, cycle, pollVars, landed, boundVars>>

\* load_initial_configs(), then start_dispatch().
LoadInitialConfigs ==
    /\ pc = "loading"
    /\ pc' = "running"
    /\ entries' = configs
    /\ cycle' = "due"
    /\ UNCHANGED <<sessionVars, configs, output, clientVars, pollVars, landed,
                   boundVars>>

\* A config is published, suspended or removed.
ConfigChanges ==
    /\ changes < MaxChanges
    /\ changes' = changes + 1
    /\ \E t \in Topic \ Lasting :
           configs' = IF t \in configs THEN configs \ {t} ELSE configs \cup {t}
    /\ UNCHANGED <<sessionVars, output, clientVars, runnerVars, faults>>

\* check_config_updates(): apply_config() for one record.
CheckConfigUpdates ==
    /\ pc = "running"
    /\ \/ \E t \in configs \ entries : entries' = entries \cup {t}
       \/ \E t \in entries \ configs : entries' = entries \ {t}
    /\ UNCHANGED <<sessionVars, configs, output, clientVars, pc, cycle, pollVars,
                   landed, boundVars>>

\* Mutant: a disposed view's buffer is left as it is.
DisposeKeepingItems(gone) ==
    /\ subs' = subs \ gone
    /\ acks' = [t \in Topic |-> IF t \in gone THEN {} ELSE acks[t]]
    /\ UNCHANGED items

\* unsubscribe(): the view and what it holds are given up.
Dispose(gone) ==
    /\ subs' = subs \ gone
    /\ acks' = [t \in Topic |-> IF t \in gone THEN {} ELSE acks[t]]
    /\ items' = [t \in Topic |-> IF t \in gone THEN <<>> ELSE items[t]]

\* reconcile(): every view that no active config wants is unsubscribed, what it
\* has pending acknowledged, what it has buffered dropped, as is what is held
\* for a topic that no active config wants.
Reconcile(active) ==
    LET gone == subs \ active
        stale == (UNION {Range(items[t]) : t \in gone})
                 \cup (UNION {Range(unrouted[t]) : t \in Topic \ active})
    IN  /\ desired' = active
        /\ filters' = IF conn = "up" THEN filters \ gone ELSE filters
        /\ Dispose(gone)
        /\ unrouted' = [t \in Topic |-> IF t \in active THEN unrouted[t] ELSE <<>>]
        /\ dropped' = dropped \cup stale
        /\ Puback(stale \cup (UNION {acks[t] : t \in gone}))

\* poll_cycle(): reconcile, then gather one poll per active config.
PollCycle ==
    /\ Reconcile(entries)
    /\ poll' = [t \in Topic |-> IF t \in entries THEN "queued" ELSE "none"]
    /\ cycle' = IF entries = {} THEN "idle" ELSE "polling"
    /\ UNCHANGED <<published, absorbed, unacked, sent, configs, output, conn,
                   pc, entries, batch, forwarded, landed, boundVars>>

FirstCycle ==
    /\ cycle = "due"
    /\ PollCycle
    /\ UNCHANGED wakeup

\* idle() ends: woken, or after the poll interval.  Either way the event is
\* cleared, and the next cycle begins before anything else runs.
IdleWakes ==
    /\ cycle = "idle" /\ wakeup
    /\ PollCycle
    /\ wakeup' = FALSE

IdleTimesOut ==
    /\ cycle = "idle" /\ ~wakeup
    /\ PollCycle
    /\ wakeup' = FALSE

-----------------------------------------------------------------------------
(* One poll *)

\* The task lock: begin_transaction() and commit_transaction() under it.
LockHeld == \E t \in Topic : poll[t] \in {"relaying", "committing"}

\* A poll ends.  gather() waits for all of them; then the first error is raised
\* and ends the cycle task, or the cycle goes idle.
PollEnds(t, result) ==
    LET ended == [poll EXCEPT ![t] = result]
        over == \A s \in Topic : ended[s] \in {"none", "done", "failed"}
    IN  /\ poll' = IF over THEN ForEach("none") ELSE ended
        /\ cycle' = IF ~over THEN cycle
                    ELSE IF \E s \in Topic : ended[s] = "failed"
                    THEN "failed"
                    ELSE "idle"

\* Mutant: leftovers do not set the wakeup again.
RearmNever(left) == UNCHANGED wakeup

\* More than drain_limit was buffered: do not wait for the poll interval.
Rearm(left) == wakeup' = (wakeup \/ left # <<>>)

\* Mutant: nobody looks at conn.error.
DrainNeverFails == FALSE

\* drain() of an empty buffer.
DrainFails == conn = "lost"

\* ack_all_pending(): those whose acknowledgement did not leave stay pending.
AckAllPending(t) ==
    /\ Puback(acks[t])
    /\ acks' = IF conn = "up" THEN [acks EXCEPT ![t] = {}] ELSE acks

\* poll() up to its first message: subscribe(), which moves what is held for the
\* topic into its new view; ack_all_pending(); drain(), which raises conn.error
\* only when there is nothing left to hand out.
PollStarts(t) ==
    LET held == IF t \in subs THEN <<>> ELSE unrouted[t]
        buffer == held \o items[t]
        size == IF Len(buffer) < DrainLimit THEN Len(buffer) ELSE DrainLimit
        left == SubSeq(buffer, size + 1, Len(buffer))
    IN  /\ poll[t] = "queued" /\ ~LockHeld
        /\ subs' = subs \cup {t}
        /\ filters' = IF conn = "up" /\ t \notin subs THEN filters \cup {t} ELSE filters
        /\ unrouted' = IF t \in subs THEN unrouted ELSE [unrouted EXCEPT ![t] = <<>>]
        /\ items' = [items EXCEPT ![t] = left]
        /\ AckAllPending(t)
        /\ Rearm(left)
        /\ batch' = SubSeq(buffer, 1, size)
        /\ \/ /\ size > 0
              /\ poll' = [poll EXCEPT ![t] = "relaying"]
              /\ UNCHANGED cycle
           \/ /\ size = 0
              /\ PollEnds(t, IF DrainFails THEN "failed" ELSE "done")
        /\ UNCHANGED <<published, absorbed, unacked, sent, configs, output, conn,
                       desired, dropped, pc, entries, forwarded, landed, boundVars>>

\* What follows a message: the next one, or the end of the generator - where
\* commit_boundary() has nothing to commit unless a transaction is open.
Advance(t, opened) ==
    /\ batch' = Tail(batch)
    /\ forwarded' = opened
    /\ \/ /\ Len(batch) > 1
          /\ UNCHANGED <<poll, cycle>>
       \/ /\ Len(batch) = 1 /\ opened # <<>>
          /\ poll' = [poll EXCEPT ![t] = "committing"]
          /\ UNCHANGED cycle
       \/ /\ Len(batch) = 1 /\ opened = <<>>
          /\ PollEnds(t, "done")

\* Mutant: a message is acknowledged when it has been sent.
RelayMessageAcking(t) ==
    /\ poll[t] = "relaying" /\ Head(batch) \in Relayed
    /\ Advance(t, Append(forwarded, Head(batch)))
    /\ Puback({Head(batch)})
    /\ UNCHANGED <<published, filters, absorbed, unacked, sent, configs, output,
                   clientVars, pc, entries, landed, boundVars>>

\* The message is sent in the transaction; resumed, poll() marks it pending.
RelayMessage(t) ==
    /\ poll[t] = "relaying" /\ Head(batch) \in Relayed
    /\ Advance(t, Append(forwarded, Head(batch)))
    /\ acks' = [acks EXCEPT ![t] = @ \cup {Head(batch)}]
    /\ UNCHANGED <<sessionVars, configs, output, conn, desired, subs, unrouted,
                   items, wakeup, dropped, pc, entries, landed, boundVars>>

\* relay() returns None, or raises: counted and acknowledged at once.
DropMessage(t) ==
    /\ poll[t] = "relaying" /\ Head(batch) \notin Relayed
    /\ Advance(t, forwarded)
    /\ dropped' = dropped \cup {Head(batch)}
    /\ Puback({Head(batch)})
    /\ UNCHANGED <<published, filters, absorbed, unacked, sent, configs, output,
                   conn, desired, viewVars, wakeup, pc, entries, landed, boundVars>>

Commit(t) ==
    /\ output' = output \cup Range(forwarded)
    /\ landed' = [landed EXCEPT ![t] = @ \o forwarded]

\* commit_boundary(None) of poll_one() succeeds.
CommitPage(t) ==
    /\ poll[t] = "committing"
    /\ Commit(t)
    /\ forwarded' = <<>>
    /\ PollEnds(t, "done")
    /\ UNCHANGED <<sessionVars, configs, clientVars, pc, entries, batch, boundVars>>

\* poll() is closed at a yield: nothing of this invocation is durable, so it is
\* un-marked and goes back to the front of the buffer.
RollBack(t) ==
    /\ items' = [items EXCEPT ![t] = forwarded \o batch \o @]
    /\ acks' = [acks EXCEPT ![t] = @ \ Range(forwarded)]

\* send() fails: the generator is closed, the transaction aborted.
SendFails(t) ==
    /\ poll[t] = "relaying" /\ Head(batch) \in Relayed
    /\ Fault
    /\ RollBack(t)
    /\ batch' = <<>>
    /\ forwarded' = <<>>
    /\ PollEnds(t, "failed")
    /\ UNCHANGED <<sessionVars, configs, output, conn, desired, subs, unrouted,
                   wakeup, dropped, pc, entries, landed>>

\* The commit fails, or its answer is lost.  The generator has ended: nothing
\* is rolled back, and the batch stays pending.
CommitFails(t) ==
    /\ poll[t] = "committing"
    /\ Fault
    /\ Commit(t) \/ UNCHANGED <<output, landed>>
    /\ forwarded' = <<>>
    /\ PollEnds(t, "failed")
    /\ UNCHANGED <<sessionVars, configs, clientVars, pc, entries, batch>>

-----------------------------------------------------------------------------
(* The process ends *)

\* The session outlives the process: no UNSUBSCRIBE, a plain DISCONNECT.  What
\* was sent and not acknowledged is sent again on the next connection.
ProcessGone ==
    /\ pc' = "down"
    /\ conn' = "off"
    /\ sent' = {}
    /\ pubacks' = {}
    /\ desired' = NotReconciled
    /\ subs' = {}
    /\ unrouted' = ForEach(<<>>)
    /\ items' = ForEach(<<>>)
    /\ acks' = ForEach({})
    /\ wakeup' = FALSE
    /\ entries' = {}
    /\ cycle' = "none"
    /\ poll' = ForEach("none")
    /\ batch' = <<>>
    /\ forwarded' = <<>>
    /\ landed' = ForEach(<<>>)
    /\ UNCHANGED <<published, filters, absorbed, unacked, configs, output, dropped>>

\* The main loop raises what the cycle failed with.
Exit ==
    /\ pc = "running" /\ cycle = "failed"
    /\ ProcessGone
    /\ UNCHANGED boundVars

\* Killed or asked to terminate: stop_dispatch() has nothing to save.
Crash ==
    /\ pc # "down"
    /\ Fault
    /\ ProcessGone

-----------------------------------------------------------------------------

PollStep(t) ==
    \/ PollStarts(t)
    \/ RelayMessage(t)
    \/ DropMessage(t)
    \/ CommitPage(t)
    \/ SendFails(t)
    \/ CommitFails(t)

Next ==
    \/ Publish
    \/ \E m \in Message : PubackArrives(m)
    \/ Deliver
    \/ OnConnect
    \/ OnDisconnect
    \/ Restart
    \/ LoadInitialConfigs
    \/ ConfigChanges
    \/ CheckConfigUpdates
    \/ FirstCycle
    \/ IdleWakes
    \/ IdleTimesOut
    \/ \E t \in Topic : PollStep(t)
    \/ Exit
    \/ Crash

Spec == Init /\ [][Next]_vars

\* The event loop runs what is ready, broker and network deliver, a stage that
\* ended is started again.  Nobody has to publish, and nothing has to fail.
Fairness ==
    /\ \A m \in Message : WF_vars(PubackArrives(m))
    /\ WF_vars(Deliver)
    /\ WF_vars(OnConnect)
    /\ WF_vars(Restart)
    /\ WF_vars(LoadInitialConfigs)
    /\ WF_vars(CheckConfigUpdates)
    /\ WF_vars(FirstCycle)
    /\ WF_vars(IdleWakes)
    /\ \A t \in Topic :
           /\ WF_vars(PollStarts(t)) /\ WF_vars(RelayMessage(t))
           /\ WF_vars(DropMessage(t)) /\ WF_vars(CommitPage(t))
    /\ WF_vars(Exit)

\* As the code is scheduled: in the long run the poll interval elapses.
FairSpec == Spec /\ Fairness /\ WF_vars(IdleTimesOut)

-----------------------------------------------------------------------------
(* What should hold *)

SessionTypeOK ==
    /\ published \in 0..NumMessages
    /\ filters \subseteq Topic
    /\ absorbed \subseteq Message
    /\ unacked \subseteq absorbed
    /\ sent \subseteq unacked
    /\ pubacks \subseteq absorbed

ClientTypeOK ==
    /\ conn \in Connection
    /\ desired \in (SUBSET Topic) \cup {NotReconciled}
    /\ subs \subseteq Topic
    /\ unrouted \in [Topic -> Seq(Message)]
    /\ items \in [Topic -> Seq(Message)]
    /\ acks \in [Topic -> SUBSET Message]
    /\ wakeup \in BOOLEAN
    /\ dropped \subseteq absorbed

RunnerTypeOK ==
    /\ configs \subseteq Topic
    /\ output \subseteq absorbed
    /\ pc \in Location
    /\ entries \subseteq Topic
    /\ cycle \in Cycle
    /\ poll \in [Topic -> Poll]
    /\ batch \in Seq(Message)
    /\ forwarded \in Seq(Message)
    /\ landed \in [Topic -> Seq(Message)]
    /\ faults \in 0..MaxFaults
    /\ changes \in 0..MaxChanges

\* The variables of the broker, the client and the runner, by their types; and
\* nothing is left in the views that unsubscribe() has disposed of.
TypeOK ==
    /\ SessionTypeOK
    /\ ClientTypeOK
    /\ RunnerTypeOK
    /\ \A t \in Topic \ subs : items[t] = <<>> /\ acks[t] = {}

Ascending(seq) == \A i, j \in DOMAIN seq : i < j => seq[i] < seq[j]

\* "Within a process lifetime that makes delivery into Kafka exactly-once"
\* (docs/guides/mqtt.md), and in the order the session holds: whatever drain(),
\* the rollback, the views disposed and re-created do with the buffers.
OnceInOrder ==
    \A t \in Topic : Ascending(landed[t])

\* A wakeup is never lost (on_message, idle): while the cycle task waits, what
\* is buffered has set the event, or drain_limit has re-armed it.
WakesForBacklog ==
    cycle = "idle" /\ (\E t \in Topic : items[t] # <<>>) => wakeup

MustRelay == {m \in Relayed : TopicOf[m] \in Lasting}

\* Whatever the session takes in for a lasting config and relay() forwards is
\* in Kafka in the end.
EventuallyRelayed == \A m \in MustRelay : m \in absorbed ~> m \in output

Promise == INSTANCE Relay WITH Droppable <- Message \ MustRelay

\* A message leaves the session once it is in Kafka, or dropped and counted; of
\* a lasting config's topic none is dropped, also not in the startup window.
RelaysAtLeastOnce == Promise!Spec
-----------------------------------------------------------------------------
(* Why the safety properties hold: the inductive invariant *)

OfTopic(t) == {m \in absorbed : TopicOf[m] = t}

InFlight(t) == poll[t] \in {"relaying", "committing"}

\* What the client has of a topic are messages of it that the session took in.
TopicRouted(t) ==
    /\ items[t] \in Seq(OfTopic(t))
    /\ unrouted[t] \in Seq(OfTopic(t))
    /\ acks[t] \subseteq OfTopic(t)
    /\ InFlight(t) => batch \in Seq(OfTopic(t)) /\ forwarded \in Seq(OfTopic(t))

Routed ==
    /\ \A m \in absorbed : m <= published
    /\ \A t \in Topic : TopicRouted(t)

\* The task lock, and where its holder is in its batch.
OnePoll ==
    /\ \A s, t \in Topic : InFlight(s) /\ InFlight(t) => s = t
    /\ ~LockHeld => batch = <<>> /\ forwarded = <<>>
    /\ \A t \in Topic : /\ InFlight(t) => t \in subs
                        /\ poll[t] = "relaying" => batch # <<>>
                        /\ poll[t] = "committing" => batch = <<>>
                        /\ poll[t] # "none" => cycle = "polling"
    /\ cycle # "none" => pc = "running"

\* What is pending is in Kafka, or in the open transaction of the poll that runs -
\* unless a poll has failed, after which nothing of its topic is acknowledged.
Durable(t) == output \cup (IF InFlight(t) THEN Range(forwarded) ELSE {})

PendingIsDurable ==
    \A t \in Topic :
        cycle # "failed" /\ poll[t] # "failed" => acks[t] \subseteq Durable(t)

\* Only what is in Kafka or dropped has been acknowledged, and what lasts is
\* never in the way of being dropped.
AckedIsSettled ==
    /\ pubacks \subseteq output \cup dropped
    /\ dropped \cap MustRelay = {}

LastingKept ==
    /\ Lasting \subseteq configs
    /\ pc = "running" => Lasting \subseteq entries
    /\ desired # NotReconciled => Lasting \subseteq desired

\* What is buffered has set the event, waits for its poll, or stays behind when
\* the cycle task ends by an error.
BacklogSeen ==
    \A t \in Topic : items[t] # <<>> =>
        \/ wakeup
        \/ poll[t] = "queued"
        \/ cycle = "failed"
        \/ \E s \in Topic : poll[s] = "failed"

\* What a process has done with a topic's messages so far, and has still to do.
Working(t) == IF InFlight(t) THEN forwarded \o batch ELSE <<>>
Chain(t) == landed[t] \o Working(t) \o items[t] \o unrouted[t]

\* The process has every message once, in order, and what the broker has still to
\* send comes after all of them: there is one connection in a process's life.
InOrder ==
    /\ \A t \in Topic : Ascending(Chain(t))
    /\ \A t \in Topic : \A x \in Range(Chain(t)) : x <= published
    /\ \A t \in subs : unrouted[t] = <<>>
    /\ pc = "down" => conn = "off"
    /\ conn \in {"off", "connecting"} => \A t \in Topic : Range(Chain(t)) = {}
    /\ conn = "up" => \A t \in Topic : \A x \in Range(Chain(t)) :
                          \A m \in unacked \ sent : x < m

\* The inductive invariant.
IInv ==
    /\ TypeOK
    /\ Routed
    /\ OnePoll
    /\ PendingIsDurable
    /\ AckedIsSettled
    /\ LastingKept
    /\ BacklogSeen
    /\ InOrder
====

---- MODULE Container ----
(***************************************************************************)
(* The composition root (flechtwerk/module.py): what a handle brings up    *)
(* and takes down again around its stage, with the scrape endpoint         *)
(* (metrics.py) and the keyring (keyring.py) that the stages of a process  *)
(* share, and the topics that the replicas of a stage share.  The stages   *)
(* of a process run in one asyncio.TaskGroup: the first to end cancels its *)
(* siblings, and the orchestrator starts the process anew.  `pc' is the    *)
(* await a handle is suspended at; between two awaits it runs atomically,  *)
(* and an await raises by itself or because the handle is cancelled there. *)
(***************************************************************************)
EXTENDS Naturals, FiniteSets

CONSTANTS Process, Stage,
          Deployments,  \* how the stages may be hosted and set up: Deployment
          Topic,        \* config and input topics
          None,         \* a setting that is not given; a topic nobody created
          DefaultPartitions,    \* the broker's num.partitions
          MaxPartitions,        \* bound: partitions a topic is grown to
          MaxFaults             \* bound: failing calls, signals, kills

Setting == [kind : {"transformer", "sharded", "dispatched"},
            inputs : SUBSET Topic, configs : SUBSET Topic,
            pollInterval : Nat \cup {None},
            tls : {"authenticating", "open", None},
            family : {"names", "other names"},  \* registry, label names, max_poll_records
            labels : Stage,                     \* the label values
            keyring : {"ring", "other ring", None}]

Deployment == [hosted : [Process -> SUBSET Stage], settings : [Stage -> Setting]]

ASSUME ContainerAssumption ==
    /\ Deployments \subseteq Deployment
    /\ None \notin Nat \cup Stage \cup {"names", "other names", "ring", "other ring"}
    /\ DefaultPartitions \in Nat \ {0} /\ MaxPartitions \in Nat \ {0}
    /\ MaxFaults \in Nat

VARIABLES
    deployment, \* what the application passes to Flechtwerk.of(): never changes
    partitions, \* partitions of a topic, 0: it does not exist
    changelog,  \* per stage, the partitions of its changelog topic, None: no such topic
    unseen,     \* changelogs the brokers' metadata caches do not show yet
    pc,         \* per process and stage
    counted,    \* the partition count a handle derived its changelog from
    open,       \* the clients a handle has open
    unclean,    \* a call that closes something raised
    keyring,    \* per process, keyring._keyring
    exporter,   \* per process, metrics._exporters[port]
    aborting,   \* per process, the TaskGroup cancels its tasks
    faults

topicVars == <<partitions, changelog, unseen>>
sharedVars == <<keyring, exporter>>
handleVars == <<pc, counted, open, unclean>>
vars == <<deployment, topicVars, handleVars, sharedVars, aborting, faults>>

Handle == {h \in Process \X Stage : h[2] \in deployment.hosted[h[1]]}
HandlesOf(i) == {h \in Handle : h[1] = i}
Set(h) == deployment.settings[h[2]]
IsTransformer(h) == Set(h).kind = "transformer"

\* A process that just started: nothing installed, nobody on the port.
NoExporter == [family |-> None, holders |-> {}, serving |-> FALSE]

Init ==
    /\ deployment \in Deployments
    /\ partitions \in [Topic -> 0..MaxPartitions]
    /\ changelog = [s \in Stage |-> None]
    /\ unseen = {}
    /\ pc = [h \in Handle |-> "new"]
    /\ counted = [h \in Handle |-> None]
    /\ open = [h \in Handle |-> {}]
    /\ unclean = [h \in Handle |-> FALSE]
    /\ keyring = [i \in Process |-> None]
    /\ exporter = [i \in Process |-> NoExporter]
    /\ aborting = [i \in Process |-> FALSE]
    /\ faults = 0

-----------------------------------------------------------------------------
(* The scrape endpoint *)

Compatible(e, set) == e.family = set.family

\* Mutant: the label values are not compared.
CanAcquireAlike(e, set) == e.family = None \/ Compatible(e, set)

CanAcquire(e, set) ==
    \/ e.family = None
    \/ (Compatible(e, set) /\ set.labels \notin e.holders)

AcquireExporter(e, set) ==
    [family |-> IF e.family = None THEN set.family ELSE e.family,
     holders |-> e.holders \cup {set.labels},
     serving |-> TRUE]

\* Mutant: whoever leaves stops the server.
ReleaseExporterStopping(e, set) ==
    [e EXCEPT !.holders = @ \ {set.labels}, !.serving = FALSE]

\* The last one out stops the server, the families stay.
ReleaseExporter(e, set) ==
    LET rest == e.holders \ {set.labels} IN
    [e EXCEPT !.holders = rest, !.serving = @ /\ rest # {}]

-----------------------------------------------------------------------------
(* Coming up: Flechtwerk.__aenter__ and the first steps of the runner *)

Goto(h, here, there) == pc[h] = here /\ pc' = [pc EXCEPT ![h] = there]

ValidateTopics(set) ==
    IF set.kind = "transformer" THEN set.inputs # {} /\ set.inputs \cap set.configs = {}
                                ELSE set.configs # {}

ValidatePollInterval(set) == set.kind # "transformer" => set.pollInterval \notin {None, 0}

ValidateTls(set) == set.tls # "open"

CanInstall(ring, set) == set.keyring = None \/ ring \in {None, set.keyring}

\* Up to the first await: a seat at the endpoint, then the keyring, then what can
\* be validated without a broker.  What raises ends the handle as it is, for
\* __aexit__ is not called: a seat already taken stays taken.
Enter(h) ==
    LET i == h[1]  set == Set(h)
        seated == CanAcquire(exporter[i], set)
        installed == seated /\ CanInstall(keyring[i], set)
        valid == ValidateTopics(set) /\ ValidatePollInterval(set) /\ ValidateTls(set)
    IN  /\ Goto(h, "new", IF installed /\ valid THEN "admin" ELSE "gone")
        /\ exporter' = IF seated THEN [exporter EXCEPT ![i] = AcquireExporter(@, set)]
                                 ELSE exporter
        /\ keyring' = IF installed /\ set.keyring # None
                      THEN [keyring EXCEPT ![i] = set.keyring] ELSE keyring
        /\ UNCHANGED <<deployment, topicVars, counted, open, unclean, aborting, faults>>

AfterConfigs(h) == IF IsTransformer(h) THEN "inputs" ELSE "close admin"

StartAdmin(h) ==
    /\ Goto(h, "admin", IF Set(h).configs # {} THEN "configs" ELSE AfterConfigs(h))
    /\ open' = [open EXCEPT ![h] = @ \cup {"admin"}]
    /\ UNCHANGED <<deployment, topicVars, counted, unclean, sharedVars, aborting, faults>>

\* partition_counts() raises for a topic that does not exist.
CheckConfigTopics(h) ==
    /\ Goto(h, "configs", IF \A t \in Set(h).configs : partitions[t] > 0
                         THEN AfterConfigs(h) ELSE "undo admin")
    /\ UNCHANGED <<deployment, topicVars, counted, open, unclean, sharedVars, aborting, faults>>

\* Mutant: the error a topic is described with is not looked at.
CountInputsBlindly(h) ==
    LET counts == {partitions[t] : t \in Set(h).inputs}
        equal == Cardinality(counts) = 1
    IN  /\ Goto(h, "inputs", IF equal THEN "create" ELSE "undo admin")
        /\ counted' = IF equal THEN [counted EXCEPT ![h] = CHOOSE n \in counts : TRUE]
                               ELSE counted
        /\ UNCHANGED <<deployment, topicVars, open, unclean, sharedVars, aborting, faults>>

\* The input topics of a transformer exist and have one count.
CountInputs(h) ==
    LET counts == {partitions[t] : t \in Set(h).inputs}
        equal == Cardinality(counts) = 1 /\ 0 \notin counts
    IN  /\ Goto(h, "inputs", IF equal THEN "create" ELSE "undo admin")
        /\ counted' = IF equal THEN [counted EXCEPT ![h] = CHOOSE n \in counts : TRUE]
                               ELSE counted
        /\ UNCHANGED <<deployment, topicVars, open, unclean, sharedVars, aborting, faults>>

\* CreateTopics: created here, or there already.
EnsureChangelogTopic(s, n) ==
    IF changelog[s] = None
    THEN changelog' = [changelog EXCEPT ![s] = n] /\ unseen' = unseen \cup {s}
    ELSE UNCHANGED <<changelog, unseen>>

\* Mutant: a topic that exists is an error, as CreateTopics has it.
CreateChangelogStrict(h) ==
    /\ Goto(h, "create", IF changelog[h[2]] = None THEN "close admin" ELSE "undo admin")
    /\ EnsureChangelogTopic(h[2], counted[h])
    /\ UNCHANGED <<deployment, partitions, counted, open, unclean, sharedVars, aborting, faults>>

\* A changelog created here is not described; one that was there is.
CreateChangelog(h) ==
    /\ Goto(h, "create", IF changelog[h[2]] = None THEN "close admin" ELSE "describe")
    /\ EnsureChangelogTopic(h[2], counted[h])
    /\ UNCHANGED <<deployment, partitions, counted, open, unclean, sharedVars, aborting, faults>>

\* Mutant: a changelog that exists is taken as it is.
DescribeChangelogUnchecked(h) ==
    /\ Goto(h, "describe", "close admin")
    /\ UNCHANGED <<deployment, topicVars, counted, open, unclean, sharedVars, aborting, faults>>

\* A metadata cache that lags raises, and so does another count.
DescribeChangelog(h) ==
    /\ \E seen \in {h[2] \notin unseen, TRUE} :
           Goto(h, "describe", IF seen /\ changelog[h[2]] = counted[h] THEN "close admin"
                                                                      ELSE "undo admin")
    /\ UNCHANGED <<deployment, topicVars, counted, open, unclean, sharedVars, aborting, faults>>

HasConfigConsumer(h) == IsTransformer(h) /\ Set(h).configs # {}

\* What the runner does first: a transformer and a dispatched extractor take no
\* more resources of the container.
FirstOfRunner(h) == IF Set(h).kind = "sharded" THEN "count tokens" ELSE "running"

StartConsumer(h) ==
    /\ Goto(h, "start consumer", IF HasConfigConsumer(h) THEN "start config" ELSE FirstOfRunner(h))
    /\ open' = [open EXCEPT ![h] = @ \cup {"consumer"}]
    /\ UNCHANGED <<deployment, topicVars, counted, unclean, sharedVars, aborting, faults>>

StartConfigConsumer(h) ==
    /\ Goto(h, "start config", FirstOfRunner(h))
    /\ open' = [open EXCEPT ![h] = @ \cup {"config"}]
    /\ UNCHANGED <<deployment, topicVars, counted, unclean, sharedVars, aborting, faults>>

\* ExtractorRunner.count_tokens(): the config topics have one count.
CountTokens(h) ==
    LET counts == {partitions[t] : t \in Set(h).configs} IN
    /\ Goto(h, "count tokens",
            IF Cardinality(counts) = 1 THEN "ensure changelog" ELSE "stop")
    /\ UNCHANGED <<deployment, topicVars, counted, open, unclean, sharedVars, aborting, faults>>

\* Flechtwerk.ensure_changelog(), with an admin client of its own.
EnsureChangelog(h) ==
    /\ Goto(h, "ensure changelog", "start membership")
    /\ EnsureChangelogTopic(h[2], DefaultPartitions)
    /\ UNCHANGED <<deployment, partitions, counted, open, unclean, sharedVars, aborting, faults>>

StartMembershipConsumer(h) ==
    /\ Goto(h, "start membership", "running")
    /\ open' = [open EXCEPT ![h] = @ \cup {"membership"}]
    /\ UNCHANGED <<deployment, topicVars, counted, unclean, sharedVars, aborting, faults>>

ComingUp(h) ==
    \/ Enter(h)
    \/ StartAdmin(h)
    \/ CheckConfigTopics(h)
    \/ CountInputs(h)
    \/ CreateChangelog(h)
    \/ DescribeChangelog(h)
    \/ StartConsumer(h)
    \/ StartConfigConsumer(h)
    \/ CountTokens(h)
    \/ EnsureChangelog(h)
    \/ StartMembershipConsumer(h)

-----------------------------------------------------------------------------
(* Going down *)

CloseAdmin(h) ==
    /\ \/ Goto(h, "close admin", "start consumer")
       \/ Goto(h, "undo admin", "gone")
    /\ open' = [open EXCEPT ![h] = @ \ {"admin"}]
    /\ UNCHANGED <<deployment, topicVars, counted, unclean, sharedVars, aborting, faults>>

StopOrder == [consumer |-> 1, config |-> 2, membership |-> 3]

NextToStop(clients) == {c \in clients : \A d \in clients : StopOrder[c] <= StopOrder[d]}

\* A stop() of the except clause of __aenter__ or of __aexit__, which ends by
\* leaving the seat, last, after the wipe of the inner store if there is one.
StopClient(h) ==
    LET rest == open[h] \ NextToStop(open[h])
        last == rest = {}
        leaves == last /\ Set(h).kind # "sharded"
    IN  /\ \/ Goto(h, "undo", IF last THEN "gone" ELSE "undo") /\ UNCHANGED exporter
           \/ /\ Goto(h, "stop", IF leaves THEN "gone" ELSE IF last THEN "wipe" ELSE "stop")
              /\ exporter' = IF leaves
                             THEN [exporter EXCEPT ![h[1]] = ReleaseExporter(@, Set(h))]
                             ELSE exporter
        /\ open' = [open EXCEPT ![h] = rest]
        /\ UNCHANGED <<deployment, topicVars, counted, unclean, keyring, aborting, faults>>

\* The inner store of a sharded extractor is closed.
WipeInnerStore(h) ==
    /\ Goto(h, "wipe", "gone")
    /\ exporter' = [exporter EXCEPT ![h[1]] = ReleaseExporter(@, Set(h))]
    /\ UNCHANGED <<deployment, topicVars, counted, open, unclean, keyring, aborting, faults>>

GoingDown(h) == CloseAdmin(h) \/ StopClient(h) \/ WipeInnerStore(h)

\* Mutant: the clients of a start that failed are left to __aexit__.
UnwoundUnguarded(at) ==
    CASE at \in {"configs", "inputs", "create", "describe"} -> "undo admin"
      [] at \in {"count tokens", "ensure changelog", "start membership", "running"} -> "stop"
      [] OTHER -> "gone"

\* Where an exception leads from an await: __aexit__ runs for a handle that came
\* up, the except clause for its consumers, the finally for its admin client, and
\* nothing for a call that was undoing something itself.
Unwound(at) ==
    CASE at \in {"configs", "inputs", "create", "describe"} -> "undo admin"
      [] at \in {"start consumer", "start config"} -> "undo"
      [] at \in {"count tokens", "ensure changelog", "start membership", "running"} -> "stop"
      [] OTHER -> "gone"

\* A start() that raises may have got as far as holding connections. The admin
\* clients are started outside their try: a failed start of one is taken to
\* hold nothing.
Opened(at) == CASE at = "start consumer" -> {"consumer"}
                [] at = "start config" -> {"config"}
                [] at = "start membership" -> {"membership"}
                [] OTHER -> {}

Closing == {"close admin", "undo admin", "undo", "stop"}

\* The awaits of these handles raise.
Raise(hs) ==
    /\ pc' = [h \in Handle |-> IF h \in hs THEN Unwound(pc[h]) ELSE pc[h]]
    /\ \E half \in BOOLEAN :
           open' = [h \in Handle |->
                       IF h \in hs /\ half THEN open[h] \cup Opened(pc[h]) ELSE open[h]]
    /\ unclean' = [h \in Handle |-> unclean[h] \/ (h \in hs /\ pc[h] \in Closing)]

Live(i) == {h \in HandlesOf(i) : pc[h] # "gone"}

\* A broker call fails, or the stage crashes; a port held by a foreign process.
Fails(h) ==
    /\ faults < MaxFaults
    /\ faults' = faults + 1
    /\ pc[h] # "gone"
    /\ pc[h] = "new" => ~exporter[h[1]].serving
    /\ Raise({h})
    /\ UNCHANGED <<deployment, topicVars, counted, sharedVars, aborting>>

\* The TaskGroup cancels what is left when the first task ended, ...
Abort(i) ==
    /\ ~aborting[i]
    /\ \E h \in HandlesOf(i) : pc[h] = "gone"
    /\ aborting' = [aborting EXCEPT ![i] = TRUE]
    /\ Raise(Live(i))
    /\ UNCHANGED <<deployment, topicVars, counted, sharedVars, faults>>

\* ... and on SIGINT: asyncio.run() cancels the main task.
Interrupt(i) ==
    /\ faults < MaxFaults
    /\ faults' = faults + 1
    /\ ~aborting[i]
    /\ aborting' = [aborting EXCEPT ![i] = TRUE]
    /\ Raise(Live(i))
    /\ UNCHANGED <<deployment, topicVars, counted, sharedVars>>

Renew(i) ==
    /\ pc' = [h \in Handle |-> IF h[1] = i THEN "new" ELSE pc[h]]
    /\ counted' = [h \in Handle |-> IF h[1] = i THEN None ELSE counted[h]]
    /\ open' = [h \in Handle |-> IF h[1] = i THEN {} ELSE open[h]]
    /\ unclean' = [h \in Handle |-> IF h[1] = i THEN FALSE ELSE unclean[h]]
    /\ keyring' = [keyring EXCEPT ![i] = None]
    /\ exporter' = [exporter EXCEPT ![i] = NoExporter]
    /\ aborting' = [aborting EXCEPT ![i] = FALSE]
    /\ UNCHANGED <<deployment, topicVars>>

\* The process exits and is started again, ...
ProcessEnds(i) == Live(i) = {} /\ Renew(i) /\ UNCHANGED faults

\* ... or it is killed.
Kill(i) == faults < MaxFaults /\ faults' = faults + 1 /\ Renew(i)

\* The runner's main loop goes round.
Run(h) == pc[h] = "running" /\ UNCHANGED vars

-----------------------------------------------------------------------------
(* The Kafka cluster *)

\* Every broker's metadata cache has caught up with a topic.
MetadataSpreads(s) ==
    /\ s \in unseen
    /\ unseen' = unseen \ {s}
    /\ UNCHANGED <<deployment, partitions, changelog, handleVars, sharedVars, aborting, faults>>

\* An operator creates a topic or adds a partition to it.
Grow(t) ==
    /\ partitions[t] < MaxPartitions
    /\ partitions' = [partitions EXCEPT ![t] = @ + 1]
    /\ UNCHANGED <<deployment, changelog, unseen, handleVars, sharedVars, aborting, faults>>

Next ==
    \/ \E h \in Handle : ComingUp(h) \/ GoingDown(h) \/ Run(h) \/ Fails(h)
    \/ \E i \in Process : Abort(i) \/ Interrupt(i) \/ ProcessEnds(i) \/ Kill(i)
    \/ \E s \in Stage : MetadataSpreads(s)
    \/ \E t \in Topic : Grow(t)

Spec == Init /\ [][Next]_vars

(***************************************************************************)
(* Fairness.  A call to the broker returns or raises, the TaskGroup        *)
(* cancels what is left, the orchestrator restarts a process that exited,  *)
(* and metadata spreads.  Nothing makes an operator repair a topic.        *)
(***************************************************************************)
FairSpec ==
    /\ Spec
    /\ \A h \in Process \X Stage :
           WF_vars(h \in Handle /\ ComingUp(h)) /\ WF_vars(h \in Handle /\ GoingDown(h))
    /\ \A i \in Process : WF_vars(Abort(i)) /\ WF_vars(ProcessEnds(i))
    /\ \A s \in Stage : WF_vars(MetadataSpreads(s))

-----------------------------------------------------------------------------
(* What should hold *)

Exporter == [family : {"names", "other names", None},
             holders : SUBSET Stage, serving : BOOLEAN]

Location == {"new", "admin", "configs", "inputs", "create", "describe", "close admin",
             "undo admin", "start consumer", "start config", "undo", "count tokens",
             "ensure changelog", "start membership", "running", "stop", "wipe", "gone"}

\* The topics, the handles and what a process shares, by their types.
TypeOK ==
    /\ deployment \in Deployments
    /\ partitions \in [Topic -> 0..MaxPartitions]
    /\ changelog \in [Stage -> (Nat \ {0}) \cup {None}]
    /\ unseen \subseteq {s \in Stage : changelog[s] # None}
    /\ pc \in [Handle -> Location]
    /\ counted \in [Handle -> (Nat \ {0}) \cup {None}]
    /\ open \in [Handle -> SUBSET {"admin", "consumer", "config", "membership"}]
    /\ unclean \in [Handle -> BOOLEAN]
    /\ keyring \in [Process -> {"ring", "other ring", None}]
    /\ exporter \in [Process -> Exporter]
    /\ aborting \in [Process -> BOOLEAN]
    /\ faults \in 0..MaxFaults

\* From its first step to its last one.
Up(h) == pc[h] \notin {"new", "gone"}

\* The endpoint of a process serves as long as a stage is up, its own clients
\* already closed or a sibling gone: a final scrape can land mid-shutdown, and
\* health probes see it (module.py).  Nobody serves for an empty table.
EndpointServes ==
    \A i \in Process :
        /\ exporter[i].serving <=> exporter[i].holders # {}
        /\ \A h \in HandlesOf(i) : Up(h) => Set(h).labels \in exporter[i].holders

\* Of the stages of one process, the series do not merge, the families are one,
\* and the key material is one (docs/guides/getting-started.md).
CoHostedAgree ==
    \A g, h \in Handle :
        g # h /\ g[1] = h[1] /\ Up(g) /\ Up(h) =>
            /\ Set(g).labels # Set(h).labels
            /\ Set(g).family = Set(h).family
            /\ None \in {Set(g).keyring, Set(h).keyring} \/ Set(g).keyring = Set(h).keyring

\* Replicas race to create one changelog while the input topics are grown: task p
\* of a transformer that runs has a changelog partition p, and no more of them
\* (module.py, ensure_topics).
ChangelogMatches ==
    \A h \in Handle :
        IsTransformer(h) /\ pc[h] \in {"start consumer", "start config", "running"} =>
            counted[h] # None /\ changelog[h[2]] = counted[h]

\* Whichever await of the startup, the run or the shutdown raised or was cancelled:
\* if what was to close a client did not raise itself, no client is left open.
LeavesNoClientOpen ==
    \A h \in Handle : pc[h] = "gone" /\ ~unclean[h] => open[h] = {}

EqualCounts(topics) ==
    Cardinality({partitions[t] : t \in topics}) <= 1 /\ \A t \in topics : partitions[t] > 0

\* The settings pass the checks of module.py and its topics are in order.
InOrder(h) ==
    LET set == Set(h) IN
    /\ ValidateTopics(set) /\ ValidatePollInterval(set) /\ ValidateTls(set)
    /\ \A t \in set.configs : partitions[t] > 0
    /\ set.kind = "transformer" =>
           /\ EqualCounts(set.inputs)
           /\ changelog[h[2]] \in {None} \cup {partitions[t] : t \in set.inputs}
    /\ set.kind = "sharded" => EqualCounts(set.configs)

AllInOrder ==
    /\ \A h \in Handle : InOrder(h)
    /\ \A g, h \in Handle :
           g # h /\ g[1] = h[1] =>
               /\ Set(g).labels # Set(h).labels
               /\ Set(g).family = Set(h).family
               /\ Set(g).keyring = Set(h).keyring

\* Replicas that race for one changelog, a metadata cache that lags, a sibling that
\* failed, a seat its owner never left: if the settings agree and the topics are in
\* order from some point on, every stage of every process runs in the end.
ComesUp == <>[]AllInOrder => <>[](\A h \in Handle : pc[h] = "running")

-----------------------------------------------------------------------------
(* Why the safety properties hold: the inductive invariant *)

\* Who is up has its own seat at the endpoint, and what it shares with its
\* siblings is what the process has.
Seated(h) ==
    /\ Set(h).labels \in exporter[h[1]].holders
    /\ Set(h).family = exporter[h[1]].family
    /\ Set(h).keyring \in {None, keyring[h[1]]}

ServesHolders(i) ==
    /\ exporter[i].serving <=> exporter[i].holders # {}
    /\ exporter[i].holders # {} => exporter[i].family # None

SeatsHeld ==
    /\ \A i \in Process : ServesHolders(i)
    /\ \A h \in Handle : Up(h) => Seated(h)
    /\ \A g, h \in Handle :
           g # h /\ g[1] = h[1] /\ Up(g) /\ Up(h) => Set(g).labels # Set(h).labels

\* Past its changelog's creation a transformer has the one its inputs call for.
PastChangelog == {"close admin", "start consumer", "start config", "running"}

InPlace(h) ==
    /\ pc[h] \in {"inputs", "create", "describe"} => IsTransformer(h)
    /\ pc[h] \in {"create", "describe"} => counted[h] # None
    /\ pc[h] = "describe" => changelog[h[2]] # None
    /\ IsTransformer(h) /\ pc[h] \in PastChangelog =>
           counted[h] # None /\ changelog[h[2]] = counted[h]
    /\ pc[h] \in {"count tokens", "ensure changelog", "start membership"} => ~IsTransformer(h)

ChangelogInPlace == \A h \in Handle : InPlace(h)

\* A client is open only where something ahead closes it.
AdminAhead == {"configs", "inputs", "create", "describe", "close admin", "undo admin"}
MembershipAhead == {"running", "stop"}
ConfigAhead == MembershipAhead \cup {"undo", "count tokens", "ensure changelog", "start membership"}
ConsumerAhead == ConfigAhead \cup {"start config"}

ClosesAhead(h) ==
    /\ "admin" \in open[h] => pc[h] \in AdminAhead
    /\ "consumer" \in open[h] => pc[h] \in ConsumerAhead
    /\ "config" \in open[h] => pc[h] \in ConfigAhead
    /\ "membership" \in open[h] => pc[h] \in MembershipAhead

ClosedAhead == \A h \in Handle : unclean[h] \/ ClosesAhead(h)

\* The inductive invariant.
IInv ==
    /\ TypeOK
    /\ SeatsHeld
    /\ ChangelogInPlace
    /\ ClosedAhead
====

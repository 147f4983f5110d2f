---- MODULE ContainerProofs ----
(***************************************************************************)
(* Proofs about Container: its safety properties hold for any processes,   *)
(* stages, topics, deployments and faults.  A step moves one handle, all   *)
(* handles of a process that is cancelled (Raise) or restarted (Renew), or *)
(* a topic; each conjunct of IInv has one lemma, with one step per action  *)
(* that can disturb it.                                                    *)
(***************************************************************************)
EXTENDS Container, FiniteSetTheorems, TLAPS


\* A deployment says which stages each process hosts, and how each is set up.
LEMMA DeploymentParts ==
    ASSUME TypeOK
    PROVE  /\ deployment.hosted \in [Process -> SUBSET Stage]
           /\ deployment.settings \in [Stage -> Setting]
<1>1. deployment \in Deployment
  BY ContainerAssumption DEF TypeOK, ContainerAssumption
<1> QED BY <1>1 DEF Deployment

\* A handle is a stage in a process, with its setting.
LEMMA HandleParts ==
    ASSUME TypeOK, NEW h \in Handle
    PROVE  /\ h[1] \in Process /\ h[2] \in Stage
           /\ Set(h) \in Setting
<1>1. h \in Process \X Stage
  BY DEF Handle
<1>2. h[1] \in Process /\ h[2] \in Stage
  BY <1>1
<1> QED BY <1>2, DeploymentParts DEF Set

\* What a setting holds.
LEMMA SettingParts ==
    ASSUME TypeOK, NEW h \in Handle
    PROVE  /\ Set(h).labels \in Stage
           /\ Set(h).family \in {"names", "other names"}
           /\ Set(h).keyring \in {"ring", "other ring", None}
  BY HandleParts DEF Setting

\* The bounds are naturals.
LEMMA Bounds ==
    /\ MaxFaults \in Nat /\ MaxPartitions \in Nat
    /\ DefaultPartitions \in Nat \ {0}
  BY ContainerAssumption DEF ContainerAssumption

LEMMA InitTypeOK == Init => TypeOK
<1> SUFFICES ASSUME Init PROVE TypeOK
  OBVIOUS
<1>1. NoExporter \in Exporter
  BY DEF NoExporter, Exporter
<1>2. 0 \in 0..MaxFaults
  BY Bounds
<1> QED BY <1>1, <1>2 DEF Init, TypeOK, Location

LEMMA InitIInv == Init => IInv
<1> SUFFICES ASSUME Init PROVE IInv
  OBVIOUS
<1>1. TypeOK
  BY InitTypeOK
<1>2. SeatsHeld
  BY ContainerAssumption DEF Init, SeatsHeld, ServesHolders, Up, NoExporter
<1>3. ChangelogInPlace
  BY DEF Init, ChangelogInPlace, InPlace, PastChangelog
<1>4. ClosedAhead
  BY DEF Init, ClosedAhead, ClosesAhead
<1> QED BY <1>1, <1>2, <1>3, <1>4 DEF IInv

-----------------------------------------------------------------------------
(* Types *)

\* A topic set whose counts are one number has a count.
LEMMA OneCount ==
    ASSUME NEW counts, Cardinality(counts) = 1
    PROVE  (CHOOSE n \in counts : TRUE) \in counts
<1>1. Cardinality({}) = 0
  BY FS_EmptySet
<1>2. ASSUME counts = {} PROVE FALSE
  <2>1. Cardinality(counts) = Cardinality({})
    BY <1>2
  <2> QED BY <1>1, <2>1
<1> QED BY <1>2

\* Where a handle goes is a location, whatever else the step does.
LEMMA GotoTypes ==
    ASSUME TypeOK, NEW h \in Handle, NEW here, NEW there \in Location, Goto(h, here, there)
    PROVE  pc' \in [Handle -> Location]
  BY DEF TypeOK, Goto

\* A seat taken or left is an entry of the table of exporters.
LEMMA ExporterTypes ==
    ASSUME TypeOK, NEW h \in Handle
    PROVE  /\ AcquireExporter(exporter[h[1]], Set(h)) \in Exporter
           /\ ReleaseExporter(exporter[h[1]], Set(h)) \in Exporter
<1>1. exporter[h[1]] \in Exporter
  BY HandleParts DEF TypeOK
<1>2. /\ exporter[h[1]].family \in {"names", "other names", None}
      /\ exporter[h[1]].holders \subseteq Stage
      /\ exporter[h[1]].serving \in BOOLEAN
  BY <1>1 DEF Exporter
<1>3. AcquireExporter(exporter[h[1]], Set(h)) \in Exporter
  BY <1>2, SettingParts DEF AcquireExporter, Exporter
<1>4. ReleaseExporter(exporter[h[1]], Set(h)) \in Exporter
  <2> DEFINE rest == exporter[h[1]].holders \ {Set(h).labels}
             serving == exporter[h[1]].serving /\ rest # {}
  <2>1. ReleaseExporter(exporter[h[1]], Set(h)) =
            [exporter[h[1]] EXCEPT !.holders = rest, !.serving = serving]
    BY DEF ReleaseExporter
  <2>2. rest \subseteq Stage /\ serving \in BOOLEAN
    BY <1>2
  <2> HIDE DEF rest, serving
  <2> QED BY <1>1, <2>1, <2>2 DEF Exporter
<1> QED BY <1>3, <1>4

\* The changelog a handle makes sure of is a topic with partitions.
LEMMA ChangelogTypes ==
    ASSUME TypeOK, NEW s \in Stage, NEW n \in Nat \ {0}, EnsureChangelogTopic(s, n)
    PROVE  /\ changelog' \in [Stage -> (Nat \ {0}) \cup {None}]
           /\ unseen' \subseteq {t \in Stage : changelog'[t] # None}
<1>1. None \notin Nat
  BY ContainerAssumption DEF ContainerAssumption
<1>2. changelog \in [Stage -> (Nat \ {0}) \cup {None}] /\ unseen \subseteq {t \in Stage : changelog[t] # None}
  BY DEF TypeOK
<1>3. CASE changelog[s] = None
  <2>1. changelog' = [changelog EXCEPT ![s] = n] /\ unseen' = unseen \cup {s}
    BY <1>3 DEF EnsureChangelogTopic
  <2>2. changelog' \in [Stage -> (Nat \ {0}) \cup {None}]
    BY <1>2, <2>1
  <2>3. \A t \in unseen' : t \in Stage /\ changelog'[t] # None
    BY <1>1, <1>2, <2>1
  <2> QED BY <2>2, <2>3
<1>4. CASE changelog[s] # None
  BY <1>2, <1>4 DEF EnsureChangelogTopic
<1> QED BY <1>3, <1>4

\* The deployment does not change, so neither do the handles and their settings.
LEMMA SameHandles ==
    ASSUME deployment' = deployment
    PROVE  /\ Handle' = Handle
           /\ \A h : Set(h)' = Set(h) /\ IsTransformer(h)' = IsTransformer(h)
           /\ \A i : HandlesOf(i)' = HandlesOf(i)
  BY DEF Handle, Set, IsTransformer, HandlesOf

Client == {"admin", "consumer", "config", "membership"}

\* A step that moves handles and opens or closes clients, and nothing else.
LEMMA MoveTypes ==
    ASSUME TypeOK, pc' \in [Handle -> Location], open' \in [Handle -> SUBSET Client],
           UNCHANGED <<deployment, topicVars, counted, unclean, sharedVars, aborting, faults>>
    PROVE  TypeOK'
  BY SameHandles DEF TypeOK, Client, topicVars, sharedVars

\* The steps on the way up that only move, and open a client.
LEMMA MovingUpTypes ==
    ASSUME TypeOK, NEW h \in Handle,
           \/ StartAdmin(h) \/ CheckConfigTopics(h) \/ DescribeChangelog(h)
           \/ StartConsumer(h) \/ StartConfigConsumer(h) \/ CountTokens(h)
           \/ StartMembershipConsumer(h)
    PROVE  TypeOK'
<1>1. UNCHANGED <<deployment, topicVars, counted, unclean, sharedVars, aborting, faults>>
  BY DEF StartAdmin, CheckConfigTopics, DescribeChangelog, StartConsumer, StartConfigConsumer,
         CountTokens, StartMembershipConsumer
<1>2. open' \in [Handle -> SUBSET Client]
  <2>1. open \in [Handle -> SUBSET Client]
    BY DEF TypeOK, Client
  <2>2. open' = open \/ \E client \in Client : open' = [open EXCEPT ![h] = @ \cup {client}]
    BY DEF StartAdmin, CheckConfigTopics, DescribeChangelog, StartConsumer, StartConfigConsumer,
           CountTokens, StartMembershipConsumer, Client
  <2> QED BY <2>1, <2>2
<1>3. \E there \in Location : pc' = [pc EXCEPT ![h] = there]
  <2> USE DEF Goto, Location
  <2>1. CASE StartAdmin(h)
    BY <2>1 DEF StartAdmin, AfterConfigs
  <2>2. CASE CheckConfigTopics(h)
    BY <2>2 DEF CheckConfigTopics, AfterConfigs
  <2>3. CASE DescribeChangelog(h)
    BY <2>3 DEF DescribeChangelog
  <2>4. CASE StartConsumer(h)
    BY <2>4 DEF StartConsumer, FirstOfRunner
  <2>5. CASE StartConfigConsumer(h)
    BY <2>5 DEF StartConfigConsumer, FirstOfRunner
  <2>6. CASE CountTokens(h)
    BY <2>6 DEF CountTokens
  <2>7. CASE StartMembershipConsumer(h)
    BY <2>7 DEF StartMembershipConsumer
  <2> QED BY <2>1, <2>2, <2>3, <2>4, <2>5, <2>6, <2>7
<1>4. pc' \in [Handle -> Location]
  BY <1>3 DEF TypeOK
<1> QED BY <1>1, <1>2, <1>4, MoveTypes

\* Entering takes a seat and installs a keyring, or ends the handle.
LEMMA EnterTypes ==
    ASSUME TypeOK, NEW h \in Handle, Enter(h)
    PROVE  TypeOK'
<1>1. UNCHANGED <<deployment, topicVars, counted, open, unclean, aborting, faults>>
  BY DEF Enter
<1>2. pc' \in [Handle -> Location]
  BY DEF Enter, Goto, TypeOK, Location
<1>3. exporter' \in [Process -> Exporter]
  BY ExporterTypes, HandleParts DEF Enter, TypeOK
<1>4. keyring' \in [Process -> {"ring", "other ring", None}]
  BY SettingParts, HandleParts DEF Enter, TypeOK
<1> QED BY <1>1, <1>2, <1>3, <1>4, SameHandles DEF TypeOK, topicVars

\* Counting the inputs finds one count, and it is not zero.
LEMMA CountInputsTypes ==
    ASSUME TypeOK, NEW h \in Handle, CountInputs(h)
    PROVE  TypeOK' /\ (pc'[h] = "create" => counted'[h] # None)
<1> DEFINE counts == {partitions[t] : t \in Set(h).inputs}
           equal == Cardinality(counts) = 1 /\ 0 \notin counts
           found == CHOOSE n \in counts : TRUE
<1>1. UNCHANGED <<deployment, topicVars, open, unclean, sharedVars, aborting, faults>>
  BY DEF CountInputs
<1>2. pc' \in [Handle -> Location]
  BY DEF CountInputs, Goto, TypeOK, Location
<1>3. counts \subseteq Nat
  <2>1. Set(h).inputs \subseteq Topic
    BY HandleParts DEF Setting
  <2>2. \A t \in Topic : partitions[t] \in Nat
    <3>1. partitions \in [Topic -> 0..MaxPartitions]
      BY DEF TypeOK
    <3> QED BY <3>1, Bounds
  <2> QED BY <2>1, <2>2
<1>4. equal => found \in Nat \ {0}
  BY <1>3, OneCount
<1>5. counted' = (IF equal THEN [counted EXCEPT ![h] = found] ELSE counted)
  BY DEF CountInputs
<1>6. counted' \in [Handle -> (Nat \ {0}) \cup {None}]
  <2> HIDE DEF equal, found
  <2> QED BY <1>4, <1>5 DEF TypeOK
<1>7. pc'[h] = "create" => equal
  BY DEF CountInputs, Goto, TypeOK
<1>8. pc'[h] = "create" => counted'[h] # None
  <2>1. None \notin Nat
    BY ContainerAssumption DEF ContainerAssumption
  <2> HIDE DEF equal, found
  <2> QED BY <1>4, <1>5, <1>7, <2>1 DEF TypeOK
<1> QED BY <1>1, <1>2, <1>6, <1>8, SameHandles DEF TypeOK, topicVars, sharedVars

\* Who creates a changelog has counted the inputs; `EnsureChangelog' takes the
\* default of the broker.
LEMMA CreatingTypes ==
    ASSUME TypeOK, ChangelogInPlace, NEW h \in Handle, CreateChangelog(h) \/ EnsureChangelog(h)
    PROVE  TypeOK'
<1>1. h[2] \in Stage
  BY HandleParts
<1>2. UNCHANGED <<deployment, partitions, counted, open, unclean, sharedVars, aborting, faults>>
  BY DEF CreateChangelog, EnsureChangelog
<1>3. pc' \in [Handle -> Location]
  BY DEF CreateChangelog, EnsureChangelog, Goto, TypeOK, Location
<1>4. \E n \in Nat \ {0} : EnsureChangelogTopic(h[2], n)
  <2>1. CASE CreateChangelog(h)
    <3>1. counted[h] \in Nat \ {0}
      BY <2>1 DEF CreateChangelog, Goto, ChangelogInPlace, InPlace, TypeOK
    <3> QED BY <2>1, <3>1 DEF CreateChangelog
  <2>2. CASE EnsureChangelog(h)
    BY <2>2, Bounds DEF EnsureChangelog
  <2> QED BY <2>1, <2>2
<1>5. /\ changelog' \in [Stage -> (Nat \ {0}) \cup {None}]
      /\ unseen' \subseteq {t \in Stage : changelog'[t] # None}
  BY <1>1, <1>4, ChangelogTypes
<1> QED BY <1>2, <1>3, <1>5, SameHandles DEF TypeOK, sharedVars

LEMMA ComingUpTypes ==
    ASSUME TypeOK, ChangelogInPlace, NEW h \in Handle, ComingUp(h)
    PROVE  TypeOK'
<1>1. CASE Enter(h)
  BY <1>1, EnterTypes
<1>2. CASE CountInputs(h)
  BY <1>2, CountInputsTypes
<1>3. CASE CreateChangelog(h) \/ EnsureChangelog(h)
  BY <1>3, CreatingTypes
<1>4. CASE \/ StartAdmin(h) \/ CheckConfigTopics(h) \/ DescribeChangelog(h)
           \/ StartConsumer(h) \/ StartConfigConsumer(h) \/ CountTokens(h)
           \/ StartMembershipConsumer(h)
  BY <1>4, MovingUpTypes
<1> QED BY <1>1, <1>2, <1>3, <1>4 DEF ComingUp

\* The steps on the way down close clients, and may leave the seat.
LEMMA GoingDownTypes ==
    ASSUME TypeOK, NEW h \in Handle, GoingDown(h)
    PROVE  TypeOK'
<1>1. UNCHANGED <<deployment, topicVars, counted, unclean, keyring, aborting, faults>>
  BY DEF GoingDown, CloseAdmin, StopClient, WipeInnerStore, sharedVars
<1>2. pc' \in [Handle -> Location]
  <2>1. \E there \in {"start consumer", "undo", "stop", "wipe", "gone"} :
            pc' = [pc EXCEPT ![h] = there]
    BY DEF GoingDown, CloseAdmin, StopClient, WipeInnerStore, Goto
  <2>2. {"start consumer", "undo", "stop", "wipe", "gone"} \subseteq Location
    BY DEF Location
  <2> QED BY <2>1, <2>2 DEF TypeOK
<1>3. open' \in [Handle -> SUBSET Client]
  <2>1. open \in [Handle -> SUBSET Client]
    BY DEF TypeOK, Client
  <2>2. \E clients : open' = [open EXCEPT ![h] = @ \ clients] \/ open' = open
    BY DEF GoingDown, CloseAdmin, StopClient, WipeInnerStore
  <2> QED BY <2>1, <2>2
<1>4. exporter' \in [Process -> Exporter]
  <2>1. \/ exporter' = exporter
        \/ exporter' = [exporter EXCEPT ![h[1]] = ReleaseExporter(exporter[h[1]], Set(h))]
    BY DEF GoingDown, CloseAdmin, StopClient, WipeInnerStore, sharedVars
  <2> QED BY <2>1, ExporterTypes DEF TypeOK
<1> QED BY <1>1, <1>2, <1>3, <1>4, SameHandles DEF TypeOK, topicVars, Client

\* An exception takes a handle to a location, and may leave what it was opening.
LEMMA RaiseTypes ==
    ASSUME TypeOK, NEW hs, Raise(hs)
    PROVE  /\ pc' \in [Handle -> Location]
           /\ open' \in [Handle -> SUBSET Client]
           /\ unclean' \in [Handle -> BOOLEAN]
<1>1. /\ pc \in [Handle -> Location]
      /\ open \in [Handle -> SUBSET Client]
      /\ unclean \in [Handle -> BOOLEAN]
  BY DEF TypeOK, Client
<1>2. \A at : Unwound(at) \in Location /\ Opened(at) \subseteq Client
  BY DEF Unwound, Opened, Location, Client
<1>3. pc' \in [Handle -> Location]
  BY <1>1, <1>2 DEF Raise
<1>4. open' \in [Handle -> SUBSET Client]
  BY <1>1, <1>2 DEF Raise
<1>5. unclean' \in [Handle -> BOOLEAN]
  BY <1>1 DEF Raise
<1> QED BY <1>3, <1>4, <1>5

\* A fault, a step of the TaskGroup or a signal, and a process that starts anew.
LEMMA UnwindingTypes ==
    ASSUME TypeOK,
           \/ \E h \in Handle : Fails(h)
           \/ \E i \in Process : Abort(i) \/ Interrupt(i)
    PROVE  TypeOK'
<1>1. \E hs : Raise(hs)
  BY DEF Fails, Abort, Interrupt
<1>2. /\ pc' \in [Handle -> Location]
      /\ open' \in [Handle -> SUBSET Client]
      /\ unclean' \in [Handle -> BOOLEAN]
  BY <1>1, RaiseTypes
<1>3. UNCHANGED <<deployment, topicVars, counted, sharedVars>>
  BY DEF Fails, Abort, Interrupt
<1>4. faults' \in 0..MaxFaults
  <2>1. faults \in 0..MaxFaults
    BY DEF TypeOK
  <2>2. faults' = faults \/ (faults < MaxFaults /\ faults' = faults + 1)
    BY DEF Fails, Abort, Interrupt
  <2> QED BY <2>1, <2>2, Bounds
<1>5. aborting' \in [Process -> BOOLEAN]
  BY DEF Fails, Abort, Interrupt, TypeOK
<1> QED BY <1>2, <1>3, <1>4, <1>5, SameHandles DEF TypeOK, topicVars, sharedVars, Client

LEMMA RenewTypes ==
    ASSUME TypeOK, NEW i \in Process, ProcessEnds(i) \/ Kill(i)
    PROVE  TypeOK'
<1>1. Renew(i)
  BY DEF ProcessEnds, Kill
<1>2. UNCHANGED <<deployment, topicVars>>
  BY <1>1 DEF Renew
<1>3. pc' \in [Handle -> Location]
  BY <1>1 DEF Renew, TypeOK, Location
<1>4. counted' \in [Handle -> (Nat \ {0}) \cup {None}]
  BY <1>1 DEF Renew, TypeOK
<1>5. /\ open' \in [Handle -> SUBSET Client]
      /\ unclean' \in [Handle -> BOOLEAN]
  BY <1>1 DEF Renew, TypeOK, Client
<1>6. NoExporter \in Exporter
  BY DEF NoExporter, Exporter
<1>7. /\ keyring' \in [Process -> {"ring", "other ring", None}]
      /\ exporter' \in [Process -> Exporter]
      /\ aborting' \in [Process -> BOOLEAN]
  BY <1>1, <1>6 DEF Renew, TypeOK
<1>8. faults' \in 0..MaxFaults
  <2>1. faults \in 0..MaxFaults
    BY DEF TypeOK
  <2>2. faults' = faults \/ (faults < MaxFaults /\ faults' = faults + 1)
    BY DEF ProcessEnds, Kill
  <2> QED BY <2>1, <2>2, Bounds
<1> QED BY <1>2, <1>3, <1>4, <1>5, <1>7, <1>8, SameHandles DEF TypeOK, topicVars, Client

\* The topics change by themselves.
LEMMA TopicStepTypes ==
    ASSUME TypeOK, (\E s \in Stage : MetadataSpreads(s)) \/ (\E t \in Topic : Grow(t))
    PROVE  TypeOK'
<1>1. UNCHANGED <<deployment, changelog, handleVars, sharedVars, aborting, faults>>
  BY DEF MetadataSpreads, Grow
<1>2. unseen' \subseteq unseen
  BY DEF MetadataSpreads, Grow
<1>3. partitions' \in [Topic -> 0..MaxPartitions]
  <2>1. partitions \in [Topic -> 0..MaxPartitions]
    BY DEF TypeOK
  <2>2. \/ partitions' = partitions
        \/ \E t \in Topic : /\ partitions[t] < MaxPartitions
                            /\ partitions' = [partitions EXCEPT ![t] = @ + 1]
    BY DEF MetadataSpreads, Grow
  <2> QED BY <2>1, <2>2, Bounds
<1> QED BY <1>1, <1>2, <1>3, SameHandles DEF TypeOK, handleVars, sharedVars

LEMMA TypeStep ==
    ASSUME TypeOK, ChangelogInPlace, [Next]_vars
    PROVE  TypeOK'
<1>1. ASSUME NEW h \in Handle, ComingUp(h) PROVE TypeOK'
  BY <1>1, ComingUpTypes
<1>2. ASSUME NEW h \in Handle, GoingDown(h) PROVE TypeOK'
  BY <1>2, GoingDownTypes
<1>3. CASE UNCHANGED vars
  BY <1>3, SameHandles DEF vars, TypeOK, topicVars, sharedVars, handleVars
<1>4. CASE \/ \E h \in Handle : Fails(h)
           \/ \E i \in Process : Abort(i) \/ Interrupt(i)
  BY <1>4, UnwindingTypes
<1>5. ASSUME NEW i \in Process, ProcessEnds(i) \/ Kill(i) PROVE TypeOK'
  BY <1>5, RenewTypes
<1>6. CASE (\E s \in Stage : MetadataSpreads(s)) \/ (\E t \in Topic : Grow(t))
  BY <1>6, TopicStepTypes
<1> QED BY <1>1, <1>2, <1>3, <1>4, <1>5, <1>6 DEF Next, Run

-----------------------------------------------------------------------------
(* Seats at the endpoint *)

\* Nobody comes up or goes down, or goes down without leaving its seat.
LEMMA KeepsSeats ==
    ASSUME SeatsHeld, UNCHANGED <<deployment, sharedVars>>,
           \A h \in Handle : Up(h)' => Up(h)
    PROVE  SeatsHeld'
  BY SameHandles DEF SeatsHeld, ServesHolders, Seated, sharedVars

\* The parts of SeatsHeld after a step.
LEMMA SeatsAfter ==
    ASSUME deployment' = deployment,
           \A j \in Process : ServesHolders(j)',
           \A g \in Handle : Up(g)' => Seated(g)',
           \A g, k \in Handle :
               g # k /\ g[1] = k[1] /\ Up(g)' /\ Up(k)' => Set(g).labels # Set(k).labels
    PROVE  SeatsHeld'
<1>1. \A g \in Handle' : Up(g)' => Seated(g)'
  BY SameHandles
<1>2. \A g, k \in Handle' :
          g # k /\ g[1] = k[1] /\ Up(g)' /\ Up(k)' => Set(g)'.labels # Set(k)'.labels
  BY SameHandles
<1> QED BY <1>1, <1>2 DEF SeatsHeld

\* Whoever takes a seat takes a free one, and agrees with whoever is there.
LEMMA EnterSeats ==
    ASSUME TypeOK, SeatsHeld, NEW h \in Handle, Enter(h)
    PROVE  SeatsHeld'
<1> DEFINE i == h[1]
           seated == CanAcquire(exporter[i], Set(h))
           installed == seated /\ CanInstall(keyring[i], Set(h))
<1>1. i \in Process
  BY HandleParts
<1>2. deployment' = deployment
  BY DEF Enter
<1>3. /\ pc[h] = "new"
      /\ \A g \in Handle : g # h => pc'[g] = pc[g]
  BY DEF Enter, Goto, TypeOK
<1>4. pc'[h] # "gone" => installed
  BY DEF Enter, Goto, TypeOK
<1>5. \A j \in Process : j # i => exporter'[j] = exporter[j] /\ keyring'[j] = keyring[j]
  BY <1>1 DEF Enter, TypeOK
<1>6. \A g \in Handle : g # h => Up(g)' = Up(g)
  BY <1>3 DEF Up
<1>7. CASE ~seated
  <2>1. UNCHANGED sharedVars
    BY <1>7 DEF Enter, sharedVars
  <2>2. ~Up(h)'
    BY <1>4, <1>7 DEF Up
  <2> QED BY <1>2, <1>6, <2>1, <2>2, KeepsSeats
<1>8. CASE seated
  <2>1. exporter'[i] = AcquireExporter(exporter[i], Set(h))
    BY <1>1, <1>8 DEF Enter, TypeOK
  <2>2. Set(h).family # None
    BY SettingParts, ContainerAssumption DEF ContainerAssumption
  <2>3. /\ exporter'[i].serving
        /\ exporter'[i].holders = exporter[i].holders \cup {Set(h).labels}
        /\ exporter'[i].family = Set(h).family
    BY <1>8, <2>1 DEF AcquireExporter, CanAcquire, Compatible
  <2>4. \/ exporter[i].holders = {}
        \/ Set(h).labels \notin exporter[i].holders /\ exporter[i].family = Set(h).family
    BY <1>1, <1>8 DEF CanAcquire, Compatible, SeatsHeld, ServesHolders
  <2>5. keyring'[i] = (IF installed /\ Set(h).keyring # None THEN Set(h).keyring ELSE keyring[i])
    BY <1>1 DEF Enter, TypeOK
  <2>6. keyring'[i] # keyring[i] => keyring[i] = None
    BY <2>5 DEF CanInstall
  <2>7. installed => Set(h).keyring \in {None, keyring'[i]}
    BY <2>5
  <2> HIDE DEF i, seated, installed
  <2>8. Up(h)' => Seated(h)'
    BY <1>2, <1>4, <2>3, <2>7, SameHandles DEF Up, Seated, i
  <2>9. ASSUME NEW g \in Handle, g # h, Up(g) PROVE Seated(g)'
    <3>1. Seated(g)
      BY <2>9 DEF SeatsHeld
    <3>2. g[1] \in Process
      BY HandleParts
    <3>3. CASE g[1] # i
      BY <1>2, <1>5, <3>1, <3>2, <3>3, SameHandles DEF Seated
    <3>4. CASE g[1] = i
      BY <1>2, <2>3, <2>4, <2>6, <3>1, <3>4, SameHandles DEF Seated
    <3> QED BY <3>3, <3>4
  <2>10. ASSUME NEW g \in Handle, g # h, g[1] = i, Up(g) PROVE Set(g).labels # Set(h).labels
    <3>1. Set(g).labels \in exporter[i].holders
      BY <2>10 DEF SeatsHeld, Seated
    <3> QED BY <2>4, <3>1
  <2>11. \A j \in Process : ServesHolders(j)'
    BY <1>5, <2>2, <2>3 DEF SeatsHeld, ServesHolders
  <2>12. \A g \in Handle : Up(g)' => Seated(g)'
    BY <1>6, <2>8, <2>9
  <2>13. \A g, k \in Handle : g # k /\ g[1] = k[1] /\ Up(g)' /\ Up(k)' => Set(g).labels # Set(k).labels
    BY <1>6, <2>10 DEF SeatsHeld, i
  <2> QED BY <1>2, <2>11, <2>12, <2>13, SeatsAfter
<1> QED BY <1>7, <1>8

\* Whoever leaves its seat leaves no other one's, and the last one stops the server.
LEMMA LeaveSeats ==
    ASSUME TypeOK, SeatsHeld, NEW h \in Handle, GoingDown(h)
    PROVE  SeatsHeld'
<1> DEFINE i == h[1]
<1>1. i \in Process
  BY HandleParts
<1>2. UNCHANGED <<deployment, keyring>>
  BY DEF GoingDown, CloseAdmin, StopClient, WipeInnerStore, sharedVars
<1>3. /\ Up(h)
      /\ \A g \in Handle : g # h => pc'[g] = pc[g]
  BY DEF GoingDown, CloseAdmin, StopClient, WipeInnerStore, Goto, TypeOK, Up
<1>4. \A g \in Handle : Up(g)' => Up(g)
  BY <1>3 DEF Up
<1>5. CASE exporter' = exporter
  BY <1>2, <1>4, <1>5, KeepsSeats DEF sharedVars
<1>6. CASE exporter' # exporter
  <2>1. /\ exporter' = [exporter EXCEPT ![i] = ReleaseExporter(exporter[i], Set(h))]
        /\ ~Up(h)'
    BY <1>6 DEF GoingDown, CloseAdmin, StopClient, WipeInnerStore, Goto, TypeOK, Up, sharedVars
  <2>2. exporter[i] \in Exporter
    BY <1>1 DEF TypeOK
  <2>3. \A j \in Process : j # i => exporter'[j] = exporter[j]
    BY <2>1 DEF TypeOK
  <2>4. exporter'[i] = ReleaseExporter(exporter[i], Set(h))
    BY <1>1, <2>1 DEF TypeOK
  <2>5. /\ exporter'[i].holders = exporter[i].holders \ {Set(h).labels}
        /\ exporter'[i].serving = (exporter[i].serving /\ exporter'[i].holders # {})
        /\ exporter'[i].family = exporter[i].family
    BY <2>2, <2>4 DEF ReleaseExporter, Exporter
  <2>6. ASSUME NEW g \in Handle, Up(g)' PROVE Seated(g)'
    <3>1. g # h /\ Up(g) /\ g[1] \in Process
      BY <1>4, <2>1, <2>6, HandleParts
    <3>2. Seated(g) /\ (g[1] = i => Set(g).labels # Set(h).labels)
      BY <1>3, <3>1 DEF SeatsHeld
    <3> QED BY <1>2, <2>3, <2>5, <3>1, <3>2, SameHandles DEF Seated
  <2>7. \A j \in Process : ServesHolders(j)'
    BY <2>3, <2>5 DEF SeatsHeld, ServesHolders
  <2>8. \A g, k \in Handle : g # k /\ g[1] = k[1] /\ Up(g)' /\ Up(k)' => Set(g).labels # Set(k).labels
    BY <1>4 DEF SeatsHeld
  <2> QED BY <1>2, <2>6, <2>7, <2>8, SeatsAfter
<1> QED BY <1>5, <1>6

\* A process that starts anew starts without seats.
LEMMA RenewSeats ==
    ASSUME TypeOK, SeatsHeld, NEW i \in Process, Renew(i)
    PROVE  SeatsHeld'
<1>1. deployment' = deployment
  BY DEF Renew
<1>2. \A h \in Handle : Up(h)' => Up(h) /\ h[1] # i
  BY DEF Renew, Up
<1>3. exporter'[i] = NoExporter
  BY DEF Renew, TypeOK
<1>4. \A j \in Process : j # i => exporter'[j] = exporter[j] /\ keyring'[j] = keyring[j]
  BY DEF Renew, TypeOK
<1>5. ASSUME NEW h \in Handle, Up(h)' PROVE Seated(h)'
  BY <1>1, <1>2, <1>4, <1>5, HandleParts, SameHandles DEF SeatsHeld, Seated
<1>6. \A j \in Process : ServesHolders(j)'
  BY <1>3, <1>4 DEF SeatsHeld, ServesHolders, NoExporter
<1>7. \A g, h \in Handle : g # h /\ g[1] = h[1] /\ Up(g)' /\ Up(h)' => Set(g).labels # Set(h).labels
  BY <1>2 DEF SeatsHeld
<1> QED BY <1>1, <1>5, <1>6, <1>7, SeatsAfter

LEMMA SeatsStep ==
    ASSUME TypeOK, SeatsHeld, [Next]_vars
    PROVE  SeatsHeld'
<1>1. CASE UNCHANGED vars
  BY <1>1, KeepsSeats DEF vars, handleVars, Up
<1>2. ASSUME NEW h \in Handle, ComingUp(h) PROVE SeatsHeld'
  <2>1. CASE Enter(h)
    BY <2>1, EnterSeats
  <2>2. CASE ~Enter(h)
    <3>1. UNCHANGED <<deployment, sharedVars>>
      BY <1>2, <2>2 DEF ComingUp, StartAdmin, CheckConfigTopics, CountInputs, CreateChangelog,
         DescribeChangelog, StartConsumer, StartConfigConsumer, CountTokens, EnsureChangelog,
         StartMembershipConsumer
    <3>2. Up(h) /\ \A g \in Handle : g # h => pc'[g] = pc[g]
      BY <1>2, <2>2 DEF ComingUp, StartAdmin, CheckConfigTopics, CountInputs, CreateChangelog,
         DescribeChangelog, StartConsumer, StartConfigConsumer, CountTokens, EnsureChangelog,
         StartMembershipConsumer, Goto, Up, TypeOK
    <3>3. \A g \in Handle : Up(g)' => Up(g)
      BY <3>2 DEF Up
    <3> QED BY <3>1, <3>3, KeepsSeats
  <2> QED BY <2>1, <2>2
<1>3. ASSUME NEW h \in Handle, GoingDown(h) PROVE SeatsHeld'
  BY <1>3, LeaveSeats
<1>4. CASE \/ \E h \in Handle : Fails(h)
           \/ \E i \in Process : Abort(i) \/ Interrupt(i)
  <2>1. UNCHANGED <<deployment, sharedVars>> /\ \E hs : Raise(hs)
    BY <1>4 DEF Fails, Abort, Interrupt
  <2>2. \A h \in Handle : Up(h)' => Up(h)
    BY <2>1 DEF Raise, Unwound, Up
  <2> QED BY <2>1, <2>2, KeepsSeats
<1>5. ASSUME NEW i \in Process, ProcessEnds(i) \/ Kill(i) PROVE SeatsHeld'
  BY <1>5, RenewSeats DEF ProcessEnds, Kill
<1>6. CASE (\E s \in Stage : MetadataSpreads(s)) \/ (\E t \in Topic : Grow(t))
  BY <1>6, KeepsSeats DEF MetadataSpreads, Grow, handleVars, Up
<1> QED BY <1>1, <1>2, <1>3, <1>4, <1>5, <1>6 DEF Next, Run

-----------------------------------------------------------------------------
(* Changelogs *)

\* A changelog that exists stays as it is.
Kept == \A s \in Stage : changelog[s] # None => changelog'[s] = changelog[s]

LEMMA ChangelogKept ==
    ASSUME TypeOK, [Next]_vars
    PROVE  Kept /\ deployment' = deployment
<1>1. ASSUME NEW s \in Stage, NEW n, EnsureChangelogTopic(s, n) PROVE Kept
  BY <1>1 DEF EnsureChangelogTopic, TypeOK, Kept
<1>2. ASSUME changelog' = changelog PROVE Kept
  BY <1>2 DEF Kept
<1>3. ASSUME NEW h \in Handle, ComingUp(h) PROVE Kept /\ deployment' = deployment
  <2>1. deployment' = deployment
    BY <1>3 DEF ComingUp, Enter, StartAdmin, CheckConfigTopics, CountInputs, CreateChangelog,
       DescribeChangelog, StartConsumer, StartConfigConsumer, CountTokens, EnsureChangelog,
       StartMembershipConsumer
  <2>2. changelog' = changelog \/ \E n : EnsureChangelogTopic(h[2], n)
    BY <1>3 DEF ComingUp, Enter, StartAdmin, CheckConfigTopics, CountInputs, CreateChangelog,
       DescribeChangelog, StartConsumer, StartConfigConsumer, CountTokens, EnsureChangelog,
       StartMembershipConsumer, topicVars
  <2> QED BY <1>1, <1>2, <2>1, <2>2, HandleParts
<1>4. ASSUME UNCHANGED <<deployment, changelog>> PROVE Kept /\ deployment' = deployment
  BY <1>2, <1>4
<1>5. CASE \/ UNCHANGED vars
           \/ \E h \in Handle : GoingDown(h) \/ Run(h) \/ Fails(h)
           \/ \E i \in Process : Abort(i) \/ Interrupt(i) \/ ProcessEnds(i) \/ Kill(i)
           \/ \E s \in Stage : MetadataSpreads(s)
           \/ \E t \in Topic : Grow(t)
  <2>1. UNCHANGED <<deployment, changelog>>
    BY <1>5 DEF vars, topicVars, GoingDown, CloseAdmin, StopClient, WipeInnerStore, Run, Fails,
       Abort, Interrupt, ProcessEnds, Kill, Renew, MetadataSpreads, Grow
  <2> QED BY <1>4, <2>1
<1> QED BY <1>3, <1>5 DEF Next

\* A handle that stays where it is.
LEMMA StaysInPlace ==
    ASSUME TypeOK, ChangelogInPlace, Kept, deployment' = deployment,
           NEW g \in Handle, pc'[g] = pc[g], counted'[g] = counted[g]
    PROVE  InPlace(g)'
<1>1. InPlace(g) /\ IsTransformer(g)' = IsTransformer(g) /\ g[2] \in Stage
  BY HandleParts, SameHandles DEF ChangelogInPlace
<1> QED BY <1>1 DEF InPlace, Kept, PastChangelog

\* The handle that comes up finds or creates the changelog its inputs call for.
LEMMA ComesUpInPlace ==
    ASSUME TypeOK, ChangelogInPlace, Kept, deployment' = deployment,
           NEW h \in Handle, ComingUp(h)
    PROVE  InPlace(h)'
<1>1. InPlace(h) /\ IsTransformer(h)' = IsTransformer(h) /\ h[2] \in Stage
  BY HandleParts, SameHandles DEF ChangelogInPlace
<1>2. IsTransformer(h) => Set(h).kind # "sharded"
  BY DEF IsTransformer
<1> USE DEF InPlace, PastChangelog, Goto, TypeOK
<1>3. CASE Enter(h)
  BY <1>1, <1>3 DEF Enter
<1>4. CASE StartAdmin(h)
  BY <1>1, <1>4 DEF StartAdmin, AfterConfigs
<1>5. CASE CheckConfigTopics(h)
  BY <1>1, <1>5 DEF CheckConfigTopics, AfterConfigs
<1>6. CASE CountInputs(h)
  BY <1>1, <1>6, CountInputsTypes DEF CountInputs
<1>7. CASE CreateChangelog(h)
  BY <1>1, <1>7 DEF CreateChangelog, EnsureChangelogTopic
<1>8. CASE DescribeChangelog(h)
  BY <1>1, <1>8 DEF DescribeChangelog, topicVars
<1>9. CASE StartConsumer(h)
  BY <1>1, <1>2, <1>9 DEF StartConsumer, FirstOfRunner, topicVars
<1>10. CASE StartConfigConsumer(h)
  BY <1>1, <1>2, <1>10 DEF StartConfigConsumer, FirstOfRunner, topicVars
<1>11. CASE CountTokens(h)
  BY <1>1, <1>11 DEF CountTokens
<1>12. CASE EnsureChangelog(h)
  BY <1>1, <1>12 DEF EnsureChangelog
<1>13. CASE StartMembershipConsumer(h)
  BY <1>1, <1>13 DEF StartMembershipConsumer
<1> QED BY <1>3, <1>4, <1>5, <1>6, <1>7, <1>8, <1>9, <1>10, <1>11, <1>12, <1>13 DEF ComingUp

\* The handle that goes down comes to where nothing is asked of its changelog, or
\* has just closed its admin client.
LEMMA GoesDownInPlace ==
    ASSUME TypeOK, ChangelogInPlace, deployment' = deployment, NEW h \in Handle, GoingDown(h)
    PROVE  InPlace(h)'
<1>1. InPlace(h) /\ IsTransformer(h)' = IsTransformer(h)
  BY SameHandles DEF ChangelogInPlace
<1>2. CASE CloseAdmin(h)
  BY <1>1, <1>2 DEF CloseAdmin, InPlace, PastChangelog, Goto, TypeOK, topicVars
<1>3. CASE StopClient(h) \/ WipeInnerStore(h)
  <2>1. pc'[h] \in {"undo", "stop", "wipe", "gone"}
    BY <1>3 DEF StopClient, WipeInnerStore, Goto, TypeOK
  <2> QED BY <2>1 DEF InPlace, PastChangelog
<1> QED BY <1>2, <1>3 DEF GoingDown

LEMMA ChangelogStep ==
    ASSUME TypeOK, ChangelogInPlace, [Next]_vars
    PROVE  ChangelogInPlace'
<1>1. Kept /\ deployment' = deployment
  BY ChangelogKept
<1> SUFFICES ASSUME NEW g \in Handle PROVE InPlace(g)'
  BY <1>1, SameHandles DEF ChangelogInPlace
<1>2. ASSUME NEW h \in Handle, ComingUp(h) PROVE InPlace(g)'
  <2>1. CASE g = h
    BY <1>1, <1>2, <2>1, ComesUpInPlace
  <2>2. CASE g # h
    <3>1. pc'[g] = pc[g] /\ counted'[g] = counted[g]
      BY <1>2, <2>2 DEF ComingUp, Enter, StartAdmin, CheckConfigTopics, CountInputs,
         CreateChangelog, DescribeChangelog, StartConsumer, StartConfigConsumer, CountTokens,
         EnsureChangelog, StartMembershipConsumer, Goto, TypeOK
    <3> QED BY <1>1, <3>1, StaysInPlace
  <2> QED BY <2>1, <2>2
<1>3. ASSUME NEW h \in Handle, GoingDown(h) PROVE InPlace(g)'
  <2>1. CASE g = h
    BY <1>1, <1>3, <2>1, GoesDownInPlace
  <2>2. CASE g # h
    <3>1. pc'[g] = pc[g] /\ counted'[g] = counted[g]
      BY <1>3, <2>2 DEF GoingDown, CloseAdmin, StopClient, WipeInnerStore, Goto, TypeOK
    <3> QED BY <1>1, <3>1, StaysInPlace
  <2> QED BY <2>1, <2>2
<1>4. CASE \/ \E h \in Handle : Fails(h)
           \/ \E i \in Process : Abort(i) \/ Interrupt(i)
  <2>1. counted' = counted /\ \E hs : Raise(hs)
    BY <1>4 DEF Fails, Abort, Interrupt
  <2>2. pc'[g] = pc[g] \/ pc'[g] \in {"undo admin", "undo", "stop", "gone"}
    BY <2>1 DEF Raise, Unwound
  <2>3. CASE pc'[g] = pc[g]
    BY <1>1, <2>1, <2>3, StaysInPlace
  <2>4. CASE pc'[g] \in {"undo admin", "undo", "stop", "gone"}
    BY <2>4 DEF InPlace, PastChangelog
  <2> QED BY <2>2, <2>3, <2>4
<1>5. ASSUME NEW i \in Process, ProcessEnds(i) \/ Kill(i) PROVE InPlace(g)'
  <2>1. Renew(i)
    BY <1>5 DEF ProcessEnds, Kill
  <2>2. CASE g[1] = i
    BY <2>1, <2>2 DEF Renew, InPlace, PastChangelog
  <2>3. CASE g[1] # i
    <3>1. pc'[g] = pc[g] /\ counted'[g] = counted[g]
      BY <2>1, <2>3 DEF Renew
    <3> QED BY <1>1, <3>1, StaysInPlace
  <2> QED BY <2>2, <2>3
<1>6. CASE \/ UNCHANGED vars
           \/ (\E s \in Stage : MetadataSpreads(s)) \/ (\E t \in Topic : Grow(t))
  <2>1. UNCHANGED handleVars
    BY <1>6 DEF vars, MetadataSpreads, Grow
  <2> QED BY <1>1, <2>1, StaysInPlace DEF handleVars
<1> QED BY <1>2, <1>3, <1>4, <1>5, <1>6 DEF Next, Run

-----------------------------------------------------------------------------
(* Clients *)

\* The handle that moves opens a client only where something ahead closes it.
LEMMA ComesUpClosing ==
    ASSUME TypeOK, ClosedAhead, NEW h \in Handle, ComingUp(h)
    PROVE  unclean'[h] \/ ClosesAhead(h)'
<1>1. unclean' = unclean
  BY DEF ComingUp, Enter, StartAdmin, CheckConfigTopics, CountInputs, CreateChangelog,
     DescribeChangelog, StartConsumer, StartConfigConsumer, CountTokens, EnsureChangelog,
     StartMembershipConsumer
<1> SUFFICES ASSUME ClosesAhead(h) PROVE ClosesAhead(h)'
  BY <1>1 DEF ClosedAhead
<1> USE DEF ClosesAhead, AdminAhead, ConsumerAhead, ConfigAhead, MembershipAhead, Goto, TypeOK
<1>2. CASE Enter(h)
  BY <1>2 DEF Enter
<1>3. CASE StartAdmin(h)
  BY <1>3 DEF StartAdmin, AfterConfigs
<1>4. CASE CheckConfigTopics(h)
  BY <1>4 DEF CheckConfigTopics, AfterConfigs
<1>5. CASE CountInputs(h)
  BY <1>5 DEF CountInputs
<1>6. CASE CreateChangelog(h)
  BY <1>6 DEF CreateChangelog
<1>7. CASE DescribeChangelog(h)
  BY <1>7 DEF DescribeChangelog
<1>8. CASE StartConsumer(h)
  BY <1>8 DEF StartConsumer, FirstOfRunner
<1>9. CASE StartConfigConsumer(h)
  BY <1>9 DEF StartConfigConsumer, FirstOfRunner
<1>10. CASE CountTokens(h)
  BY <1>10 DEF CountTokens
<1>11. CASE EnsureChangelog(h)
  BY <1>11 DEF EnsureChangelog
<1>12. CASE StartMembershipConsumer(h)
  BY <1>12 DEF StartMembershipConsumer
<1> QED BY <1>2, <1>3, <1>4, <1>5, <1>6, <1>7, <1>8, <1>9, <1>10, <1>11, <1>12 DEF ComingUp

\* A handle that closes its clients is past them only when none is open.
LEMMA GoesDownClosing ==
    ASSUME TypeOK, ClosedAhead, NEW h \in Handle, GoingDown(h)
    PROVE  unclean'[h] \/ ClosesAhead(h)'
<1>1. unclean' = unclean
  BY DEF GoingDown, CloseAdmin, StopClient, WipeInnerStore
<1> SUFFICES ASSUME ClosesAhead(h) PROVE ClosesAhead(h)'
  BY <1>1 DEF ClosedAhead
<1> USE DEF ClosesAhead, AdminAhead, ConsumerAhead, ConfigAhead, MembershipAhead, Goto
<1>2. CASE CloseAdmin(h)
  BY <1>2 DEF CloseAdmin, TypeOK
<1>3. CASE StopClient(h)
  <2>1. open'[h] = open[h] \ NextToStop(open[h])
    BY <1>3 DEF StopClient, TypeOK
  <2>2. \/ pc[h] \in {"undo", "stop"} /\ pc'[h] = pc[h]
        \/ open'[h] = {}
    BY <1>3, <2>1 DEF StopClient, TypeOK
  <2> QED BY <2>1, <2>2
<1>4. CASE WipeInnerStore(h)
  BY <1>4 DEF WipeInnerStore, TypeOK
<1> QED BY <1>2, <1>3, <1>4 DEF GoingDown

\* An exception leads to where what is open is closed, unless it was raised by
\* what was closing it.
LEMMA RaiseClosing ==
    ASSUME TypeOK, ClosedAhead, NEW hs, Raise(hs), NEW h \in Handle
    PROVE  unclean'[h] \/ ClosesAhead(h)'
<1>1. CASE h \notin hs
  BY <1>1 DEF Raise, ClosedAhead, ClosesAhead
<1>2. CASE h \in hs
  <2>1. pc'[h] = Unwound(pc[h]) /\ open'[h] \in {open[h], open[h] \cup Opened(pc[h])}
    BY <1>2 DEF Raise
  <2>2. unclean'[h] = (unclean[h] \/ pc[h] \in Closing)
    BY <1>2 DEF Raise
  <2>3. SUFFICES ASSUME ClosesAhead(h), pc[h] \notin Closing PROVE ClosesAhead(h)'
    BY <2>2 DEF ClosedAhead
  <2> QED BY <2>1, <2>3 DEF ClosesAhead, AdminAhead, ConsumerAhead, ConfigAhead, MembershipAhead,
                            Unwound, Opened, Closing
<1> QED BY <1>1, <1>2

LEMMA ClosedStep ==
    ASSUME TypeOK, ClosedAhead, [Next]_vars
    PROVE  ClosedAhead'
<1>1. deployment' = deployment
  BY ChangelogKept
<1> SUFFICES ASSUME NEW g \in Handle PROVE unclean'[g] \/ ClosesAhead(g)'
  BY <1>1, SameHandles DEF ClosedAhead
<1>2. ASSUME pc'[g] = pc[g], open'[g] = open[g], unclean'[g] = unclean[g]
      PROVE  unclean'[g] \/ ClosesAhead(g)'
  BY <1>2 DEF ClosedAhead, ClosesAhead
<1>3. ASSUME NEW h \in Handle, ComingUp(h) PROVE unclean'[g] \/ ClosesAhead(g)'
  <2>1. g # h => pc'[g] = pc[g] /\ open'[g] = open[g] /\ unclean'[g] = unclean[g]
    BY <1>3 DEF ComingUp, Enter, StartAdmin, CheckConfigTopics, CountInputs,
       CreateChangelog, DescribeChangelog, StartConsumer, StartConfigConsumer, CountTokens,
       EnsureChangelog, StartMembershipConsumer, Goto, TypeOK
  <2> QED BY <1>2, <1>3, <2>1, ComesUpClosing
<1>4. ASSUME NEW h \in Handle, GoingDown(h) PROVE unclean'[g] \/ ClosesAhead(g)'
  <2>1. g # h => pc'[g] = pc[g] /\ open'[g] = open[g] /\ unclean'[g] = unclean[g]
    BY <1>4 DEF GoingDown, CloseAdmin, StopClient, WipeInnerStore, Goto, TypeOK
  <2> QED BY <1>2, <1>4, <2>1, GoesDownClosing
<1>5. CASE \/ \E h \in Handle : Fails(h)
           \/ \E i \in Process : Abort(i) \/ Interrupt(i)
  <2>1. \E hs : Raise(hs)
    BY <1>5 DEF Fails, Abort, Interrupt
  <2> QED BY <2>1, RaiseClosing
<1>6. ASSUME NEW i \in Process, ProcessEnds(i) \/ Kill(i) PROVE unclean'[g] \/ ClosesAhead(g)'
  <2>1. Renew(i)
    BY <1>6 DEF ProcessEnds, Kill
  <2>2. CASE g[1] = i
    BY <2>1, <2>2 DEF Renew, ClosesAhead
  <2>3. CASE g[1] # i
    BY <1>2, <2>1, <2>3 DEF Renew
  <2> QED BY <2>2, <2>3
<1>7. CASE \/ UNCHANGED vars
           \/ (\E s \in Stage : MetadataSpreads(s)) \/ (\E t \in Topic : Grow(t))
  <2>1. UNCHANGED handleVars
    BY <1>7 DEF vars, MetadataSpreads, Grow
  <2> QED BY <1>2, <2>1 DEF handleVars
<1> QED BY <1>3, <1>4, <1>5, <1>6, <1>7 DEF Next, Run

-----------------------------------------------------------------------------
(* The theorems *)

\* The inductive invariant holds in every reachable state: seats, changelogs and
\* clients of the handles (Flechtwerk.__aenter__ and __aexit__, metrics.py).
THEOREM Invariance == Spec => []IInv
<1>1. Init => IInv
  BY InitIInv
<1>2. IInv /\ [Next]_vars => IInv'
  BY TypeStep, SeatsStep, ChangelogStep, ClosedStep DEF IInv
<1> QED BY <1>1, <1>2, PTL DEF Spec

\* Type correctness of the container.
THEOREM TypeCorrect == Spec => []TypeOK
<1>1. IInv => TypeOK
  BY DEF IInv
<1> QED BY <1>1, Invariance, PTL

\* The scrape endpoint serves exactly as long as somebody holds a seat, and every
\* stage that is up does, whatever fails, is cancelled, or comes and goes.
THEOREM EndpointAlive == Spec => []EndpointServes
<1>1. IInv => EndpointServes
  <2> SUFFICES ASSUME IInv PROVE EndpointServes
    OBVIOUS
  <2>1. \A i \in Process : exporter[i].serving <=> exporter[i].holders # {}
    BY DEF IInv, SeatsHeld, ServesHolders
  <2>2. \A i \in Process : \A h \in HandlesOf(i) : Up(h) => Set(h).labels \in exporter[i].holders
    BY DEF IInv, SeatsHeld, Seated, HandlesOf
  <2> QED BY <2>1, <2>2 DEF EndpointServes
<1> QED BY <1>1, Invariance, PTL

\* Stages of one process that are up at the same time have series of their own, one
\* set of families and one keyring.
THEOREM CoHostedStagesAgree == Spec => []CoHostedAgree
<1>1. IInv => CoHostedAgree
  BY DEF IInv, SeatsHeld, Seated, CoHostedAgree
<1> QED BY <1>1, Invariance, PTL

\* A transformer that runs has a changelog with a partition for each of its tasks.
THEOREM ChangelogFits == Spec => []ChangelogMatches
<1>1. IInv => ChangelogMatches
  BY DEF IInv, ChangelogInPlace, InPlace, PastChangelog, ChangelogMatches
<1> QED BY <1>1, Invariance, PTL

\* A handle that is gone has no client open, unless closing one raised.
THEOREM NoClientLeft == Spec => []LeavesNoClientOpen
<1>1. IInv => LeavesNoClientOpen
  <2> SUFFICES ASSUME IInv, NEW h \in Handle, pc[h] = "gone", ~unclean[h] PROVE open[h] = {}
    BY DEF LeavesNoClientOpen
  <2>1. open[h] \subseteq Client
    BY DEF IInv, TypeOK, Client
  <2>2. ClosesAhead(h)
    BY DEF IInv, ClosedAhead
  <2> QED BY <2>1, <2>2 DEF Client, ClosesAhead, AdminAhead, ConsumerAhead, ConfigAhead, MembershipAhead
<1> QED BY <1>1, Invariance, PTL
====

---- MODULE ConsumerGroup ----
(***************************************************************************)
(* The consumer group a runner's consumer is a member of, external to the  *)
(* repository and modelled from how transformer.py uses it: Kafka's group  *)
(* coordinator and, per instance, aiokafka's background coordinator, which *)
(* speaks the EAGER protocol - the revoke callback completes before the    *)
(* member rejoins, and every join attempt is preceded by one.              *)
(*                                                                         *)
(* A member may be evicted while its process lives (session timeout,       *)
(* max.poll.interval.ms - flechtwerk/module.py names "a mid-batch group    *)
(* eviction"): it keeps its assignment until it notices, a zombie.         *)
(***************************************************************************)
EXTENDS Runners, Naturals, FiniteSets

CONSTANT MaxEvictions           \* bound: evictions of members that are alive

ASSUME GroupAssumption == MaxEvictions \in Nat

VARIABLES members,      \* instances the coordinator counts as members
          joined,       \* members that have (re)joined the pending rebalance
          rebalancing,  \* whether a rebalance is being prepared
          owner,        \* [Partition -> Instance], assignment of the last one
          listener,     \* [Instance -> client-side rebalance phase]
          evictions     \* evictions so far

groupVars == <<members, joined, rebalancing, owner, listener, evictions>>

ListenerPhase == {"off", "idle", "revoking", "joining"}

GroupTypeOK ==
    /\ joined \subseteq members
    /\ members \subseteq Instance
    /\ rebalancing \in BOOLEAN
    /\ owner \in [Partition -> Instance \cup {None}]
    /\ listener \in [Instance -> ListenerPhase]
    /\ evictions \in 0..MaxEvictions

GroupInit ==
    /\ members = {}
    /\ joined = {}
    /\ rebalancing = FALSE
    /\ owner = [p \in Partition |-> None]
    /\ listener = [i \in Instance |-> "off"]
    /\ evictions = 0

OwnedBy(i) == {p \in Partition : owner[p] = i}

\* The coordinator drops i; the members left have to rebalance.
RemoveMember(i) ==
    /\ i \in members
    /\ members' = members \ {i}
    /\ joined' = joined \ {i}
    /\ rebalancing' = (members' # {})
    /\ UNCHANGED owner

\* A dead process stops heartbeating and its session expires.
SessionExpires(i) ==
    /\ listener[i] = "off"
    /\ RemoveMember(i)
    /\ UNCHANGED <<listener, evictions>>

\* A live member is dropped; it does not know yet.
Evict(i) ==
    /\ evictions < MaxEvictions
    /\ listener[i] # "off"
    /\ RemoveMember(i)
    /\ evictions' = evictions + 1
    /\ UNCHANGED listener

\* consumer.subscribe(): the client side starts its first join attempt.
Subscribe(i) ==
    /\ listener[i] = "off"
    /\ listener' = [listener EXCEPT ![i] = "revoking"]
    /\ UNCHANGED <<members, joined, rebalancing, owner, evictions>>

\* A heartbeat or SyncGroup answer tells i that it must rejoin.
NoticeRebalance(i) ==
    /\ listener[i] \in {"idle", "joining"}
    /\ i \notin members \/ (rebalancing /\ i \notin joined)
    /\ listener' = [listener EXCEPT ![i] = "revoking"]
    /\ UNCHANGED <<members, joined, rebalancing, owner, evictions>>

\* The revoke callback returned: JoinGroup, which (re)starts a rebalance.
JoinGroup(i) ==
    /\ listener[i] = "revoking"
    /\ listener' = [listener EXCEPT ![i] = "joining"]
    /\ members' = members \cup {i}
    /\ joined' = joined \cup {i}
    /\ rebalancing' = TRUE
    /\ UNCHANGED <<owner, evictions>>

\* All members joined: a new assignment.  Which one is the assignor's choice.
CompleteRebalance ==
    /\ rebalancing
    /\ joined = members
    /\ owner' \in [Partition -> members]
    /\ rebalancing' = FALSE
    /\ joined' = {}
    /\ UNCHANGED <<members, listener, evictions>>

\* i receives the assignment of the rebalance it joined.
TakeAssignment(i) ==
    /\ listener[i] = "joining"
    /\ i \in members \ joined
    /\ listener' = [listener EXCEPT ![i] = "idle"]
    /\ UNCHANGED <<members, joined, rebalancing, owner, evictions>>

\* The process is gone; the coordinator does not know yet.
Disconnect(i) ==
    /\ listener' = [listener EXCEPT ![i] = "off"]
    /\ UNCHANGED <<members, joined, rebalancing, owner, evictions>>
====

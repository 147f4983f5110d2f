---- MODULE TopicLog ----
(***************************************************************************)
(* The partitions of the config topics, external to the repository and     *)
(* modelled from how it reads them.  Anybody writes records; a stage that  *)
(* maintains a config topic writes them in its transaction, and a consumer *)
(* with isolation_level="read_committed" is served up to the last stable   *)
(* offset only.  Aborted records and the markers that end transactions     *)
(* take up offsets, but no consumer is ever handed one.                    *)
(***************************************************************************)
EXTENDS Wire, Naturals, Sequences

CONSTANTS Partition,    \* the partitions of all config topics
          Home,         \* [Key \cup Undecodable -> partitions its records are written to]
          Writes,       \* the records writers write
          Hole,         \* an offset without a record
          MaxRecords    \* bound: records written

ASSUME TopicLogAssumption ==
    /\ Home \in [Key \cup Undecodable -> SUBSET Partition]
    /\ Writes \subseteq Record
    /\ Hole \notin Record
    /\ MaxRecords \in Nat

VARIABLES log,          \* per partition, what is at each offset
          stable,       \* per partition, the offsets below the last stable one
          written       \* records written so far

logVars == <<log, stable, written>>

LogInit ==
    /\ log = [p \in Partition |-> <<>>]
    /\ stable = [p \in Partition |-> 0]
    /\ written = 0

InTransaction(p) == stable[p] < Len(log[p])

\* A record is appended: visible at once, or held back by an open transaction.
Produce(p, r) ==
    /\ written < MaxRecords
    /\ p \in Home[r.key]
    /\ written' = written + 1
    /\ log' = [log EXCEPT ![p] = Append(@, r)]
    /\ stable' = [stable EXCEPT ![p] = IF InTransaction(p) THEN @ ELSE @ + 1]

\* ... or it begins one itself: what a stage writes is a Message, which encodes.
ProduceInTransaction(p, r) ==
    /\ r.key \in Key /\ r.value \in Value \cup {Null}
    /\ written < MaxRecords
    /\ p \in Home[r.key]
    /\ ~InTransaction(p)
    /\ written' = written + 1
    /\ log' = [log EXCEPT ![p] = Append(@, r)]
    /\ UNCHANGED stable

\* The transaction ends: its record stays or goes, its marker takes an offset.
EndTransaction(p, committed) ==
    /\ InTransaction(p)
    /\ log' = [log EXCEPT ![p] =
          Append(IF committed THEN @ ELSE [@ EXCEPT ![stable[p] + 1] = Hole], Hole)]
    /\ stable' = [stable EXCEPT ![p] = Len(log[p]) + 1]
    /\ UNCHANGED written
====

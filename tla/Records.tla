---- MODULE Records ----
(***************************************************************************)
(* The data of one input partition, reduced to what exactly-once is about. *)
(* A partition is the sequence of records 1 .. NumRecords; consumer offset *)
(* n means that records 1 .. n are behind it.  The user's transform folds  *)
(* each record into a state that counts the records folded so far, and     *)
(* emits one output message naming the record and the state it was folded  *)
(* onto.  A lost, duplicated or reordered record, a stale state and a      *)
(* state restored from an aborted transaction all show in that message.    *)
(***************************************************************************)
EXTENDS Naturals, Sequences

CONSTANT NumRecords     \* records in each input partition

ASSUME RecordsAssumption == NumRecords \in Nat

Offset == 0..NumRecords
Message == [record : Nat, seen : Nat]

\* The outputs of folding records from+1 .. to, starting from state seen.
Emit(from, to, seen) ==
    [k \in 1..(to - from) |-> [record |-> from + k, seen |-> seen + k - 1]]

\* Every record up to n has at least one output in log.
Covers(log, n) ==
    \A r \in 1..n : \E k \in 1..Len(log) : log[k].record = r
====

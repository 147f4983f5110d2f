---- MODULE Delivery ----
(***************************************************************************)
(* What a transformer promises downstream, without instances, rebalances,  *)
(* producers or crashes: per input partition, batches of consecutive       *)
(* records are processed, and a batch's outputs, its state and its offset  *)
(* become visible in ONE step (docs/concepts/exactly-once.md, "What One    *)
(* Transaction Spans").                                                    *)
(*                                                                         *)
(* Replay says how a batch may start.  FALSE: exactly where the committed  *)
(* offset stands - exactly-once.  TRUE: anywhere that leaves no gap, so a  *)
(* record may be folded again - at-least-once, but still on the latest     *)
(* committed state, and still atomically.                                  *)
(***************************************************************************)
EXTENDS Records

CONSTANTS Partition,    \* input partition numbers
          Replay        \* whether a batch may start behind the committed offset

VARIABLES committed,    \* [Partition -> Offset], the group's offset
          changelog,    \* [Partition -> Nat], the folded state, as restored
          output        \* [Partition -> Seq of messages], as read downstream

vars == <<committed, changelog, output>>

Init ==
    /\ committed = [p \in Partition |-> 0]
    /\ changelog = [p \in Partition |-> 0]
    /\ output = [p \in Partition |-> <<>>]

\* One committed transaction: records from+1 .. to of partition p.
Process(p, from, to) ==
    /\ from < to
    /\ IF Replay THEN Covers(output[p], from) ELSE from = committed[p]
    /\ output' = [output EXCEPT ![p] = @ \o Emit(from, to, changelog[p])]
    /\ changelog' = [changelog EXCEPT ![p] = @ + (to - from)]
    /\ committed' = [committed EXCEPT ![p] = to]

Next ==
    \E p \in Partition : \E from, to \in Offset : Process(p, from, to)

Spec == Init /\ [][Next]_vars
====

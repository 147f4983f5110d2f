---- MODULE Extraction ----
(***************************************************************************)
(* What an extractor promises downstream of a re-readable source, without  *)
(* instances, tokens, producers or crashes: pages of consecutive items,    *)
(* each of which becomes visible in ONE step together with the cursor that *)
(* accounts for it, and which starts exactly where the cursor stands       *)
(* (ExtractorRunner: "from cursor to Kafka ... exactly-once").             *)
(***************************************************************************)
EXTENDS Naturals, Sequences

CONSTANTS Config, NumItems

VARIABLES cursor,       \* [Config -> 0..NumItems], as a restore finds it
          output        \* [Config -> items as read downstream]

vars == <<cursor, output>>

Init ==
    /\ cursor = [c \in Config |-> 0]
    /\ output = [c \in Config |-> <<>>]

\* One committed page: the items behind the cursor up to item number to.
Page(c, to) ==
    /\ cursor[c] < to
    /\ output' = [output EXCEPT ![c] =
                     @ \o [n \in 1..(to - cursor[c]) |-> cursor[c] + n]]
    /\ cursor' = [cursor EXCEPT ![c] = to]

Next == \E c \in Config : \E to \in 1..NumItems : Page(c, to)

Spec == Init /\ [][Next]_vars
====

---- MODULE Relay ----
(***************************************************************************)
(* What an MQTT stage promises of the messages its broker session holds,   *)
(* without connections, buffers, polls or crashes (docs/guides/mqtt.md):   *)
(* a message leaves the session only once it is in Kafka or was            *)
(* deliberately dropped and counted, and a message that is to be relayed   *)
(* is dropped only when its topic's config may change.                     *)
(***************************************************************************)
EXTENDS Naturals

CONSTANTS Message,      \* what publishers send
          Droppable     \* messages that poison, filter or config may drop

VARIABLES absorbed,     \* messages the session has taken in
          unacked,      \* those it still holds
          output,       \* messages in Kafka, as read downstream
          dropped       \* messages dropped and counted

vars == <<absorbed, unacked, output, dropped>>

Init ==
    /\ absorbed = {}
    /\ unacked = {}
    /\ output = {}
    /\ dropped = {}

Absorb(m) ==
    /\ m \notin absorbed
    /\ absorbed' = absorbed \cup {m}
    /\ unacked' = unacked \cup {m}
    /\ UNCHANGED <<output, dropped>>

\* A batch is committed.  It may hold a message again, after a restart.
Write(batch) ==
    /\ batch \subseteq absorbed
    /\ output' = output \cup batch
    /\ UNCHANGED <<absorbed, unacked, dropped>>

Drop(batch) ==
    /\ batch \subseteq absorbed \cap Droppable
    /\ dropped' = dropped \cup batch
    /\ UNCHANGED <<absorbed, unacked, output>>

Acknowledge(m) ==
    /\ m \in unacked \cap (output \cup dropped)
    /\ unacked' = unacked \ {m}
    /\ UNCHANGED <<absorbed, output, dropped>>

Next ==
    \/ \E m \in Message : Absorb(m) \/ Acknowledge(m)
    \/ \E batch \in SUBSET Message : Write(batch) \/ Drop(batch)

Spec == Init /\ [][Next]_vars
====

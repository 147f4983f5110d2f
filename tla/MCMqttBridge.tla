---- MODULE MCMqttBridge ----
(***************************************************************************)
(* Instances of MqttBridge for TLC: which topic each message is for.       *)
(***************************************************************************)
EXTENDS MqttBridge

CONSTANTS a, b

\* Two messages of the topic that lasts around one of the other.
Interleaved == [m \in Message |-> IF m = 2 THEN b ELSE a]
====

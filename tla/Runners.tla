---- MODULE Runners ----
(***************************************************************************)
(* A stage is run by several processes with one application_id, which      *)
(* divide its work among them by partition number.  Every module about     *)
(* them - the consumer group, the transactions, a changelog - shares these *)
(* names.                                                                  *)
(***************************************************************************)

CONSTANTS
    Partition,    \* input partition numbers; an extractor's tokens
    Instance,     \* the processes
    None          \* where no instance holds something

\* "Held by nobody" is told apart from every holder.
ASSUME RunnersAssumption == None \notin Instance
====

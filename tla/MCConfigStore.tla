---- MODULE MCConfigStore ----
(***************************************************************************)
(* Instances of ConfigStore for TLC: what the writers write, where to, and *)
(* what the stage's hooks make of it.                                      *)
(***************************************************************************)
EXTENDS ConfigStore, TLC

CONSTANTS k1, k2, v1, v2, odd, junk, fatal, p1, p2

\* odd is substituted, junk skipped, fatal raised - in a value and in a key.
MCPolicy == (odd :> v2) @@ (junk :> Skip) @@ (fatal :> Raise)

\* Enriching twice is not enriching once.
MCEnrich == (v1 :> v2) @@ (v2 :> v1)

MCWeight == (k1 :> 1) @@ (k2 :> 2) @@ (v1 :> 3) @@ (v2 :> 5)

\* k2 keeps to a partition, as a keyed producer does it; Kafka UI writes k1 where
\* it is told to.
MCHome == (k1 :> {p1, p2}) @@ (k2 :> {p2}) @@ (odd :> {p2}) @@ (junk :> {p2}) @@ (fatal :> {p2})

\* Every kind of record, under a key where it can meet another kind.
MCWrites ==
    [key : {k1}, value : {v1, Null}]
    \cup [key : {k2}, value : {odd, junk, fatal, Empty}]
    \cup [key : {fatal}, value : {v1}]
====

---- MODULE MCExtractor ----
(***************************************************************************)
(* Instances of Extractor for TLC.  The layouts say how configs share      *)
(* state keys, state keys tokens, and state keys changelog partitions.     *)
(***************************************************************************)
EXTENDS Extractor

CONSTANTS c1, c2, k1, k2, t1, t2

OneKeyEach == (c1 :> k1) @@ (c2 :> k2)
OneKey == [c \in Config |-> k1]
OneTokenEach == (k1 :> t1) @@ (k2 :> t2)
OneToken == [k \in StateKey |-> t1]

\* The changelog has a partition for each token, or a single one.
LogPerToken == TokenOf
OneLog == [k \in StateKey |-> t1]

Symmetry == Permutations(Instance)
====

---- MODULE MCTransformer ----
(***************************************************************************)
(* Instances of Transformer for TLC.  Instances are interchangeable.       *)
(***************************************************************************)
EXTENDS Transformer, TLC

Symmetry == Permutations(Instance)
====

---- MODULE MCContainer ----
(***************************************************************************)
(* An instance of Container for TLC: a pod that hosts the two hops of a    *)
(* pipeline, a second one with a replica of the transformer, and the       *)
(* settings a team may give them.                                          *)
(***************************************************************************)
EXTENDS Container, TLC

CONSTANTS i1, i2, pull, hop, a, b

\* One pod with both hops; two replicas of the second one.
Pod == (i1 :> {pull, hop}) @@ (i2 :> {})
Replicas == (i1 :> {hop}) @@ (i2 :> {hop})

Sharded == [kind |-> "sharded", inputs |-> {}, configs |-> {a}, pollInterval |-> 1,
            tls |-> "authenticating", family |-> "names", labels |-> pull, keyring |-> "ring"]

Transforming == [Sharded EXCEPT !.kind = "transformer", !.inputs = {a, b}, !.configs = {},
                                !.pollInterval = None, !.labels = hop]

Deploy(hosted, p, t) == [hosted |-> hosted, settings |-> (pull :> p) @@ (hop :> t)]

\* Settings that agree, and then one way at a time to get them wrong.
MCDeployments ==
    {Deploy(Replicas, Sharded, Transforming),
     Deploy(Pod, [Sharded EXCEPT !.configs = {a, b}],
                 [Transforming EXCEPT !.inputs = {a}, !.configs = {b}]),
     Deploy(Pod, [Sharded EXCEPT !.kind = "dispatched", !.labels = hop], Transforming),
     Deploy(Pod, [Sharded EXCEPT !.kind = "dispatched", !.pollInterval = 0], Transforming),
     Deploy(Pod, [Sharded EXCEPT !.family = "other names"], Transforming),
     Deploy(Pod, [Sharded EXCEPT !.keyring = "other ring"], Transforming),
     Deploy(Pod, [Sharded EXCEPT !.keyring = None], [Transforming EXCEPT !.tls = "open"])}
====

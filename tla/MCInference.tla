---------------------------- MODULE MCInference ----------------------------
(* A finite instance of Inference: one account with one API key; a slow route  *)
(* with two credentials before a fast one that shares the second.              *)
EXTENDS Inference

CONSTANTS alice, k1, c1, c2

OneOwner == [k \in ApiKeys |-> alice]
Limits == [k \in ApiKeys |-> NoLimit]
OptIns == [k \in ApiKeys |-> FALSE]
Balances == [u \in Users |-> 3]
Pools == <<{c1, c2}, {c2}>>
Timeouts == <<2, 1>>
=============================================================================

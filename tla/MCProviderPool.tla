-------------------------- MODULE MCProviderPool --------------------------
(* Finite instances of ProviderPool. *)
EXTENDS ProviderPool

CONSTANTS p1, p2

One == [c \in Credentials |-> 1]
Weights == [c \in Credentials |-> IF c = p1 THEN 2 ELSE 1]
=============================================================================

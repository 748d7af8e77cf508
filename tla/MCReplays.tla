---------------------------- MODULE MCReplays ----------------------------
(* Finite instances of Replays: three attempts under one idempotency key of *)
(* one API key with replays.                                                *)
EXTENDS Replays, TLC

CONSTANTS alice, k1

OneOwner == [k \in ApiKeys |-> alice]
Limits == [k \in ApiKeys |-> NoLimit]
OptIns == [k \in ApiKeys |-> TRUE]
Balances == [u \in Users |-> 3]
Interchangeable == Permutations(Attempts)
=============================================================================

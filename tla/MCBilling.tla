----------------------------- MODULE MCBilling -----------------------------
(* A finite instance of Billing: the first key has a spend limit and replays,  *)
(* the second neither; the sweeps are alike.                                   *)
EXTENDS Billing, TLC

CONSTANTS alice, k1, k2, m1, m2

OneOwner == [k \in ApiKeys |-> alice]
Limits == [k \in ApiKeys |-> IF k = k1 THEN 4 ELSE NoLimit]
OptIns == [k \in ApiKeys |-> k = k1]
Balances == [u \in Users |-> 6]
Same == Permutations(Maintainers)
=============================================================================

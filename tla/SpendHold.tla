----------------------------- MODULE SpendHold -----------------------------
(***************************************************************************)
(* What the billing store promises its users, without tables, ledger or    *)
(* sweeps: points are held before a request runs, and every hold is ended  *)
(* once, by charging at most what was held or by giving all of it back.    *)
(* A hold is granted only out of the wallet of the account and within the  *)
(* budget of the API key.                                                  *)
(***************************************************************************)
EXTENDS Integers

CONSTANTS Users, ApiKeys, OwnerOf, SpendLimit, NoLimit, InitialBalance, HoldIds

VARIABLES
    wallet,     \* [Users -> Nat]: points free to spend
    committed,  \* [ApiKeys -> Nat]: points held or charged through the key
    hold        \* [HoldIds -> Hold]

vars == <<wallet, committed, hold>>

Hold == [state : {"none", "held", "charged", "released"}, key : ApiKeys,
         amount : Nat, charged : Nat]

Init ==
    /\ wallet = InitialBalance
    /\ committed = [k \in ApiKeys |-> 0]
    /\ hold \in [HoldIds -> Hold]
    /\ \A h \in HoldIds : hold[h].state = "none"

Authorize(h, k, amount) ==
    /\ hold[h].state = "none"
    /\ amount <= wallet[OwnerOf[k]]
    /\ SpendLimit[k] # NoLimit => committed[k] + amount <= SpendLimit[k]
    /\ wallet' = [wallet EXCEPT ![OwnerOf[k]] = @ - amount]
    /\ committed' = [committed EXCEPT ![k] = @ + amount]
    /\ hold' = [hold EXCEPT ![h] = [state |-> "held", key |-> k, amount |-> amount, charged |-> 0]]

\* Ends hold h, keeping c points of it.
End(h, outcome, c) ==
    /\ hold[h].state = "held"
    /\ c \in 0..hold[h].amount
    /\ LET k    == hold[h].key
           back == hold[h].amount - c
       IN  /\ wallet' = [wallet EXCEPT ![OwnerOf[k]] = @ + back]
           /\ committed' = [committed EXCEPT ![k] = @ - back]
    /\ hold' = [hold EXCEPT ![h] = [state |-> outcome, key |-> hold[h].key,
                                    amount |-> hold[h].amount, charged |-> c]]

Charge(h) == \E c \in 0..hold[h].amount : End(h, "charged", c)

Release(h) == End(h, "released", 0)

Next ==
    \E h \in HoldIds :
        \/ \E k \in ApiKeys : \E amount \in 0..wallet[OwnerOf[k]] : Authorize(h, k, amount)
        \/ Charge(h)
        \/ Release(h)

Spec == Init /\ [][Next]_vars
=============================================================================

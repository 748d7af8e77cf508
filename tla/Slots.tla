------------------------------- MODULE Slots -------------------------------
(***************************************************************************)
(* What a limit on requests in flight promises: an owner (an API key, a    *)
(* provider credential) has so many slots, a claim takes a free one, and   *)
(* slots are given back one at a time or, when leases run out, several at  *)
(* once.  A claim that gave its slot back does not get one again.          *)
(***************************************************************************)
EXTENDS Integers, FiniteSets

CONSTANTS Owners, Claims, Capacity

VARIABLES
    holders,    \* [Owners -> SUBSET Claims]
    spent       \* claims that get no slot any more

vars == <<holders, spent>>

Init ==
    /\ holders = [o \in Owners |-> {}]
    /\ spent = {}

Take(o, c) ==
    /\ c \notin spent
    /\ \A p \in Owners : c \notin holders[p]
    /\ Cardinality(holders[o]) < Capacity[o]
    /\ holders' = [holders EXCEPT ![o] = @ \cup {c}]
    /\ UNCHANGED spent

Give(C) ==
    /\ holders' = [o \in Owners |-> holders[o] \ C]
    /\ spent' = spent \cup C

Next ==
    \/ \E o \in Owners, c \in Claims : Take(o, c)
    \/ \E C \in SUBSET Claims : Give(C)

Spec == Init /\ [][Next]_vars
=============================================================================

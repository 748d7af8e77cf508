---------------------------- MODULE MCAdmission ----------------------------
(* A finite instance of Admission. *)
EXTENDS Admission

CONSTANTS c1, c2, c3

OneListing == [c \in Calls |-> IF c = c3 THEN "models" ELSE "chat"]
One == [k \in ApiKeys |-> 1]
Two == [k \in ApiKeys |-> 2]
=============================================================================

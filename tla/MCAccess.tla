----------------------------- MODULE MCAccess -----------------------------
(* A finite instance of Access: the operator and a visitor.                *)
EXTENDS Access, TLC

CONSTANTS operator, visitor

Interchangeable == Permutations(Handlers)
=============================================================================

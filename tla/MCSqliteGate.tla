---------------------------- MODULE MCSqliteGate ----------------------------
(* Three requests on one connection. *)
EXTENDS SqliteGate
=============================================================================

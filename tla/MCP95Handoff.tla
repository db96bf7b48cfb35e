---------------------------- MODULE MCP95Handoff ----------------------------
(***************************************************************************)
(* An instance of P95Handoff: every batch has the same key, which the      *)
(* server may reject.                                                      *)
(***************************************************************************)
EXTENDS P95Handoff

MCKeyOf == [t \in Tasks |-> "K"]

\* A worker with both settings on, and one with both off.
MCSettings == {[keepAid |-> b, recoverLost |-> b] : b \in BOOLEAN}
=============================================================================

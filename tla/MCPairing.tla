----------------------------- MODULE MCPairing -----------------------------
(* The instance of Pairing for TLC.                                         *)
EXTENDS Pairing
=============================================================================

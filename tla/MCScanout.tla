----------------------------- MODULE MCScanout -----------------------------
(* Instances of Scanout for TLC: two formats, each with a plane of its own. *)
EXTENDS Scanout, TLC

CONSTANTS main8, main10, primary, extra

MCSupports == (primary :> {main8}) @@ (extra :> {main8, main10})
=============================================================================

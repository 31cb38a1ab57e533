---------------------------- MODULE MCDirectMode ----------------------------
(* Instances of DirectMode for TLC.                                         *)
EXTENDS DirectMode, TLC

SlotSymmetry == Permutations(Slots)
=============================================================================

---------------------------- MODULE MCReceiverAuth ----------------------------
(* Instances of ReceiverAuth for TLC.                                         *)
EXTENDS ReceiverAuth, TLC
=============================================================================

--------------------------- MODULE MCReceiverLink ---------------------------
(* The instance of ReceiverLink for TLC.                                    *)
EXTENDS ReceiverLink
=============================================================================

-------------------------- MODULE MCDriverThreads --------------------------
(* Instances of DriverThreads for TLC.                                      *)
EXTENDS DriverThreads, TLC

\* The lookups and the sender share nothing but the result of a poll.
NameOrSound == {setting \in [named : BOOLEAN, sound : BOOLEAN] :
                  setting.named # setting.sound}
=============================================================================

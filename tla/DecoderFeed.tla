---------------------------- MODULE DecoderFeed ----------------------------
(***************************************************************************)
(* What the video pipe promises the HEVC decoder, whatever the network     *)
(* does: lib/svrt.c feeds it one access unit at a time, and every unit is  *)
(* either a keyframe or the direct successor of the unit fed before it in  *)
(* the same session; units of two sessions never meet in the decoder       *)
(* without avcodec_flush_buffers between them.                             *)
(***************************************************************************)
EXTENDS Integers

CONSTANTS
  Sessions,   \* session identifiers a sender may choose; never 0
  IdMod,      \* number of frame identifiers: 2^32 in the code
  NoPacket    \* no access unit

VARIABLES
  ref,   \* the access unit the decoder consumed last, NoPacket when it is empty
  held   \* sessions whose access units the decoder has seen since a flush

feedVars == <<ref, held>>

Ids == 0 .. IdMod - 1
Packet == [session : Sessions, id : Ids, key : BOOLEAN]

\* p is the access unit the encoder produced right after q.
Follows(p, q) ==
  /\ q # NoPacket
  /\ p.session = q.session
  /\ p.id = (q.id + 1) % IdMod

Init == ref = NoPacket /\ held = {}

Feed(p, flush) ==
  /\ p.key \/ (Follows(p, ref) /\ ~flush)
  /\ flush \/ held \subseteq {p.session}
  /\ ref' = p
  /\ held' = {p.session}

\* The receiver closes the decoder and opens another one.
Reopen == ref' = NoPacket /\ held' = {}

Next ==
  \/ \E p \in Packet, flush \in BOOLEAN : Feed(p, flush)
  \/ Reopen

Spec == Init /\ [][Next]_feedVars
=============================================================================

---------------------------- MODULE VideoStream ----------------------------
(***************************************************************************)
(* The video path end to end: PacketizerThread of the SteamVR driver sends *)
(* one access unit per frame period over UDP to the pipe of the receiver.  *)
(* The sender waits for nobody.  The network may lose, duplicate, delay    *)
(* and reorder anything until it settles, and the encoder or the receiver  *)
(* may restart; once it is reliable every datagram of a frame arrives      *)
(* before the next frame is sent.  The question is what the outage leaves  *)
(* behind.                                                                 *)
(***************************************************************************)
EXTENDS FramePipe

CONSTANTS
  Gop,    \* frames from one keyframe to the next: max(15, fps / 2)
  Outage  \* bound: access units of a stream sent before the network settles

\* The identifiers reach further than an outage and one deadline, and there are more
\* slots than frames in a deadline: 16 against 80 ms, or 8 frames.  How long the outage
\* is does not matter to the slots, which it may fill.  Allocation failures are
\* FramePipe's matter.
ASSUME StreamAssumption ==
  /\ Gop \in Nat \ {0} /\ IdMod % Gop = 0
  /\ Outage \in Nat /\ Outage >= 2 /\ Outage + Deadline <= Horizon
  /\ Deadline < Cardinality(Slots)
  /\ ~AllocMayFail

VARIABLES
  stream,     \* the session_id_ StartEncoder drew
  sent,       \* encoded_frame_, modulo IdMod
  flight,     \* the datagrams on their way
  reliable    \* the network has settled for good

senderVars == <<stream, sent>>
streamVars == <<vars, senderVars, flight, reliable>>

StreamInit ==
  /\ Init
  /\ stream = 1
  /\ sent = 0
  /\ flight = {}
  /\ reliable = FALSE

\* Mutant: the sender never sets the keyframe flag.
KeyframeNever(i) == FALSE

\* The encoder is run with -g keyint: the first access unit and every keyint-th
\* after it start a coded video sequence.
Keyframe(i) == i % Gop = 1 % Gop

\* send_frame: every shard of the access unit and its parity, with one session,
\* frame and flags.
Shards(x, i) ==
  {d \in Datagrams : d.session = x /\ d.id = i /\ d.key = Keyframe(i) /\ d.fits}

\* All data of an access unit is in its shards.
ASSUME ShardsAssumption ==
  \A x \in Sessions, i \in Ids, c \in Cells :
    \E d \in Shards(x, i) : c = <<d.group, d.shard>>

SendFrame ==
  /\ sent' = Succ(sent)
  /\ flight' = flight \cup Shards(stream, sent')
  /\ UNCHANGED stream

\* A frame period of the outage, with or without an access unit.  The packetizer waits
\* for nobody: any number of its frames may be lost, or late by the whole outage.
PeriodInOutage ==
  /\ ~reliable
  /\ Tick
  /\ \/ sent < Outage /\ SendFrame
     \/ UNCHANGED <<senderVars, flight>>
  /\ UNCHANGED reliable

\* A frame period once the network is reliable: the receiver has kept up.
Period ==
  /\ reliable /\ flight = {} /\ pc = "poll"
  /\ Tick
  /\ SendFrame
  /\ UNCHANGED reliable

\* During the outage a datagram may come again, and one that is lost is one that has not
\* come when the network settles.
Receive(d) ==
  /\ d \in flight
  /\ Accept(d)
  /\ flight' = IF reliable THEN flight \ {d} ELSE flight
  /\ UNCHANGED <<senderVars, reliable>>

\* The receiver's thread between two datagrams.
Receiver ==
  /\ PollIdle \/ ReadyStep \/ Decode
  /\ UNCHANGED <<senderVars, flight, reliable>>

ReceiverRestarts ==
  /\ ~reliable
  /\ Reopen
  /\ UNCHANGED <<senderVars, flight, reliable>>

\* CloseEncoder, then StartEncoder: a new random session, frames from 1 again.
\* The identifiers are taken in ascending order, so that none is drawn twice.
EncoderRestarts ==
  /\ ~reliable
  /\ stream' \in Sessions /\ stream' > stream
  /\ sent' = 0
  /\ UNCHANGED <<vars, flight, reliable>>

Settle ==
  /\ ~reliable
  /\ reliable' = TRUE
  /\ flight' = {}
  /\ UNCHANGED <<vars, senderVars>>

StreamNext ==
  \/ PeriodInOutage
  \/ Period
  \/ \E d \in Datagrams : Receive(d)
  \/ Receiver
  \/ ReceiverRestarts
  \/ EncoderRestarts
  \/ Settle

\* The receiver's loop runs, the encoder keeps encoding, and a reliable network
\* delivers.  Whether the outage ends is not assumed.
StreamSpec ==
  /\ StreamInit /\ [][StreamNext]_streamVars
  /\ WF_streamVars(Receiver)
  /\ SF_streamVars(Period)
  /\ SF_streamVars(\E d \in flight : reliable /\ Receive(d))
----------------------------------------------------------------------------
\* How many frames the one the pipe expects is behind the next one to be sent.
Behind == (Succ(sent) - next) % IdMod

\* Loss costs pictures, not delay: whatever the outage left in the slots, the pipe never
\* waits for a frame further back than what the outage delayed and one deadline.
\* Frames are given up all at once, the wait of a frame of which nothing came is
\* timed too, and the next wait begins at the live edge (pipe.c:193-209).
NearLive == session = stream /\ next # NoId => Behind <= Outage + Deadline

\* What is in flight is near enough to the expected frame for the signed comparison of
\* newer (pipe.c:63) to mean what it says, also after a stall and for the frames
\* of an encoder that is gone.  FramePipe takes this from the network; here the
\* sender keeps it.
HorizonKept == \A d \in flight : InHorizon(d)

\* Neither falls out of the other's reach.
StaysInReach == NearLive /\ HorizonKept

\* After any outage the decoder is fed again, for ever: neither a full set of
\* slots, nor a stale session, nor the wait for a keyframe stops the stream for
\* good (pipe.c:193-212).
StreamResumes == reliable ~> pc = "decode"

\* And in the end no access unit is given up any more: the backlog of the outage
\* does not breed new gaps once the network is good (pipe.c:195-200).
GapsEnd == reliable ~> []~needKey

\* The network is reliable and the pipe has given out all that was sent.
CaughtUp ==
  /\ reliable /\ session = stream /\ next = Succ(sent) /\ ~needKey
  /\ flight \subseteq Shards(stream, sent)

\* The safety half of GapsEnd: a pipe that has caught up with a reliable network never
\* gives an access unit up again; what is left of the outage does not stop it, and it
\* needs no keyframe any more (pipe.c:75,193-209).
NoNewGaps == [](CaughtUp => []~needKey)
=============================================================================

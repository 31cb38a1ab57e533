----------------------------- MODULE FramePipe -----------------------------
(***************************************************************************)
(* The receiving end of the video stream: pipe/pipe.c reassembles frames   *)
(* from UDP datagrams and lib/svrt.c feeds the complete ones to the HEVC   *)
(* decoder.  One thread runs both: svrt_run calls svrt_pipe_read, which    *)
(* polls the socket, accepts one datagram (accept_datagram), looks for a   *)
(* frame that may leave (ready_frame) and returns it.                      *)
(*                                                                         *)
(* The network is the environment: any member of Datagrams may arrive at   *)
(* any poll, so datagrams are lost, duplicated, reordered and delayed      *)
(* across sessions without restraint.  Payload bytes are abstracted to the *)
(* set of shards present; time to ages that saturate at the deadline, the  *)
(* only bound any timestamp is compared with.                              *)
(***************************************************************************)
EXTENDS Integers, FiniteSets

CONSTANTS
  Slots,         \* frame buffers: FRAME_SLOTS of them
  Sessions,      \* session identifiers a sender may choose; never 0
  IdMod,         \* number of frame identifiers: 2^32 in the code
  Horizon,       \* farthest a datagram in flight is from the expected frame:
                 \* below 2^31 - 1, nine months of video at 90 frames a second
  Shape,         \* Shape[g]: data shards of FEC group g of a frame
  Deadline,      \* FRAME_DEADLINE_US, counted in ticks
  Datagrams,     \* the well-formed datagrams the network may deliver
  AllocMayFail,  \* whether calloc and malloc may fail
  NoFrame,       \* an empty slot
  NoPacket       \* no access unit

Ids == 0 .. IdMod - 1
NoId == -1       \* have_next = 0, have_newest = 0
NoSession == 0
Parities == {0, 1}
Groups == DOMAIN Shape
GroupCells(g) == {g} \X (0 .. Shape[g] - 1)
Cells == UNION {GroupCells(g) : g \in Groups}
Packet == [session : Sessions, id : Ids, key : BOOLEAN]

\* shard < Shape[group] is a data shard, the two above it are parity; fits is
\* FALSE when size, timestamp, group or shard count contradict the frame.
Datagram == [session : Sessions, id : Ids, key : BOOLEAN, group : Groups,
             shard : Nat, fits : BOOLEAN]

Frame == [session : Sessions, id : Ids, key : BOOLEAN, present : SUBSET Cells,
          received : Nat, parity : SUBSET (Groups \X Parities),
          age : 0 .. Deadline]

ASSUME PipeAssumption ==
  /\ IsFiniteSet(Slots) /\ Slots # {}
  /\ Sessions \subseteq Nat \ {NoSession}
  /\ IdMod \in Nat \ {0}
  /\ Horizon \in Nat /\ 2 * (Horizon + 1) < IdMod
  /\ IsFiniteSet(Groups) /\ Groups # {} /\ Shape \in [Groups -> Nat \ {0}]
  /\ Deadline \in Nat \ {0}
  /\ Datagrams \subseteq Datagram
  /\ \A d \in Datagrams : d.shard < Shape[d.group] + 2
  /\ AllocMayFail \in BOOLEAN
  /\ NoFrame \notin Frame
  /\ NoPacket \notin Packet

VARIABLES
  pc,             \* where the video thread is: "poll", "ready" or "decode"
  session,        \* session_id
  frames,         \* the frame slots
  next,           \* next_frame, NoId while have_next is 0
  newest,         \* newest_frame, NoId while have_newest is 0
  nextWait,       \* ticks since next_wait_us
  needKey,        \* need_keyframe
  discontinuity,
  decoderReset,   \* decoder_reset
  out,            \* the access unit svrt_pipe_read returned
  ref,            \* the access unit the decoder consumed last
  held            \* sessions the decoder has seen since its last flush

slotVars == <<session, frames, next, newest, nextWait>>
flagVars == <<needKey, discontinuity, decoderReset>>
decoderVars == <<ref, held>>
vars == <<pc, slotVars, flagVars, out, decoderVars>>

----------------------------------------------------------------------------
\* Mutant: a counter wider than the identifiers on the wire.
SuccUnwrapped(i) == i + 1

Succ(i) == (i + 1) % IdMod

\* newer(a, b): the sign of the difference as a signed 32-bit integer.
Newer(a, b) == (a - b) % IdMod \in 1 .. ((IdMod - 1) \div 2)

Aged(t) == IF t < Deadline THEN t + 1 ELSE t

Complete(f) == f.received = Cardinality(Cells)

Init ==
  /\ pc = "poll"
  /\ session = NoSession
  /\ frames = [s \in Slots |-> NoFrame]
  /\ next = NoId /\ newest = NoId /\ nextWait = 0
  /\ needKey = FALSE /\ discontinuity = FALSE /\ decoderReset = FALSE
  /\ out = NoPacket
  /\ ref = NoPacket /\ held = {}

----------------------------------------------------------------------------
(* accept_datagram.  The operators below are the pipe's fields as they are  *)
(* after the session check, which a datagram of another session passes by   *)
(* emptying the pipe.                                                       *)

Switches(d) == session # NoSession /\ session # d.session

LiveFrames(d) == IF Switches(d) THEN [s \in Slots |-> NoFrame] ELSE frames
LiveNext(d)   == IF Switches(d) THEN NoId ELSE next
LiveNewest(d) == IF Switches(d) THEN NoId ELSE newest

\* The sender numbers its frames one by one: nothing in flight is further than
\* Horizon frames from the expected one, in either direction.
InHorizon(d) ==
  LiveNext(d) # NoId =>
    \/ (d.id - LiveNext(d)) % IdMod <= Horizon
    \/ (LiveNext(d) - d.id) % IdMod <= Horizon

Late(d) == LiveNext(d) # NoId /\ Newer(LiveNext(d), d.id)

\* Mutant: a change of session is treated like the first session, no flush.
EnterSessionUnflushed(d) ==
  /\ session' = d.session
  /\ needKey' = (needKey \/ session # d.session)
  /\ discontinuity' = (discontinuity \/ session # d.session)
  /\ decoderReset' = decoderReset
  /\ next' = IF LiveNext(d) = NoId THEN d.id ELSE next
  /\ nextWait' = IF LiveNext(d) = NoId THEN 0 ELSE nextWait

EnterSession(d) ==
  /\ session' = d.session
  /\ needKey' = (needKey \/ session # d.session)
  /\ discontinuity' = (discontinuity \/ session # d.session)
  /\ decoderReset' = (decoderReset \/ Switches(d))
  /\ next' = IF LiveNext(d) = NoId THEN d.id ELSE next
  /\ nextWait' = IF LiveNext(d) = NoId THEN 0 ELSE nextWait

Holders(d) ==
  {s \in Slots : /\ LiveFrames(d)[s] # NoFrame
                 /\ LiveFrames(d)[s].session = d.session
                 /\ LiveFrames(d)[s].id = d.id}
FreeSlots(d) == {s \in Slots : LiveFrames(d)[s] = NoFrame}

Fresh(d) == [session |-> d.session, id |-> d.id, key |-> d.key, present |-> {},
             received |-> 0, parity |-> {}, age |-> 0]

\* find_frame: the slot that holds the frame, else a free one it now holds.
FrameAt(s, d) ==
  IF LiveFrames(d)[s] = NoFrame THEN Fresh(d) ELSE LiveFrames(d)[s]

\* Mutant: the search for a free slot comes first.
SlotForFreeFirst(d) == IF FreeSlots(d) # {} THEN FreeSlots(d) ELSE Holders(d)

SlotFor(d) == IF Holders(d) # {} THEN Holders(d) ELSE FreeSlots(d)

IsData(d) == d.shard < Shape[d.group]

WithData(f, c) ==
  IF c \in f.present THEN f
  ELSE [f EXCEPT !.present = @ \cup {c}, !.received = @ + 1]

Missing(f, g) == GroupCells(g) \ f.present

\* stearlight_fec_recover: XOR parity P0 alone rebuilds one data shard, P0 and
\* P1 together two; P1 alone rebuilds nothing.
Recoverable(f, g) ==
  /\ <<g, 0>> \in f.parity
  /\ \/ Cardinality(Missing(f, g)) <= 1
     \/ Cardinality(Missing(f, g)) = 2 /\ <<g, 1>> \in f.parity

RecoverGroup(f, g) ==
  IF Recoverable(f, g)
  THEN [f EXCEPT !.present = @ \cup Missing(f, g),
                 !.received = @ + Cardinality(Missing(f, g))]
  ELSE f

WithParity(f, g, p) == RecoverGroup([f EXCEPT !.parity = @ \cup {<<g, p>>}], g)

Filled(f, d) ==
  IF IsData(d) THEN WithData(f, <<d.group, d.shard>>)
  ELSE WithParity(f, d.group, d.shard - Shape[d.group])

\* The datagram belongs to a frame that has left or was given up.
DropLate(d) ==
  /\ Late(d)
  /\ UNCHANGED <<frames, newest>>

\* Every slot holds another frame, or a buffer cannot be allocated.
DropNoSlot(d) ==
  /\ ~Late(d)
  /\ Holders(d) = {}
  /\ FreeSlots(d) = {} \/ AllocMayFail
  /\ frames' = LiveFrames(d)
  /\ newest' = LiveNewest(d)

\* The slot is taken, then the shard is refused: the frame stays without it.
DropUnfit(d) ==
  /\ ~Late(d)
  /\ ~d.fits \/ (AllocMayFail /\ ~IsData(d))
  /\ \E s \in SlotFor(d) :
       frames' = [LiveFrames(d) EXCEPT ![s] = FrameAt(s, d)]
  /\ newest' = LiveNewest(d)

NewestWith(d) ==
  IF LiveNewest(d) = NoId \/ Newer(d.id, LiveNewest(d))
  THEN d.id ELSE LiveNewest(d)

StoreShard(d) ==
  /\ ~Late(d)
  /\ d.fits
  /\ \E s \in SlotFor(d) :
       frames' = [LiveFrames(d) EXCEPT ![s] = Filled(FrameAt(s, d), d)]
  /\ newest' = NewestWith(d)

Accept(d) ==
  /\ pc = "poll"
  /\ InHorizon(d)
  /\ EnterSession(d)
  /\ DropLate(d) \/ DropNoSlot(d) \/ DropUnfit(d) \/ StoreShard(d)
  /\ pc' = "ready"
  /\ UNCHANGED <<out, decoderVars>>

\* poll times out, or the datagram has no valid header.
PollIdle ==
  /\ pc = "poll"
  /\ pc' = "ready"
  /\ UNCHANGED <<slotVars, flagVars, out, decoderVars>>

----------------------------------------------------------------------------
(* ready_frame, one action for each branch of its loop.                     *)

Expected == {s \in Slots : frames[s] # NoFrame /\ frames[s].id = next}
ReadySlots == {s \in Expected : Complete(frames[s])}

\* Mutant: the wait for a frame of which nothing arrived is not timed.
StallOfFrame == IF Expected = {} THEN 0
                ELSE frames[CHOOSE s \in Expected : TRUE].age

\* How long the expected frame has been holding the stream up.
Stall == IF Expected = {} THEN nextWait
         ELSE frames[CHOOSE s \in Expected : TRUE].age

Overdue ==
  /\ newest # NoId /\ next # NoId
  /\ Newer(newest, next)
  /\ Stall >= Deadline

\* A complete frame that refers to frames the decoder never got.
DropUndecodable(s) ==
  /\ pc = "ready"
  /\ s \in ReadySlots
  /\ needKey /\ ~frames[s].key
  /\ frames' = [frames EXCEPT ![s] = NoFrame]
  /\ next' = Succ(next)
  /\ nextWait' = 0
  /\ UNCHANGED <<pc, session, newest, flagVars, out, decoderVars>>

\* svrt_pipe_read copies the frame out and frees its slot.
Deliver(s) ==
  /\ pc = "ready"
  /\ s \in ReadySlots
  /\ ~needKey \/ frames[s].key
  /\ out' = [session |-> frames[s].session, id |-> frames[s].id,
             key |-> frames[s].key]
  /\ frames' = [frames EXCEPT ![s] = NoFrame]
  /\ needKey' = FALSE
  /\ next' = Succ(next)
  /\ nextWait' = 0
  /\ pc' = "decode"
  /\ UNCHANGED <<session, newest, discontinuity, decoderReset, decoderVars>>

\* Mutant: only the slot of the expected frame is freed.
SkippedFramesOne ==
  [s \in Slots |-> IF s \in Expected THEN NoFrame ELSE frames[s]]

\* The frames that remain when everything older than the newest is given up.
SkippedFrames ==
  [s \in Slots |-> IF frames[s] # NoFrame /\ Newer(newest, frames[s].id)
                   THEN NoFrame ELSE frames[s]]

\* Where reassembly resumes: at the live edge, however long the stale run.
ResumeAt == newest

\* Mutants: the gap is announced without waiting for a keyframe, or the
\* reverse.
AnnounceOnly == needKey' = needKey /\ discontinuity' = TRUE
GateOnly == needKey' = TRUE /\ discontinuity' = discontinuity

BreakContinuity == needKey' = TRUE /\ discontinuity' = TRUE

\* The expected frame missed its deadline: give up everything older than the
\* newest frame and wait for a keyframe.
SkipToNewest ==
  /\ pc = "ready"
  /\ ReadySlots = {}
  /\ Overdue
  /\ frames' = SkippedFrames
  /\ next' = ResumeAt
  /\ nextWait' = 0
  /\ BreakContinuity
  /\ UNCHANGED <<pc, session, newest, decoderReset, out, decoderVars>>

NothingReady ==
  /\ pc = "ready"
  /\ ReadySlots = {}
  /\ ~Overdue
  /\ pc' = "poll"
  /\ UNCHANGED <<slotVars, flagVars, out, decoderVars>>

----------------------------------------------------------------------------
(* svrt_run between two calls of svrt_pipe_read.                            *)

Decode ==
  /\ pc = "decode"
  /\ held' = (IF decoderReset THEN {} ELSE held) \cup {out.session}
  /\ ref' = out
  /\ decoderReset' = FALSE
  /\ discontinuity' = (decoderReset /\ discontinuity)
  /\ out' = NoPacket
  /\ pc' = "poll"
  /\ UNCHANGED <<slotVars, needKey>>

\* The stream stops (interrupt, or an error of the socket, of av_new_packet or
\* of the decoder) and pi-receiver/main.c opens a new context.
Reopen ==
  /\ pc \in {"poll", "decode"}
  /\ pc' = "poll"
  /\ session' = NoSession
  /\ frames' = [s \in Slots |-> NoFrame]
  /\ next' = NoId /\ newest' = NoId /\ nextWait' = 0
  /\ needKey' = FALSE /\ discontinuity' = FALSE /\ decoderReset' = FALSE
  /\ out' = NoPacket
  /\ ref' = NoPacket /\ held' = {}

\* Time passes while the thread waits for the socket or for the decoder; the
\* clock is read once per iteration, so ages stand still inside ready_frame.
Tick ==
  /\ pc \in {"poll", "decode"}
  /\ frames' = [s \in Slots |->
                  IF frames[s] = NoFrame THEN NoFrame
                  ELSE [frames[s] EXCEPT !.age = Aged(@)]]
  /\ nextWait' = Aged(nextWait)
  /\ UNCHANGED <<pc, session, next, newest, flagVars, out, decoderVars>>

ReadyStep ==
  \/ \E s \in Slots : DropUndecodable(s) \/ Deliver(s)
  \/ SkipToNewest
  \/ NothingReady

Next ==
  \/ \E d \in Datagrams : Accept(d)
  \/ PollIdle
  \/ ReadyStep
  \/ Decode
  \/ Reopen
  \/ Tick

Spec == Init /\ [][Next]_vars

\* poll returns after at most 20 ms, the loop of ready_frame and the decoder
\* run to completion, and the clock advances whatever the thread does (strong
\* fairness, because the model lets it advance at two points of the loop only).
\* Nothing is assumed of the network.
FairSpec ==
  /\ Spec
  /\ WF_vars(PollIdle)
  /\ WF_vars(ReadyStep)
  /\ WF_vars(Decode)
  /\ SF_vars(Tick)
----------------------------------------------------------------------------
(* Properties.                                                              *)

\* Types; identifiers are 32-bit numbers that wrap, also the expected one after an
\* increment (pipe.c:188-190).
TypeOK ==
  /\ pc \in {"poll", "ready", "decode"}
  /\ session \in Sessions \cup {NoSession}
  /\ frames \in [Slots -> Frame \cup {NoFrame}]
  /\ next \in Ids \cup {NoId}
  /\ newest \in Ids \cup {NoId}
  /\ nextWait \in 0 .. Deadline
  /\ needKey \in BOOLEAN /\ discontinuity \in BOOLEAN /\ decoderReset \in BOOLEAN
  /\ out \in (IF pc = "decode" THEN Packet ELSE {NoPacket})
  /\ ref \in Packet \cup {NoPacket}
  /\ held \in SUBSET Sessions

Occupied == {s \in Slots : frames[s] # NoFrame}

Follows(p, q) ==
  /\ q # NoPacket
  /\ p.session = q.session
  /\ p.id = Succ(q.id)

\* Whatever is lost, duplicated or reordered, an access unit that is not a
\* keyframe reaches the decoder only right after its predecessor, with no flush
\* in between: need_keyframe, next_frame and decoder_reset agree (pipe.c:186-192).
ChainUnbroken ==
  pc = "decode" => out.key \/ (Follows(out, ref) /\ ~decoderReset)

\* The decoder never holds access units of two sessions, even when datagrams of
\* two sessions interleave: every change of session is followed by a flush before
\* the next access unit (pipe.c:120-127, svrt.c:219).
SessionsNeverMix ==
  /\ Cardinality(held) <= 1
  /\ pc = "decode" => held \subseteq {out.session} \/ decoderReset

\* A frame handed over after a gap is announced as a discontinuity: no path
\* breaks continuity and forgets to raise the flag (pipe.c:125,130,209).
GapAnnounced ==
  pc = "decode" /\ ref # NoPacket /\ ~Follows(out, ref) => discontinuity

\* Why the properties above hold: the strengthening their proofs rest on.
\* While the decoder may be fed without a keyframe, next_frame is the successor of
\* the unit it consumed last and no flush is due (pipe.c:120-131,186-192,205-209).
ContinuityInv ==
  /\ session = NoSession => pc # "decode" /\ next = NoId /\ held = {} /\ ~decoderReset
  /\ \A s \in Slots : frames[s] # NoFrame => frames[s].session = session
  /\ pc # "decode" /\ decoderReset => needKey
  /\ pc # "decode" /\ needKey => discontinuity
  /\ pc # "decode" /\ session # NoSession /\ ~needKey =>
       ref # NoPacket /\ ref.session = session /\ next = Succ(ref.id)
  /\ pc = "decode" => out.session = session /\ next = Succ(out.id) /\ ~needKey
  /\ decoderReset \/ held \subseteq {session}
  /\ \A x, y \in held : x = y

\* What the slots hold: at most one of them reassembles a frame, all are of the
\* current session, and the counter that decides completeness counts the shards
\* that are there, once each, through duplicates and recovery racing the late
\* original (pipe.c:111,134-149,160).
SlotsAccounted ==
  /\ \A s \in Occupied : frames[s].session = session
  /\ \A s, t \in Occupied : frames[s].id = frames[t].id => s = t
  /\ \A s \in Occupied : frames[s].received = Cardinality(frames[s].present)

\* No slot keeps a frame older than the one expected: nothing would ever free it
\* and sixteen such leaks would stop the stream (pipe.c:139-141,203-206).
NoLeakedSlot ==
  \A s \in Occupied : next # NoId /\ ~Newer(next, frames[s].id)

\* When the slots are exhausted, none of them is the expected frame's and any
\* holds a shard, the deadline is armed: newest_frame is ahead.
ExhaustionResolves ==
  Occupied = Slots /\ pc = "poll" /\ Expected = {}
      /\ (\E s \in Slots : frames[s].present # {} \/ frames[s].parity # {}) =>
    newest # NoId /\ Newer(newest, next)

\* A slot comes free again, whichever frames are lost.
SlotsComeFree == NoLeakedSlot /\ ExhaustionResolves

\* A lost frame holds the stream up for a bounded time only: once a newer frame
\* has been seen, next_frame moves on or the session ends.
StallEnds ==
  \A n \in Ids, x \in Sessions :
    (session = x /\ next = n /\ newest # NoId /\ Newer(newest, n))
      ~> (session # x \/ next # n)

\* The wait for one frame starts over at most once, when the first shard of it comes: no
\* other datagram postpones its deadline, so that a stall that StallEnds ends lasts for
\* two deadlines at most (pipe.c:195-200).
WaitStartsOverOnce ==
  [][session' = session /\ next' = next /\ next # NoId =>
       /\ Expected # {} => Expected' # {}
       /\ Stall' >= Stall \/ (Expected = {} /\ Expected' # {})]_vars

\* The pipe and its consumer implement the decoder's contract.
Feed ==
  INSTANCE DecoderFeed WITH
    Sessions <- Sessions, IdMod <- IdMod, NoPacket <- NoPacket, ref <- ref, held <- held
FeedsDecoder == Feed!Spec
=============================================================================

------------------------- MODULE VideoStreamProofs -------------------------
(***************************************************************************)
(* Proofs about the video path end to end: sender, network and pipe        *)
(* composed are a behaviour of the pipe alone, so everything proved of     *)
(* FramePipe holds of the composition; and the composition keeps what the  *)
(* pipe alone had to assume of its network.  Frames are counted from the   *)
(* one the pipe expects, up to the first one its sender has not sent yet.  *)
(***************************************************************************)
EXTENDS VideoStream, FramePipeProofs

\* The frame the encoder numbers next: Behind is how far it is ahead of next_frame.
Edge == Succ(sent)

\* Slots fr, expected frame n and newest frame w are short of frame e.
Led(fr, n, w, e) ==
  /\ w # NoId => Off(w, n) < Off(e, n) \/ Off(w, n) = IdMod - 1
  /\ \A s \in Slots : fr[s] # NoFrame => Off(fr[s].id, n) < Off(e, n)

\* Everything of session x is short of frame e, what is in flight by an outage at most;
\* and so is next_frame, once the encoder of x is gone.
LedBy(x, e) ==
  /\ \A d \in flight : d.session = x => Off(e, d.id) \in 1 .. Outage
  /\ session = x /\ next # NoId =>
       /\ Led(frames, next, newest, e)
       /\ x # stream => Off(e, next) <= Outage

LedInv == LedBy(stream, Edge) /\ \A x \in Sessions : \E e \in Ids : LedBy(x, e)

SentInv ==
  /\ stream \in Nat \ {0} /\ sent \in Ids /\ reliable \in BOOLEAN
  /\ flight \subseteq Datagrams /\ \A d \in flight : d.session <= stream
  /\ session <= stream

\* The access unit sent last.
New == Shards(stream, sent)

\* During the outage the sender has sent an outage at most, and nobody is further behind
\* than the start of the stream; after it only the access unit sent last is in flight.
OutageInv ==
  /\ reliable => flight \subseteq New
  /\ ~reliable =>
       /\ sent <= Outage
       /\ \A d \in flight : d.session = stream => Off(Edge, d.id) <= sent
       /\ session = stream /\ next # NoId => Off(Edge, next) <= sent

\* No slot is taken for nothing.
ShardsInv ==
  /\ \A d \in flight : d.fits
  /\ \A s \in Slots : frames[s] # NoFrame => Data(frames[s])

\* The newest frame is so far ahead that the next skip ends within an outage of the edge.
Ahead == newest # NoId /\ Off(newest, next) \in Deadline .. Behind - 1

\* All shards of the access unit sent last are on their way.
Unread == flight = New /\ (Behind <= Outage + 1 \/ Succ(newest) = sent \/ Ahead)

\* A shard of it has come, and found a slot or all of them taken.
Read == newest = sent \/ Ahead

\* The pipe is further behind than the outage may leave it only after it is over,
\* and not for longer than the expected frame has been waited for: when the next
\* access unit is sent, that of the last period has been read and the deadline, had
\* it passed, would have been acted upon.  If the slots are full, their frames are more
\* than those of a deadline, and the newest of them is where the skip will end.
LagInv ==
  session = stream /\ next # NoId /\ Behind > Outage =>
    /\ reliable /\ pc # "decode" /\ (Unread \/ Read)
    /\ ReadySlots # {} => Behind = Outage + 1 /\ (Unread \/ pc = "ready")
    /\ ReadySlots = {} =>
         Behind <= Outage + Stall /\ (pc = "poll" => Unread \/ Stall < Deadline)

StreamInv == SlotsInv /\ SentInv /\ LedInv /\ OutageInv /\ ShardsInv /\ LagInv

----------------------------------------------------------------------------
(* The composition is a pipe.                                               *)

LEMMA StepOfPipe == [StreamNext]_streamVars => [Next]_vars
<1> SUFFICES ASSUME [StreamNext]_streamVars PROVE Next \/ UNCHANGED vars
  OBVIOUS
<1>1. CASE PeriodInOutage \/ Period
  BY <1>1 DEF PeriodInOutage, Period, Next
<1>2. ASSUME NEW d \in Datagrams, Receive(d)
      PROVE  Next \/ UNCHANGED vars
  BY <1>2 DEF Receive, Next
<1>3. CASE Receiver
  BY <1>3 DEF Receiver, Next
<1>4. CASE ReceiverRestarts
  BY <1>4 DEF ReceiverRestarts, Next
<1>5. CASE EncoderRestarts \/ Settle
  BY <1>5 DEF EncoderRestarts, Settle
<1>6. CASE UNCHANGED streamVars
  BY <1>6 DEF streamVars
<1> QED
  BY <1>1, <1>2, <1>3, <1>4, <1>5, <1>6 DEF StreamNext

\* Sender, network and receiver together are a pipe: every step is one of FramePipe or
\* leaves it alone, so what is proved of the pipe holds of the video path.
THEOREM StreamIsAPipe == StreamSpec => Spec
<1>1. StreamInit => Init
  BY DEF StreamInit
<1> QED
  BY <1>1, StepOfPipe, PTL DEF StreamSpec, Spec

\* So the decoder's contract holds at the end of the video path.
THEOREM StreamFeedsTheDecoder == StreamSpec => FeedsDecoder
BY StreamIsAPipe, FeedsTheDecoder, PTL

----------------------------------------------------------------------------
(* Identifiers.                                                             *)

LEMMA StreamNumbers ==
  /\ IdMod \in Nat \ {0} /\ Half \in Nat /\ 2 * Half < IdMod
  /\ Outage \in Nat /\ Outage >= 2 /\ Deadline \in Nat \ {0} /\ Horizon \in Nat
  /\ Outage + Deadline <= Horizon /\ Horizon + 1 <= Half
BY Numbers, StreamAssumption, DeadlinePositive DEF StreamAssumption

\* One frame later it is one step further from every frame but its successor.
LEMMA OffAfter ==
  ASSUME NEW i \in Ids, NEW n \in Ids
  PROVE  Off(Succ(i), n) = IF Off(i, n) = IdMod - 1 THEN 0 ELSE Off(i, n) + 1
<1>1. n \in Nat /\ n < IdMod /\ i \in Nat /\ i < IdMod /\ IdMod \in Nat
  BY Numbers
<1>2. Off(i, n) = IF n <= i THEN i - n ELSE i - n + IdMod
  BY OffValue
<1>3. CASE i + 1 = IdMod
  <2>1. Succ(i) = 0 /\ Succ(i) \in Ids
    BY <1>3, SuccValue
  <2>2. Off(Succ(i), n) = IF n <= 0 THEN 0 - n ELSE 0 - n + IdMod
    BY <2>1, OffValue
  <2> QED
    BY <1>1, <1>2, <1>3, <2>2
<1>4. CASE i + 1 # IdMod
  <2>1. Succ(i) = i + 1 /\ Succ(i) \in Ids
    BY <1>4, SuccValue
  <2>2. Off(Succ(i), n) = IF n <= Succ(i) THEN Succ(i) - n ELSE Succ(i) - n + IdMod
    BY <2>1, OffValue
  <2> QED
    BY <1>1, <1>2, <1>4, <2>1, <2>2
<1> QED
  BY <1>3, <1>4

\* Distances tell frames apart.
LEMMA OffInjective ==
  ASSUME NEW i \in Ids, NEW j \in Ids, NEW n \in Ids, Off(i, n) = Off(j, n)
  PROVE  i = j
<1>1. Off(i, j) = 0
  BY OffFrom, OffRange
<1> QED
  BY <1>1, OffRange

LEMMA Flown ==
  ASSUME SentInv, NEW d \in flight
  PROVE  d \in Datagrams /\ d.id \in Ids /\ d.session \in Sessions /\ d.session <= stream
BY PipeAssumption DEF SentInv, PipeAssumption, Datagram

\* How far one frame is ahead of another, both seen from a frame e ahead of them.
LEMMA OffBelow ==
  ASSUME NEW e \in Ids, NEW i \in Ids, NEW n \in Ids
  PROVE  Off(i, n) = IF Off(e, i) <= Off(e, n) THEN Off(e, n) - Off(e, i)
                     ELSE Off(e, n) - Off(e, i) + IdMod
BY OffValue, Numbers

\* What a datagram in flight is about is not late, or far behind: if it is not late it
\* is ahead of the expected frame, and short of e.
LEMMA NotLateAhead ==
  ASSUME NEW e \in Ids, NEW n \in Ids, NEW i \in Ids,
         Off(e, i) \in 1 .. Outage, ~Newer(n, i)
  PROVE  Off(i, n) < Off(e, n)
<1>1. Off(e, n) \in Nat /\ Off(e, n) < IdMod
  BY OffRange
<1>2. Off(n, i) = IF Off(e, n) <= Off(e, i) THEN Off(e, i) - Off(e, n)
                  ELSE Off(e, i) - Off(e, n) + IdMod
  BY OffBelow
<1>3. ~(1 <= Off(n, i) /\ Off(n, i) <= Half)
  BY NewerOff
<1>4. Off(e, i) <= Off(e, n)
  BY <1>1, <1>2, <1>3, StreamNumbers
<1> QED
  BY <1>1, <1>4, OffBelow, StreamNumbers

----------------------------------------------------------------------------
(* What the pipe does leaves everything short of the edge.                  *)

\* Slots and identifiers as they are.
LEMMA SameLed ==
  ASSUME NEW x, NEW e, LedBy(x, e),
         UNCHANGED <<session, next, newest, stream>>, flight' \subseteq flight,
         \A s \in Slots : frames'[s] # NoFrame =>
                            frames[s] # NoFrame /\ frames'[s].id = frames[s].id
  PROVE  LedBy(x, e)'
BY DEF LedBy, Led

LEMMA ReceiveLed ==
  ASSUME SlotsInv, SentInv, NEW x \in Nat \ {0}, NEW e \in Ids, LedBy(x, e),
         NEW d \in flight, Accept(d), flight' \subseteq flight, stream' = stream
  PROVE  LedBy(x, e)'
<1> DEFINE L == LiveFrames(d)  w == LiveNewest(d)
<1> SUFFICES ASSUME d.session = x
             PROVE  /\ Led(frames', next', newest', e)
                    /\ x # stream => Off(e, next') <= Outage
  BY DEF LedBy, Accept, EnterSession
<1>1. d \in Datagrams /\ d.id \in Ids /\ Off(e, d.id) \in 1 .. Outage
  BY Flown DEF LedBy
<1>2. /\ L \in [Slots -> Frame \cup {NoFrame}] /\ w \in Ids \cup {NoId}
      /\ LiveNext(d) \in Ids \cup {NoId} /\ Window(L, LiveNext(d), w)
  BY <1>1, LiveSlots
<1>3. /\ next' \in Ids
      /\ Off(d.id, next') < Off(e, next') \/ Late(d)
      /\ w # NoId => Off(w, next') < Off(e, next') \/ Off(w, next') = IdMod - 1
      /\ \A s \in Slots : L[s] # NoFrame => Off(L[s].id, next') < Off(e, next')
      /\ x # stream => Off(e, next') <= Outage
  <2>1. CASE LiveNext(d) = NoId
    <3>1. next' = d.id /\ Off(d.id, d.id) = 0
      BY <1>1, <2>1, OffRange DEF Accept, EnterSession
    <3>2. w = NoId /\ \A s \in Slots : L[s] = NoFrame
      BY <1>2, <2>1 DEF Window
    <3> QED
      BY <1>1, <3>1, <3>2, StreamNumbers
  <2>2. CASE LiveNext(d) # NoId
    <3>1. ~Switches(d) /\ next # NoId /\ next' = next /\ next \in Ids /\ session = x
      BY <1>2, <2>2 DEF Accept, EnterSession, LiveNext, Switches, SlotsInv, ContinuityInv
    <3>2. Led(frames, next, newest, e) /\ (x # stream => Off(e, next) <= Outage)
      BY <3>1 DEF LedBy
    <3>3. L = frames /\ w = newest /\ LiveNext(d) = next
      BY <3>1 DEF LiveFrames, LiveNewest, LiveNext
    <3>4. Off(d.id, next) < Off(e, next) \/ Late(d)
      BY <1>1, <3>1, <3>3, NotLateAhead DEF Late
    <3> QED
      BY <3>1, <3>2, <3>3, <3>4 DEF Led
  <2> QED
    BY <2>1, <2>2
<1>4. ASSUME NEW s \in SlotFor(d)
      PROVE  s \in Slots /\ FrameAt(s, d).id = d.id /\ Filled(FrameAt(s, d), d).id = d.id
  <2>1. s \in Slots /\ (L[s] = NoFrame \/ L[s].id = d.id)
    BY DEF SlotFor, Holders, FreeSlots
  <2>2. FrameAt(s, d) \in Frame /\ FrameAt(s, d).id = d.id
    BY <1>1, <1>2, <2>1, FreshType DEF FrameAt, Fresh
  <2> QED
    BY <2>1, <2>2 DEF Filled, WithData, WithParity, RecoverGroup, Frame
<1>5. CASE DropLate(d)
  <2>1. frames' = L /\ newest' = w
    BY <1>5 DEF DropLate, Late, LiveNext, LiveFrames, LiveNewest
  <2> QED
    BY <1>3, <2>1 DEF Led
<1>6. CASE DropNoSlot(d)
  BY <1>3, <1>6 DEF DropNoSlot, Led
<1>7. CASE DropUnfit(d)
  <2>1. PICK s \in SlotFor(d) : frames' = [L EXCEPT ![s] = FrameAt(s, d)]
    BY <1>7 DEF DropUnfit
  <2>2. newest' = w /\ ~Late(d)
    BY <1>7 DEF DropUnfit
  <2>3. frames'[s].id = d.id /\ \A t \in Slots \ {s} : frames'[t] = L[t]
    <3> HIDE DEF L
    <3> QED
      BY <1>2, <1>4, <2>1
  <2> QED
    BY <1>3, <2>2, <2>3 DEF Led
<1>8. CASE StoreShard(d)
  <2>1. PICK s \in SlotFor(d) : frames' = [L EXCEPT ![s] = Filled(FrameAt(s, d), d)]
    BY <1>8 DEF StoreShard
  <2>2. newest' \in {w, d.id} /\ ~Late(d)
    BY <1>8 DEF StoreShard, NewestWith
  <2>3. frames'[s].id = d.id /\ \A t \in Slots \ {s} : frames'[t] = L[t]
    <3> HIDE DEF L
    <3> QED
      BY <1>2, <1>4, <2>1
  <2> QED
    BY <1>3, <2>2, <2>3 DEF Led
<1> QED
  BY <1>5, <1>6, <1>7, <1>8 DEF Accept
\* A complete frame leaves: what is left moves one frame nearer.
LEMMA LeaveLed ==
  ASSUME SlotsInv, NEW x \in Nat \ {0}, NEW e \in Ids, LedBy(x, e),
         NEW s \in ReadySlots, frames' = [frames EXCEPT ![s] = NoFrame],
         next' = Succ(next), UNCHANGED <<session, newest, stream>>, flight' \subseteq flight
  PROVE  LedBy(x, e)' /\ (session = x => Off(e, next') = Off(e, next) - 1)
<1> SUFFICES ASSUME session = x
             PROVE  /\ Led(frames', next', newest, e)
                    /\ x # stream => Off(e, next') <= Outage
                    /\ Off(e, next') = Off(e, next) - 1
  BY DEF LedBy
<1>1. /\ s \in Slots /\ frames[s] # NoFrame /\ frames[s] \in Frame /\ frames[s].id = next
      /\ Complete(frames[s]) /\ Counted(frames[s])
  BY DEF SlotsInv, TypeOK, Tidy, ReadySlots, Expected
<1>2. next \in Ids /\ next # NoId
  BY <1>1, Numbers DEF Frame
<1>3. newest # NoId /\ newest \in Ids /\ Off(newest, next) <= Horizon
  BY <1>1, CompleteHasData DEF SlotsInv, TypeOK, WindowInv, Window
<1>4. Led(frames, next, newest, e) /\ (x # stream => Off(e, next) <= Outage)
  BY <1>2 DEF LedBy
<1>5. Off(next, next) = 0 /\ Off(e, next) \in Nat
  BY <1>2, OffRange
<1>6. 0 < Off(e, next)
  BY <1>1, <1>4, <1>5 DEF Led
<1>7. Off(e, next') = Off(e, next) - 1
  BY <1>2, <1>5, <1>6, OffSucc
<1>8. Off(newest, next') < Off(e, next') \/ Off(newest, next') = IdMod - 1
  <2>1. Off(newest, next) < Off(e, next) /\ Off(newest, next) \in Nat
    BY <1>2, <1>3, <1>4, OffRange, StreamNumbers DEF Led
  <2> QED
    BY <1>2, <1>3, <1>5, <1>7, <2>1, OffSucc
<1>9. ASSUME NEW t \in Slots, frames'[t] # NoFrame
      PROVE  Off(frames'[t].id, next') < Off(e, next')
  <2>1. t # s /\ frames'[t] = frames[t] /\ frames[t] \in Frame
    BY <1>1, <1>9 DEF SlotsInv, TypeOK
  <2>2. frames[t].id \in Ids /\ frames[t].id # next
    BY <1>1, <1>9, <2>1 DEF SlotsInv, Tidy, Frame
  <2>3. Off(frames[t].id, next) \in Nat /\ Off(frames[t].id, next) < Off(e, next)
    BY <1>2, <1>4, <1>9, <2>1, <2>2, OffRange DEF Led
  <2>4. Off(frames[t].id, next') = Off(frames[t].id, next) - 1
    BY <1>2, <2>2, OffSucc
  <2> QED
    BY <1>5, <1>7, <2>1, <2>3, <2>4
<1> QED
  BY <1>4, <1>5, <1>7, <1>8, <1>9, StreamNumbers DEF Led

\* A run of frames is given up: the newest frame is the expected one now.
LEMMA SkipLed ==
  ASSUME SlotsInv, NEW x \in Nat \ {0}, NEW e \in Ids, LedBy(x, e), SkipToNewest,
         stream' = stream, flight' \subseteq flight
  PROVE  /\ LedBy(x, e)'
         /\ session = x => /\ Off(newest, next) \in Nat \ {0}
                           /\ Off(e, next') = Off(e, next) - Off(newest, next)
<1> SUFFICES ASSUME session = x
             PROVE  /\ Led(frames', next', newest', e)
                    /\ x # stream => Off(e, next') <= Outage
                    /\ Off(newest, next) \in Nat \ {0}
                    /\ Off(e, next') = Off(e, next) - Off(newest, next)
  BY DEF LedBy, SkipToNewest
<1>1. /\ newest \in Ids /\ next \in Ids /\ next # NoId /\ Newer(newest, next)
      /\ frames' = SkippedFrames /\ next' = newest /\ newest' = newest
  BY DEF SkipToNewest, Overdue, ResumeAt, SlotsInv, TypeOK
<1>2. /\ Off(newest, next) \in Nat \ {0} /\ Off(newest, next) <= Half
      /\ Off(e, next) \in Nat /\ Off(newest, newest) = 0
  BY <1>1, NewerOff, OffRange
<1>3. Led(frames, next, newest, e) /\ (x # stream => Off(e, next) <= Outage)
  BY <1>1 DEF LedBy
<1>4. Off(newest, next) < Off(e, next)
  BY <1>1, <1>2, <1>3, StreamNumbers, Numbers DEF Led
<1>5. Off(e, newest) = Off(e, next) - Off(newest, next)
  BY <1>1, <1>2, <1>4, OffFrom
<1>6. ASSUME NEW t \in Slots, frames'[t] # NoFrame
      PROVE  Off(frames'[t].id, newest) < Off(e, newest)
  <2> DEFINE i == frames[t].id
  <2>1. frames'[t] = frames[t] /\ frames[t] # NoFrame /\ ~Newer(newest, i)
    BY <1>1, <1>6 DEF SkippedFrames
  <2>2. i \in Ids /\ Off(i, next) \in Nat /\ Off(i, next) < Off(e, next)
    BY <1>1, <1>3, <2>1, OffRange DEF SlotsInv, TypeOK, Frame, Led
  <2>3. ~(1 <= Off(newest, i) /\ Off(newest, i) <= Half)
    BY <1>1, <2>1, <2>2, NewerOff
  <2>4. Off(newest, i) = IF Off(i, next) <= Off(newest, next)
                         THEN Off(newest, next) - Off(i, next)
                         ELSE Off(newest, next) - Off(i, next) + IdMod
    BY <1>1, <2>2, OffFrom
  <2>5. Off(newest, next) <= Off(i, next)
    BY <1>2, <2>2, <2>3, <2>4, StreamNumbers
  <2>6. Off(i, newest) = Off(i, next) - Off(newest, next)
    BY <1>1, <2>2, <2>5, OffFrom
  <2> QED
    BY <1>2, <1>5, <2>1, <2>2, <2>6
<1> QED
  BY <1>1, <1>2, <1>3, <1>4, <1>5, <1>6, StreamNumbers DEF Led
\* What the lag comes to.
LEMMA LagBounded ==
  ASSUME StreamInv, session = stream, next # NoId
  PROVE  /\ Behind \in Nat /\ Behind = Off(Edge, next) /\ Edge \in Ids /\ next \in Ids
         /\ Behind <= Outage + Deadline
         /\ ~reliable => Behind <= Outage
<1>1. Edge \in Ids /\ next \in Ids
  BY SuccValue DEF Edge, StreamInv, SentInv, SlotsInv, TypeOK
<1>2. Behind = Off(Edge, next) /\ Behind \in Nat
  BY <1>1, OffRange DEF Behind, Edge, Off
<1>3. Stall \in 0 .. Deadline
  BY StallType DEF StreamInv
<1> QED
  BY <1>1, <1>2, <1>3, StreamNumbers DEF StreamInv, LagInv

----------------------------------------------------------------------------
(* What the sender does.                                                    *)

\* One more access unit is sent, of an outage that is not over or when nothing is in flight.
LEMMA SendLed ==
  ASSUME StreamInv, Tick, SendFrame, (~reliable /\ sent < Outage) \/ flight = {}
  PROVE  LedInv'
<1>1. /\ sent' = Edge /\ sent' \in Ids /\ stream' = stream
      /\ stream \in Nat \ {0} /\ sent \in Ids
  BY SuccValue DEF SendFrame, Edge, StreamInv, SentInv
<1> PICK e \in Ids : e = Succ(sent')
  BY <1>1, SuccValue
<1>2. /\ UNCHANGED <<session, next, newest>>
      /\ \A s \in Slots : frames'[s] # NoFrame =>
                            frames[s] # NoFrame /\ frames'[s].id = frames[s].id
  BY TickAges DEF StreamInv
<1>3. \A d \in flight' : d \in flight \/ (d.session = stream /\ d.id = sent')
  BY DEF SendFrame, Shards
<1>4. ASSUME NEW x \in Sessions, x # stream, NEW f \in Ids, LedBy(x, f)
      PROVE  LedBy(x, f)'
  BY <1>1, <1>2, <1>3, <1>4 DEF LedBy, Led
<1>5. ASSUME NEW x, x = stream PROVE LedBy(x, e)'
  <2>1. ASSUME NEW d \in flight', d.session = stream
        PROVE  Off(e, d.id) \in 1 .. Outage
    <3>1. CASE d.id = sent'
      <4>1. Off(sent', sent') = 0
        BY <1>1, OffRange
      <4>2. Off(e, sent') = 1
        BY <1>1, <4>1, OffAfter, StreamNumbers
      <4> QED
        BY <3>1, <4>2, StreamNumbers
    <3>2. CASE d \in flight
      <4>1. d.id \in Ids /\ Off(Edge, d.id) \in 1 .. Outage
        BY <2>1, <3>2, Flown DEF StreamInv, LedInv, LedBy
      <4>2. Off(Edge, d.id) < Outage
        BY <1>1, <2>1, <3>2, <4>1, StreamNumbers DEF StreamInv, OutageInv, Ids
      <4>3. Off(e, d.id) = Off(Edge, d.id) + 1
        BY <1>1, <4>1, <4>2, OffAfter, StreamNumbers
      <4> QED
        BY <4>1, <4>2, <4>3, StreamNumbers
    <3> QED
      BY <1>3, <2>1, <3>1, <3>2
  <2>2. ASSUME session = stream, next # NoId
        PROVE  Led(frames', next, newest, e)
    <3>1. Led(frames, next, newest, Edge)
      BY <2>2 DEF StreamInv, LedInv, LedBy
    <3>2. Off(e, next) = Off(Edge, next) + 1 /\ Off(Edge, next) \in Nat
      BY <1>1, <2>2, LagBounded, OffAfter, StreamNumbers
    <3>3. ASSUME NEW i \in Ids, Off(i, next) < Off(Edge, next)
          PROVE  Off(i, next) < Off(e, next)
      BY <2>2, <3>2, <3>3, LagBounded, OffRange
    <3>4. /\ newest # NoId => newest \in Ids
          /\ \A s \in Slots : frames[s] # NoFrame => frames[s].id \in Ids
      BY DEF StreamInv, SlotsInv, TypeOK, Frame
    <3> QED
      BY <1>2, <3>1, <3>3, <3>4 DEF Led
  <2> QED
    BY <1>1, <1>2, <1>5, <2>1, <2>2 DEF LedBy
<1>6. ASSUME NEW x \in Sessions PROVE \E f \in Ids : LedBy(x, f)'
  <2>1. CASE x = stream
    BY <1>5, <2>1
  <2>2. CASE x # stream
    BY <1>4, <2>2 DEF StreamInv, LedInv
  <2> QED
    BY <2>1, <2>2
<1>7. LedBy(stream, Edge)'
  BY <1>1, <1>5 DEF LedBy, Edge
<1> QED
  BY <1>6, <1>7 DEF LedInv

\* A new session: nothing of it is in flight, and the old one is short of what was the
\* edge.
LEMMA RestartLed ==
  ASSUME StreamInv, EncoderRestarts
  PROVE  LedInv'
<1>1. /\ stream' \in Sessions /\ stream' > stream /\ stream \in Nat \ {0}
      /\ UNCHANGED <<vars, flight>> /\ ~reliable
  BY DEF EncoderRestarts, StreamInv, SentInv
<1>2. UNCHANGED <<session, frames, next, newest>>
  BY <1>1 DEF vars, slotVars
<1>3. ASSUME NEW x, x = stream', NEW e PROVE LedBy(x, e)'
  <2>1. \A d \in flight : d.session # x
    BY <1>1, <1>3, Flown, PipeAssumption DEF StreamInv, PipeAssumption
  <2>2. session # x
    BY <1>1, <1>3, PipeAssumption
    DEF StreamInv, SentInv, SlotsInv, TypeOK, NoSession, PipeAssumption
  <2> QED
    BY <1>1, <1>2, <2>1, <2>2 DEF LedBy
<1>4. ASSUME NEW x \in Sessions PROVE \E e \in Ids : LedBy(x, e)'
  <2>1. CASE x = stream'
    BY <1>3, <2>1, Numbers DEF Ids
  <2>2. CASE x = stream
    <3>1. PICK e \in Ids : e = Edge
      BY SuccValue DEF Edge, StreamInv, SentInv
    <3>2. session = stream /\ next # NoId => Off(e, next) <= Outage
      BY <1>1, <3>1, LagBounded
    <3>3. LedBy(x, e)
      BY <2>2, <3>1 DEF StreamInv, LedInv
    <3>4. LedBy(x, e)'
      BY <1>1, <1>2, <2>2, <3>2, <3>3 DEF LedBy
    <3> QED
      BY <3>4
  <2>3. CASE x # stream' /\ x # stream
    BY <1>1, <1>2, <2>3 DEF LedBy, StreamInv, LedInv
  <2> QED
    BY <2>1, <2>2, <2>3
<1>5. LedBy(stream, Edge)'
  <2>1. PICK e : e = Edge'
    OBVIOUS
  <2> QED
    BY <1>3, <2>1 DEF LedBy
<1> QED
  BY <1>4, <1>5 DEF LedInv
----------------------------------------------------------------------------
(* Every step of the composition.                                           *)

LEMMA NextSent == StreamInv /\ [StreamNext]_streamVars => SentInv'
<1> SUFFICES ASSUME StreamInv, [StreamNext]_streamVars PROVE SentInv'
  OBVIOUS
<1> USE DEF StreamInv, SentInv
<1>1. NoSession = 0 /\ Sessions \subseteq Nat \ {0} /\ session \in Nat /\ IdMod \in Nat \ {0}
  BY PipeAssumption DEF PipeAssumption, NoSession, SlotsInv, TypeOK
<1>2. ASSUME Tick, SendFrame, reliable' = reliable PROVE SentInv'
  BY <1>2, SuccValue DEF SendFrame, Shards, Tick
<1>3. CASE PeriodInOutage
  BY <1>2, <1>3 DEF PeriodInOutage, Tick, senderVars
<1>4. CASE Period
  BY <1>2, <1>4 DEF Period
<1>5. ASSUME NEW d \in Datagrams, Receive(d) PROVE SentInv'
  <2>1. session' = d.session /\ flight' \subseteq flight /\ d \in flight
    BY <1>5 DEF Receive, Accept, EnterSession
  <2> QED
    BY <1>5, <2>1 DEF Receive, senderVars
<1>7. CASE Receiver
  BY <1>7 DEF Receiver, PollIdle, ReadyStep, DropUndecodable, Deliver, SkipToNewest,
              NothingReady, Decode, senderVars, slotVars
<1>8. CASE ReceiverRestarts
  BY <1>1, <1>8 DEF ReceiverRestarts, Reopen, senderVars
<1>9. CASE EncoderRestarts
  <2>1. /\ stream' \in Nat \ {0} /\ stream' > stream /\ sent' = 0 /\ 0 \in Ids
        /\ UNCHANGED <<session, flight, reliable>>
    BY <1>1, <1>9 DEF EncoderRestarts, vars, slotVars, Ids
  <2>2. \A d \in flight : d.session \in Nat /\ d.session <= stream
    BY <1>1, Flown
  <2> QED
    BY <1>1, <2>1, <2>2
<1>10. CASE Settle
  BY <1>10 DEF Settle, senderVars, vars, slotVars
<1>11. CASE UNCHANGED streamVars
  BY <1>11 DEF streamVars, senderVars, vars, slotVars
<1> QED
  BY <1>3, <1>4, <1>5, <1>7, <1>8, <1>9, <1>10, <1>11 DEF StreamNext

\* Nothing is sent: it is enough that each session stays short of what it was short of.
LEMMA KeepLed ==
  ASSUME StreamInv, UNCHANGED senderVars,
         \A x \in Nat \ {0}, e \in Ids : LedBy(x, e) => LedBy(x, e)'
  PROVE  LedInv'
<1>1. stream \in Nat \ {0} /\ Sessions \subseteq Nat \ {0} /\ UNCHANGED <<stream, sent>>
  BY SessionIsPositive DEF StreamInv, SentInv, NoSession, senderVars
<1>2. PICK e \in Ids : e = Edge
  BY SuccValue DEF Edge, StreamInv, SentInv
<1>3. PICK x \in Nat \ {0} : x = stream
  BY <1>1
<1>4. LedBy(x, e)'
  BY <1>2, <1>3 DEF StreamInv, LedInv
<1>5. LedBy(stream, Edge)'
  BY <1>1, <1>2, <1>3, <1>4 DEF LedBy, Edge
<1> QED
  BY <1>1, <1>5 DEF StreamInv, LedInv

LEMMA NextLed == StreamInv /\ [StreamNext]_streamVars => LedInv'
<1> SUFFICES ASSUME StreamInv, [StreamNext]_streamVars PROVE LedInv'
  OBVIOUS
<1>1. SlotsInv /\ SentInv
  BY DEF StreamInv
<1>2. CASE PeriodInOutage
  <2>1. CASE sent < Outage /\ SendFrame
    BY <1>2, <2>1, SendLed DEF PeriodInOutage
  <2>2. CASE UNCHANGED <<senderVars, flight>>
    <3>1. Tick /\ UNCHANGED <<stream, flight>>
      BY <1>2, <2>2 DEF PeriodInOutage, senderVars
    <3>2. \A x \in Nat \ {0}, e \in Ids : LedBy(x, e) => LedBy(x, e)'
      BY <1>1, <3>1, TickAges, SameLed
    <3> QED
      BY <2>2, <3>2, KeepLed
  <2> QED
    BY <1>2, <2>1, <2>2 DEF PeriodInOutage
<1>3. CASE Period
  BY <1>3, SendLed DEF Period
<1>4. ASSUME NEW d \in Datagrams, Receive(d) PROVE LedInv'
  <2>1. d \in flight /\ Accept(d) /\ flight' \subseteq flight /\ UNCHANGED senderVars
    BY <1>4 DEF Receive
  <2>2. \A x \in Nat \ {0}, e \in Ids : LedBy(x, e) => LedBy(x, e)'
    BY <1>1, <2>1, ReceiveLed DEF senderVars
  <2> QED
    BY <2>1, <2>2, KeepLed
<1>5. ASSUME NEW s \in Slots, DropUndecodable(s) \/ Deliver(s),
             UNCHANGED <<senderVars, flight>>
      PROVE  LedInv'
  <2>1. /\ s \in ReadySlots /\ frames' = [frames EXCEPT ![s] = NoFrame]
        /\ next' = Succ(next) /\ UNCHANGED <<session, newest, stream>>
    BY <1>5 DEF DropUndecodable, Deliver, senderVars
  <2>2. \A x \in Nat \ {0}, e \in Ids : LedBy(x, e) => LedBy(x, e)'
    BY <1>1, <1>5, <2>1, LeaveLed
  <2> QED
    BY <1>5, <2>2, KeepLed
<1>6. CASE SkipToNewest /\ UNCHANGED <<senderVars, flight>>
  <2>1. \A x \in Nat \ {0}, e \in Ids : LedBy(x, e) => LedBy(x, e)'
    BY <1>1, <1>6, SkipLed DEF senderVars
  <2> QED
    BY <1>6, <2>1, KeepLed
<1>7. CASE ReceiverRestarts
  <2>1. next' = NoId /\ UNCHANGED <<flight, senderVars>>
    BY <1>7 DEF ReceiverRestarts, Reopen
  <2>2. \A x \in Nat \ {0}, e \in Ids : LedBy(x, e) => LedBy(x, e)'
    BY <2>1 DEF LedBy
  <2> QED
    BY <2>1, <2>2, KeepLed
<1>8. CASE EncoderRestarts
  BY <1>8, RestartLed
<1>9. ASSUME UNCHANGED <<session, frames, next, newest, senderVars>>, flight' \subseteq flight
      PROVE  LedInv'
  <2>1. \A x \in Nat \ {0}, e \in Ids : LedBy(x, e) => LedBy(x, e)'
    BY <1>9, SameLed DEF senderVars
  <2> QED
    BY <1>9, <2>1, KeepLed
<1>10. CASE Receiver
  <2>1. CASE PollIdle \/ NothingReady \/ Decode
    BY <1>9, <1>10, <2>1 DEF Receiver, PollIdle, NothingReady, Decode, slotVars
  <2> QED
    BY <1>5, <1>6, <1>10, <2>1 DEF Receiver, ReadyStep
<1>12. CASE Settle \/ UNCHANGED streamVars
  BY <1>9, <1>12 DEF Settle, streamVars, vars, slotVars
<1> QED
  BY <1>2, <1>3, <1>4, <1>7, <1>8, <1>10, <1>12 DEF StreamNext
----------------------------------------------------------------------------
(* The outage, and what is in the slots.                                    *)

\* One more access unit: what is about frame i, or expects it, is one further behind.
LEMMA SentLater ==
  ASSUME StreamInv, ~reliable, sent < Outage, SendFrame, NEW i \in Ids, Off(Edge, i) <= sent
  PROVE  Off(Edge', i) <= sent' /\ sent' = sent + 1 /\ sent' <= Outage
<1>1. /\ sent \in Ids /\ sent \in Nat /\ Edge \in Ids /\ sent' = Edge
      /\ Off(Edge, i) \in Nat /\ sent + 1 < IdMod
  BY SuccValue, OffRange, StreamNumbers, Numbers DEF StreamInv, SentInv, Edge, SendFrame
<1>2. sent' = sent + 1
  BY <1>1, SuccValue, StreamNumbers DEF Edge
<1>3. Edge' = Succ(Edge)
  BY <1>1 DEF Edge
<1>4. Off(Edge', i) = Off(Edge, i) + 1
  BY <1>1, <1>3, OffAfter, StreamNumbers
<1>5. sent + 1 <= Outage
  BY <1>1, StreamNumbers
<1>6. Off(Edge, i) + 1 <= sent + 1
  BY <1>1
<1> QED
  BY <1>2, <1>4, <1>5, <1>6

LEMMA NextOutage == StreamInv /\ [StreamNext]_streamVars => OutageInv'
<1> SUFFICES ASSUME StreamInv, [StreamNext]_streamVars PROVE OutageInv'
  OBVIOUS
<1>1. CASE PeriodInOutage /\ sent < Outage /\ SendFrame
  <2>1. /\ ~reliable /\ ~reliable' /\ stream' = stream /\ sent' = Edge
        /\ flight' = flight \cup Shards(stream, sent')
        /\ session' = session /\ next' = next
    BY <1>1 DEF PeriodInOutage, SendFrame, Edge, Tick
  <2>2. /\ sent \in Ids /\ sent \in Nat /\ sent' = sent + 1 /\ sent' <= Outage
    <3>1. sent \in Ids /\ sent \in Nat /\ sent + 1 < IdMod
      BY <1>1, Numbers, StreamNumbers DEF StreamInv, SentInv
    <3> QED
      BY <1>1, <2>1, <3>1, SuccValue, StreamNumbers DEF Edge
  <2>3. ASSUME NEW d \in flight', d.session = stream PROVE Off(Edge', d.id) <= sent'
    <3>1. CASE d \in flight
      <4>1. d.id \in Ids /\ Off(Edge, d.id) <= sent
        BY <2>1, <2>3, <3>1, Flown DEF StreamInv, OutageInv
      <4> QED
        BY <1>1, <2>1, <4>1, SentLater
    <3>2. CASE d \notin flight
      <4>1. d.id = sent' /\ sent' \in Ids
        BY <2>1, <2>2, <3>2, SuccValue DEF Shards, Edge
      <4>2. Off(sent', sent') = 0
        BY <4>1, OffRange
      <4>3. Off(Succ(sent'), sent') = 1
        BY <4>1, <4>2, OffAfter, StreamNumbers
      <4> QED
        BY <2>2, <4>1, <4>3 DEF Edge
    <3> QED
      BY <3>1, <3>2
  <2>4. ASSUME session = stream, next # NoId PROVE Off(Edge', next) <= sent'
    <3>1. next \in Ids /\ Off(Edge, next) <= sent
      BY <2>1, <2>4 DEF StreamInv, OutageInv, SlotsInv, TypeOK
    <3> QED
      BY <1>1, <2>1, <3>1, SentLater
  <2> QED
    BY <2>1, <2>2, <2>3, <2>4 DEF OutageInv
<1>2. CASE Period
  BY <1>2 DEF Period, SendFrame, OutageInv, New
<1>3. ASSUME UNCHANGED <<senderVars, reliable>>, flight' \subseteq flight,
             ~reliable /\ session' = stream /\ next' # NoId => Off(Edge, next') <= sent
      PROVE  OutageInv'
  <2>1. UNCHANGED <<stream, sent, reliable, New, Edge>>
    BY <1>3 DEF senderVars, New, Edge
  <2> QED
    BY <1>3, <2>1 DEF OutageInv, StreamInv
<1>4. ASSUME NEW d \in Datagrams, Receive(d) PROVE OutageInv'
  <2>1. d \in flight /\ Accept(d) /\ flight' \subseteq flight
        /\ UNCHANGED <<senderVars, reliable>>
    BY <1>4 DEF Receive
  <2>2. ASSUME ~reliable, session' = stream PROVE Off(Edge, next') <= sent
    <3>1. d.session = stream /\ Off(Edge, d.id) <= sent
      BY <2>1, <2>2 DEF Accept, EnterSession, StreamInv, OutageInv
    <3>2. CASE LiveNext(d) = NoId
      BY <2>1, <3>1, <3>2 DEF Accept, EnterSession
    <3>3. CASE LiveNext(d) # NoId
      <4>1. session = stream /\ next # NoId /\ next' = next
        BY <2>1, <3>1, <3>3
        DEF Accept, EnterSession, LiveNext, Switches, StreamInv, SlotsInv, ContinuityInv
      <4> QED
        BY <2>2, <4>1 DEF StreamInv, OutageInv
    <3> QED
      BY <3>2, <3>3
  <2> QED
    BY <1>3, <2>1, <2>2
<1>5. ASSUME UNCHANGED <<senderVars, reliable, flight, session>>, next # NoId,
             next' \in Ids,
             \A e \in Ids : LedBy(stream, e) /\ session = stream =>
                              Off(e, next') <= Off(e, next)
      PROVE  OutageInv'
  <2>1. ASSUME ~reliable, session = stream PROVE Off(Edge, next') <= sent
    <3>1. /\ Off(Edge, next) <= sent /\ sent \in Nat /\ Edge \in Ids
          /\ Off(Edge, next) \in Nat /\ LedBy(stream, Edge)
      BY <1>5, <2>1, SuccValue, LagBounded, Numbers
      DEF StreamInv, OutageInv, LedInv, SentInv, Edge
    <3>2. PICK e \in Ids : e = Edge
      BY <3>1
    <3>3. LedBy(stream, e) /\ Off(e, next) \in Nat /\ Off(e, next) <= sent
      BY <3>1, <3>2
    <3>4. Off(e, next') <= Off(e, next)
      BY <1>5, <2>1, <3>3
    <3>5. Off(e, next') \in Int
      BY <1>5, <3>2, OffRange
    <3>6. Off(e, next') <= sent
      BY <3>1, <3>3, <3>4, <3>5
    <3> QED
      BY <3>2, <3>6
  <2> QED
    BY <1>3, <1>5, <2>1
<1>6. ASSUME NEW s \in Slots, DropUndecodable(s) \/ Deliver(s),
             UNCHANGED <<senderVars, flight, reliable>>
      PROVE  OutageInv'
  <2>1. /\ s \in ReadySlots /\ frames' = [frames EXCEPT ![s] = NoFrame]
        /\ next' = Succ(next) /\ UNCHANGED <<session, newest, stream>>
    BY <1>6 DEF DropUndecodable, Deliver, senderVars
  <2>2. next \in Ids /\ next # NoId /\ next' \in Ids
    BY <2>1, Numbers, SuccValue
    DEF ReadySlots, Expected, StreamInv, SlotsInv, TypeOK, Frame
  <2>3. ASSUME NEW e \in Ids, LedBy(stream, e), session = stream
        PROVE  Off(e, next') <= Off(e, next)
    <3>1. Off(e, next') = Off(e, next) - 1 /\ Off(e, next) \in Nat
      BY <1>6, <2>1, <2>2, <2>3, LeaveLed, OffRange DEF StreamInv, SentInv
    <3> QED
      BY <3>1
  <2> QED
    BY <1>5, <1>6, <2>1, <2>2, <2>3
<1>7. CASE SkipToNewest /\ UNCHANGED <<senderVars, flight, reliable>>
  <2>1. next \in Ids /\ next # NoId /\ next' \in Ids /\ session' = session
    BY <1>7 DEF SkipToNewest, Overdue, ResumeAt, StreamInv, SlotsInv, TypeOK
  <2>2. ASSUME NEW e \in Ids, LedBy(stream, e), session = stream
        PROVE  Off(e, next') <= Off(e, next)
    <3>1. Off(newest, next) \in Nat /\ Off(e, next') = Off(e, next) - Off(newest, next)
      BY <1>7, <2>2, SkipLed DEF StreamInv, SentInv, senderVars
    <3>2. Off(e, next) \in Nat
      BY <2>1, OffRange
    <3> QED
      BY <3>1, <3>2
  <2> QED
    BY <1>5, <1>7, <2>1, <2>2
<1>8. CASE ReceiverRestarts
  BY <1>3, <1>8 DEF ReceiverRestarts, Reopen
<1>9. CASE EncoderRestarts
  <2>1. /\ stream' \in Sessions /\ stream' > stream /\ sent' = 0 /\ ~reliable /\ ~reliable'
        /\ flight' = flight /\ session' = session
    BY <1>9 DEF EncoderRestarts, vars, slotVars
  <2>2. \A d \in flight : d.session # stream'
    BY <2>1, Flown, PipeAssumption DEF StreamInv, SentInv, PipeAssumption
  <2>3. session # stream'
    BY <2>1, PipeAssumption
    DEF StreamInv, SentInv, SlotsInv, TypeOK, NoSession, PipeAssumption
  <2> QED
    BY <2>1, <2>2, <2>3, StreamNumbers DEF OutageInv
<1>10. CASE Settle
  BY <1>10 DEF Settle, OutageInv
<1>11. ASSUME UNCHANGED <<senderVars, reliable, session, next, flight>> PROVE OutageInv'
  <2>1. ~reliable /\ session' = stream /\ next' # NoId => Off(Edge, next') <= sent
    BY <1>11 DEF StreamInv, OutageInv
  <2> QED
    BY <1>3, <1>11, <2>1
<1>12. CASE PeriodInOutage /\ UNCHANGED <<senderVars, flight>>
  BY <1>11, <1>12 DEF PeriodInOutage, Tick
<1>13. CASE Receiver
  <2>1. CASE PollIdle \/ NothingReady \/ Decode
    BY <1>11, <1>13, <2>1 DEF Receiver, PollIdle, NothingReady, Decode, slotVars
  <2> QED
    BY <1>6, <1>7, <1>13, <2>1 DEF Receiver, ReadyStep
<1>14. CASE UNCHANGED streamVars
  BY <1>11, <1>14 DEF streamVars, vars, slotVars
<1> QED
  BY <1>1, <1>2, <1>4, <1>8, <1>9, <1>10, <1>12, <1>13, <1>14
  DEF StreamNext, PeriodInOutage

\* A frame with one more shard has data.
LEMMA FilledHasData ==
  ASSUME NEW f \in Frame, NEW d \in Datagrams
  PROVE  Data(Filled(f, d))
<1>1. CASE IsData(d)
  BY <1>1 DEF Filled, WithData, Data, Frame
<1>2. CASE ~IsData(d)
  <2> DEFINE p == d.shard - Shape[d.group]
             f1 == [f EXCEPT !.parity = @ \cup {<<d.group, p>>}]
  <2>1. Filled(f, d) = RecoverGroup(f1, d.group)
    BY <1>2 DEF Filled, WithParity
  <2>2. f1.parity # {} /\ DOMAIN f1 = DOMAIN f
    BY DEF Frame
  <2>3. RecoverGroup(f1, d.group).parity # {}
    <3> HIDE DEF f1
    <3> QED
      BY <2>2 DEF RecoverGroup, Frame
  <2> QED
    BY <2>1, <2>3 DEF Data
<1> QED
  BY <1>1, <1>2

LEMMA NextShards == StreamInv /\ [StreamNext]_streamVars => ShardsInv'
<1> SUFFICES ASSUME StreamInv, [StreamNext]_streamVars PROVE ShardsInv'
  OBVIOUS
<1>1. \A d \in flight' : d.fits
  BY DEF StreamInv, ShardsInv, StreamNext, PeriodInOutage, Period, SendFrame, Shards, Receive,
         Receiver, ReceiverRestarts, EncoderRestarts, Settle, streamVars
<1>2. ASSUME \A s \in Slots : frames'[s] # NoFrame => frames'[s] = frames[s]
      PROVE  ShardsInv'
  BY <1>1, <1>2 DEF StreamInv, ShardsInv
<1>3. ASSUME Tick PROVE ShardsInv'
  <2>1. ASSUME NEW s \in Slots, frames'[s] # NoFrame PROVE Data(frames'[s])
    <3>1. frames[s] \in Frame /\ frames'[s] = [frames[s] EXCEPT !.age = Aged(@)]
      BY <1>3, <2>1 DEF Tick, StreamInv, SlotsInv, TypeOK
    <3>2. Data(frames[s])
      BY <3>1, PipeAssumption DEF PipeAssumption, StreamInv, ShardsInv
    <3> QED
      BY <3>1, <3>2 DEF Data, Frame
  <2> QED
    BY <1>1, <2>1 DEF ShardsInv
<1>4. ASSUME NEW d \in Datagrams, Receive(d) PROVE ShardsInv'
  <2> DEFINE L == LiveFrames(d)
  <2>1. d.fits /\ Accept(d) /\ ~AllocMayFail
    BY <1>4, StreamAssumption DEF Receive, StreamInv, ShardsInv, StreamAssumption
  <2>2. /\ L \in [Slots -> Frame \cup {NoFrame}]
        /\ \A s \in Slots : L[s] # NoFrame => L[s] = frames[s]
    BY LiveSlots DEF StreamInv, LiveFrames
  <2>3. CASE DropLate(d)
    BY <1>2, <2>3 DEF DropLate
  <2>4. CASE DropNoSlot(d)
    BY <1>2, <2>2, <2>4 DEF DropNoSlot
  <2>5. CASE StoreShard(d)
    <3>1. PICK s \in SlotFor(d) : frames' = [L EXCEPT ![s] = Filled(FrameAt(s, d), d)]
      BY <2>5 DEF StoreShard
    <3>2. s \in Slots /\ FrameAt(s, d) \in Frame
      BY <2>2, FreshType DEF SlotFor, Holders, FreeSlots, FrameAt
    <3>3. Data(frames'[s]) /\ \A t \in Slots \ {s} : frames'[t] = L[t]
      <4> HIDE DEF L
      <4> QED
        BY <2>2, <3>1, <3>2, FilledHasData
    <3> QED
      BY <1>1, <2>2, <3>3 DEF StreamInv, ShardsInv
  <2> QED
    BY <2>1, <2>3, <2>4, <2>5 DEF Accept, DropUnfit
<1>5. ASSUME NEW s \in Slots, DropUndecodable(s) \/ Deliver(s) PROVE ShardsInv'
  BY <1>2, <1>5 DEF DropUndecodable, Deliver, StreamInv, SlotsInv, TypeOK
<1>6. CASE SkipToNewest
  BY <1>2, <1>6 DEF SkipToNewest, SkippedFrames
<1>7. CASE Receiver
  BY <1>2, <1>5, <1>6, <1>7
  DEF Receiver, PollIdle, ReadyStep, NothingReady, Decode, slotVars
<1>8. CASE ReceiverRestarts
  BY <1>2, <1>8 DEF ReceiverRestarts, Reopen
<1>9. CASE EncoderRestarts \/ Settle \/ UNCHANGED streamVars
  BY <1>2, <1>9 DEF EncoderRestarts, Settle, streamVars, vars, slotVars
<1> QED
  BY <1>3, <1>4, <1>7, <1>8, <1>9 DEF StreamNext, PeriodInOutage, Period
----------------------------------------------------------------------------
(* The lag.                                                                 *)

\* While the pipe lags, everything it holds is of the session, and short of the edge.
LEMMA LagSlots ==
  ASSUME StreamInv, session = stream, next # NoId
  PROVE  /\ \A s \in Slots : frames[s] # NoFrame =>
              /\ frames[s].session = stream /\ frames[s].id \in Ids
              /\ Off(frames[s].id, next) \in Nat /\ Off(frames[s].id, next) < Behind
         /\ newest # NoId =>
              /\ newest \in Ids
              /\ Off(newest, next) < Behind \/ Off(newest, next) = IdMod - 1
         /\ Behind > 0 => Off(sent, next) = Behind - 1
<1>1. Behind \in Nat /\ Behind = Off(Edge, next) /\ Edge \in Ids /\ next \in Ids
  BY LagBounded
<1>2. Led(frames, next, newest, Edge)
  BY DEF StreamInv, LedInv, LedBy
<1>3. \A s \in Slots : frames[s] # NoFrame =>
        frames[s].session = stream /\ frames[s].id \in Ids
  BY DEF StreamInv, SlotsInv, TypeOK, ContinuityInv, Frame
<1>4. newest # NoId => newest \in Ids
  BY DEF StreamInv, SlotsInv, TypeOK
<1>5. Behind > 0 => Off(sent, next) = Behind - 1
  <2>1. sent \in Ids /\ Off(sent, next) \in Nat
    BY <1>1, OffRange DEF StreamInv, SentInv
  <2>2. Behind = IF Off(sent, next) = IdMod - 1 THEN 0 ELSE Off(sent, next) + 1
    BY <1>1, <2>1, OffAfter DEF Edge
  <2> QED
    BY <1>1, <2>1, <2>2
<1> QED
  BY <1>1, <1>2, <1>3, <1>4, <1>5, OffRange DEF Led

\* Frames of different identifiers, fewer than there are slots, do not fill the slots.
LEMMA SlotsSuffice ==
  ASSUME SlotsInv, NEW k \in Nat, k < Cardinality(Slots), next \in Ids,
         \A s \in Slots : frames[s] # NoFrame => Off(frames[s].id, next) < k
  PROVE  \E s \in Slots : frames[s] = NoFrame
<1> SUFFICES ASSUME \A s \in Slots : frames[s] # NoFrame PROVE FALSE
  OBVIOUS
<1> DEFINE F == [s \in Slots |-> Off(frames[s].id, next)]
<1>1. \A s \in Slots : frames[s].id \in Ids
  BY DEF SlotsInv, TypeOK, Frame
<1>2. F \in [Slots -> 0 .. k - 1]
  <2>1. \A s \in Slots : Off(frames[s].id, next) \in Nat /\ Off(frames[s].id, next) < k
    BY <1>1, OffRange
  <2> QED
    BY <2>1
<1>3. ASSUME NEW s \in Slots, NEW t \in Slots, F[s] = F[t] PROVE s = t
  <2>1. Off(frames[s].id, next) = Off(frames[t].id, next)
    BY <1>3
  <2>2. frames[s].id = frames[t].id
    BY <1>1, <2>1, OffInjective
  <2> QED
    BY <2>2 DEF SlotsInv, Tidy
<1>4. F \in Injection(Slots, 0 .. k - 1)
  <2> HIDE DEF F
  <2> QED
    BY <1>2, <1>3 DEF Injection, IsInjective
<1>5. IsFiniteSet(Slots) /\ IsFiniteSet(0 .. k - 1) /\ Cardinality(0 .. k - 1) = k
  <2>1. IsFiniteSet(0 .. k - 1)
        /\ Cardinality(0 .. k - 1) = IF 0 > k - 1 THEN 0 ELSE k - 1 - 0 + 1
    BY FS_Interval
  <2> QED
    BY <2>1, PipeAssumption DEF PipeAssumption
<1>6. Cardinality(Slots) <= Cardinality(0 .. k - 1)
  <2> HIDE DEF F
  <2> QED
    BY <1>4, <1>5, FS_Injection
<1>7. Cardinality(Slots) \in Nat
  BY <1>5, FS_CardinalityType
<1> QED
  BY <1>5, <1>6, <1>7

\* Every data shard of the access unit sent last is one of its datagrams.
LEMMA ShardOfCell ==
  ASSUME StreamInv, session = stream, next # NoId, NEW c \in Cells
  PROVE  \E d \in New : c = <<d.group, d.shard>>
<1>1. stream \in Sessions /\ sent \in Ids
  BY DEF StreamInv, SlotsInv, TypeOK, SentInv, ContinuityInv
<1> QED
  BY <1>1, ShardsAssumption DEF ShardsAssumption, New

\* The access unit sent last makes itself the newest frame, or finds all slots taken: then
\* the newest frame is further ahead than a deadline.
LEMMA NewIsStored ==
  ASSUME StreamInv, session = stream, next # NoId, Behind > Outage,
         NEW d \in New, d \in Datagrams, Accept(d)
  PROVE  \/ StoreShard(d) /\ newest' = sent
         \/ DropNoSlot(d) /\ newest' = newest /\ frames' = frames /\ Ahead
<1>1. d.session = stream /\ d.id = sent /\ d.fits
  BY DEF New, Shards
<1>2. /\ ~Switches(d) /\ LiveNext(d) = next /\ LiveNewest(d) = newest
      /\ LiveFrames(d) = frames
  BY <1>1 DEF Switches, LiveNext, LiveNewest, LiveFrames
<1>3. /\ Behind \in Nat /\ Behind <= Outage + Deadline /\ next \in Ids /\ sent \in Ids
      /\ Off(sent, next) = Behind - 1
  BY LagBounded, LagSlots, StreamNumbers DEF StreamInv, SentInv
<1>4. ~Late(d)
  <2>1. Off(next, sent) = IF Off(sent, next) = 0 THEN 0 ELSE IdMod - Off(sent, next)
    BY <1>3, OffValue, Numbers
  <2>2. Off(next, sent) > Half
    BY <1>3, <2>1, StreamNumbers
  <2>3. ~Newer(next, sent)
    <3>1. Off(next, sent) \in Nat /\ Half \in Nat
      BY <1>3, OffRange, StreamNumbers
    <3>2. Newer(next, sent) <=> 1 <= Off(next, sent) /\ Off(next, sent) <= Half
      BY <1>3, NewerOff
    <3> QED
      BY <2>2, <3>1, <3>2
  <2> QED
    BY <1>1, <1>2, <2>3 DEF Late
<1>5. CASE DropNoSlot(d)
  <2>1. Holders(d) = {} /\ FreeSlots(d) = {} /\ frames' = frames /\ newest' = newest
    BY <1>2, <1>5, StreamAssumption DEF DropNoSlot, StreamAssumption
  <2>2. \A s \in Slots : frames[s] # NoFrame
    BY <1>2, <2>1 DEF FreeSlots
  <2>3. Deadline \in Nat /\ Deadline < Cardinality(Slots)
    BY StreamNumbers, StreamAssumption DEF StreamAssumption
  <2>4. PICK s \in Slots : ~(Off(frames[s].id, next) < Deadline)
    BY <1>3, <2>2, <2>3, SlotsSuffice DEF StreamInv
  <2>5. frames[s].id \in Ids /\ Off(frames[s].id, next) \in Nat /\ Data(frames[s])
    BY <2>2, LagSlots DEF StreamInv, ShardsInv
  <2>6. newest # NoId /\ Off(newest, next) <= Horizon
        /\ Off(frames[s].id, next) <= Off(newest, next)
    BY <2>2, <2>5 DEF StreamInv, SlotsInv, WindowInv, Window
  <2>7. newest \in Ids /\ Off(newest, next) \in Nat /\ Off(newest, next) < Behind
    BY <1>3, <2>6, LagSlots, OffRange, StreamNumbers
  <2> QED
    BY <1>3, <1>5, <2>1, <2>3, <2>4, <2>5, <2>6, <2>7 DEF Ahead
<1>6. CASE StoreShard(d)
  <2>1. newest' = IF newest = NoId \/ Newer(sent, newest) THEN sent ELSE newest
    BY <1>1, <1>2, <1>6 DEF StoreShard, NewestWith
  <2>2. ASSUME newest # NoId, newest # sent PROVE Newer(sent, newest)
    <3>1. /\ newest \in Ids /\ Off(newest, next) \in Nat
          /\ Off(newest, next) < Behind \/ Off(newest, next) = IdMod - 1
      BY <1>3, <2>2, LagSlots, OffRange
    <3>2. Off(sent, newest) = IF Off(newest, next) <= Off(sent, next)
                              THEN Off(sent, next) - Off(newest, next)
                              ELSE Off(sent, next) - Off(newest, next) + IdMod
      BY <1>3, <3>1, OffFrom
    <3>3. Off(sent, newest) # 0
      BY <1>3, <2>2, <3>1, OffRange
    <3>4. 1 <= Off(sent, newest) /\ Off(sent, newest) <= Half
      BY <1>3, <3>1, <3>2, <3>3, StreamNumbers
    <3> QED
      BY <1>3, <3>1, <3>4, NewerOff
  <2> QED
    BY <1>6, <2>1, <2>2
<1> QED
  BY <1>1, <1>4, <1>5, <1>6, StreamAssumption
  DEF Accept, DropLate, DropUnfit, StreamAssumption

\* A frame period: the last access unit has been read, and the deadline has not passed.
LEMMA PeriodLag ==
  ASSUME StreamInv, Period
  PROVE  LagInv'
<1> SUFFICES ASSUME session = stream, next # NoId, Behind' > Outage
             PROVE  /\ reliable' /\ pc' # "decode" /\ Unread'
                    /\ ReadySlots' # {} => Behind' = Outage + 1
                    /\ ReadySlots' = {} => Behind' <= Outage + Stall'
  BY TickAges DEF LagInv, Period, SendFrame, StreamInv
<1>1. /\ Behind \in Nat /\ Behind = Off(Edge, next) /\ Edge \in Ids /\ next \in Ids
      /\ Behind <= Outage + Deadline
  BY LagBounded
<1>2. /\ reliable /\ reliable' /\ flight = {} /\ pc = "poll" /\ pc' = "poll"
      /\ stream' = stream /\ sent' = Edge /\ flight' = New' /\ next' = next
      /\ newest' = newest /\ ReadySlots' = ReadySlots /\ Stall' = Aged(Stall)
      /\ Stall \in 0 .. Deadline
  BY TickAges, StallType DEF Period, SendFrame, Edge, New, StreamInv
<1>3. Behind' = Behind + 1
  <2>1. Behind' = Off(Succ(Edge), next)
    BY <1>2 DEF Behind, Off
  <2> QED
    BY <1>1, <2>1, OffAfter, StreamNumbers
<1>4. CASE Behind = Outage
  <2>1. Unread' /\ Behind' = Outage + 1
    BY <1>2, <1>3, <1>4, StreamNumbers DEF Unread
  <2>2. Stall' \in Nat \ {0}
    BY <1>2, StreamNumbers DEF Aged
  <2> QED
    BY <1>2, <2>1, <2>2, StreamNumbers
<1>5. CASE Behind > Outage
  <2>1. New # {}
    BY ShardOfCell, CellsFinite
  <2>2. Read /\ ReadySlots = {} /\ Stall < Deadline /\ Behind <= Outage + Stall
    BY <1>2, <1>5, <2>1 DEF StreamInv, LagInv, Unread
  <2>3. Unread'
    <3>1. CASE newest = sent
      BY <1>2, <3>1 DEF Unread, Edge
    <3>2. CASE Ahead
      <4>1. Ahead'
        BY <1>1, <1>2, <1>3, <3>2, StreamNumbers DEF Ahead
      <4> QED
        BY <1>2, <4>1 DEF Unread
    <3> QED
      BY <2>2, <3>1, <3>2 DEF Read
  <2>4. Stall' = Stall + 1
    BY <1>2, <2>2 DEF Aged
  <2> QED
    BY <1>1, <1>2, <1>3, <2>2, <2>3, <2>4, StreamNumbers
<1> QED
  BY <1>1, <1>3, <1>4, <1>5, StreamNumbers

\* A datagram of the last access unit: it is read.
LEMMA ReceiveLag ==
  ASSUME StreamInv, NEW d \in Datagrams, Receive(d)
  PROVE  LagInv'
<1> SUFFICES ASSUME session' = stream', next' # NoId, Behind' > Outage
             PROVE  /\ reliable' /\ Read'
                    /\ ReadySlots' # {} => Behind' = Outage + 1
                    /\ ReadySlots' = {} => Behind' <= Outage + Stall'
  BY DEF LagInv, Receive, Accept
<1>1. /\ d \in flight /\ Accept(d) /\ UNCHANGED <<stream, sent, reliable>>
      /\ flight' \subseteq flight /\ d.session = stream /\ stream \in Nat \ {0}
  BY DEF Receive, Accept, EnterSession, senderVars, StreamInv, SentInv
<1>2. d.id \in Ids /\ Off(Edge, d.id) \in 1 .. Outage
  BY <1>1, Flown DEF StreamInv, LedInv, LedBy
<1>3. LiveNext(d) # NoId
  <2> SUFFICES ASSUME LiveNext(d) = NoId PROVE FALSE
    OBVIOUS
  <2>1. Behind' = Off(Edge, d.id)
    BY <1>1 DEF Behind, Edge, Off, Accept, EnterSession
  <2> QED
    BY <1>2, <2>1, StreamNumbers
<1>4. /\ session = stream /\ ~Switches(d) /\ next # NoId /\ next' = next
      /\ nextWait' = nextWait /\ LiveFrames(d) = frames
  BY <1>1, <1>3
  DEF Accept, EnterSession, LiveNext, LiveFrames, Switches, StreamInv, SlotsInv,
      ContinuityInv
<1>5. Behind' = Behind /\ Behind > Outage /\ Behind \in Nat
  BY <1>1, <1>4, LagBounded DEF Behind
<1>6. /\ reliable /\ flight \subseteq New
      /\ ReadySlots # {} => Behind = Outage + 1
      /\ ReadySlots = {} => Behind <= Outage + Stall
  BY <1>4, <1>5 DEF StreamInv, LagInv, OutageInv
<1>7. \/ StoreShard(d) /\ newest' = sent
      \/ newest' = newest /\ frames' = frames /\ Ahead
  BY <1>1, <1>4, <1>5, <1>6, NewIsStored
<1>8. ASSUME StoreShard(d) PROVE ReadySlots' = ReadySlots /\ Stall' = Stall
  <2>1. PICK s \in SlotFor(d) : frames' = [frames EXCEPT ![s] = Filled(FrameAt(s, d), d)]
    BY <1>4, <1>8 DEF StoreShard
  <2>2. s \in Slots /\ (frames[s] = NoFrame \/ frames[s].id = d.id)
    BY <1>4 DEF SlotFor, Holders, FreeSlots
  <2>3. FrameAt(s, d) \in Frame /\ FrameAt(s, d).id = d.id
    BY <1>4, <2>2, FreshType DEF FrameAt, Fresh, StreamInv, SlotsInv, TypeOK
  <2>4. Filled(FrameAt(s, d), d).id = d.id
    BY <2>3 DEF Filled, WithData, WithParity, RecoverGroup, Frame
  <2>5. d.id # next
    <3>1. d.id = sent
      BY <1>1, <1>6 DEF New, Shards
    <3>2. Off(sent, next) = Behind - 1 /\ next \in Ids
      BY <1>4, <1>5, LagSlots, LagBounded, StreamNumbers
    <3>3. Off(next, next) = 0
      BY <3>2, OffRange
    <3> QED
      BY <1>5, <3>1, <3>2, <3>3, StreamNumbers
  <2>6. \A t \in Slots \ {s} : frames'[t] = frames[t]
    BY <2>1 DEF StreamInv, SlotsInv, TypeOK
  <2>7. frames'[s].id # next
    BY <2>1, <2>2, <2>4, <2>5 DEF StreamInv, SlotsInv, TypeOK
  <2>8. s \notin Expected /\ Expected' = Expected
    BY <1>4, <2>2, <2>5, <2>6, <2>7 DEF Expected
  <2>9. ReadySlots' = ReadySlots
    BY <2>6, <2>8 DEF ReadySlots, Expected, Complete
  <2>10. Stall' = Stall
    <3>1. CASE Expected = {}
      BY <1>4, <2>8, <3>1 DEF Stall
    <3>2. CASE Expected # {}
      <4> DEFINE t == CHOOSE u \in Expected : TRUE
      <4>1. t \in Expected /\ t \in Slots
        BY <3>2 DEF Expected
      <4>2. Stall = frames[t].age /\ Stall' = frames'[t].age
        BY <2>8, <3>2 DEF Stall
      <4> QED
        BY <2>6, <2>8, <4>1, <4>2
    <3> QED
      BY <3>1, <3>2
  <2> QED
    BY <2>9, <2>10
<1>9. ASSUME frames' = frames PROVE ReadySlots' = ReadySlots /\ Stall' = Stall
  BY <1>4, <1>9 DEF ReadySlots, Expected, Stall
<1>10. Read'
  BY <1>1, <1>4, <1>5, <1>7 DEF Read, Ahead
<1> QED
  BY <1>1, <1>5, <1>6, <1>7, <1>8, <1>9, <1>10

\* A complete frame leaves, and the pipe has caught up.
LEMMA LeaveLag ==
  ASSUME StreamInv, NEW s \in Slots, DropUndecodable(s) \/ Deliver(s),
         UNCHANGED <<senderVars, flight>>
  PROVE  LagInv'
<1> SUFFICES ASSUME session = stream, next' # NoId, Behind' > Outage PROVE FALSE
  BY DEF LagInv, DropUndecodable, Deliver, senderVars
<1>1. /\ s \in ReadySlots /\ frames' = [frames EXCEPT ![s] = NoFrame] /\ next' = Succ(next)
      /\ UNCHANGED <<session, newest, stream, sent, flight>>
  BY DEF DropUndecodable, Deliver, senderVars
<1>2. next # NoId
  BY <1>1, Numbers DEF ReadySlots, Expected, StreamInv, SlotsInv, TypeOK, Frame
<1>3. Behind \in Nat /\ Behind = Off(Edge, next) /\ Edge \in Ids
  BY <1>2, LagBounded
<1>4. Behind' = Off(Edge, next') /\ stream \in Nat \ {0} /\ LedBy(stream, Edge)
  BY <1>1 DEF Behind, Edge, Off, StreamInv, SentInv, LedInv
<1>5. PICK e \in Ids : e = Edge
  BY <1>3
<1>6. Off(e, next') = Off(e, next) - 1
  BY <1>1, <1>4, <1>5, LeaveLed DEF StreamInv
<1>7. Behind' = Behind - 1
  BY <1>3, <1>4, <1>5, <1>6
<1>8. Behind > Outage => Behind = Outage + 1
  BY <1>1, <1>2 DEF StreamInv, LagInv
<1> QED
  BY <1>3, <1>7, <1>8, StreamNumbers

\* The stale run is given up, and the pipe is at the live edge.
LEMMA SkipLag ==
  ASSUME StreamInv, SkipToNewest, UNCHANGED <<senderVars, flight>>
  PROVE  LagInv'
<1> SUFFICES ASSUME session = stream, Behind' > Outage PROVE FALSE
  BY DEF LagInv, SkipToNewest, senderVars
<1>1. /\ newest # NoId /\ next # NoId /\ newest \in Ids /\ next' = newest
      /\ UNCHANGED <<stream, sent, flight>>
  BY DEF SkipToNewest, Overdue, ResumeAt, senderVars, StreamInv, SlotsInv, TypeOK
<1>2. Behind \in Nat /\ Behind = Off(Edge, next) /\ Edge \in Ids /\ sent \in Ids
  BY <1>1, LagBounded DEF StreamInv, SentInv
<1>3. Behind' = Off(Edge, newest) /\ stream \in Nat \ {0} /\ LedBy(stream, Edge)
  BY <1>1 DEF Behind, Edge, Off, StreamInv, SentInv, LedInv
<1>4. PICK e \in Ids : e = Edge
  BY <1>2
<1>5. Off(newest, next) \in Nat \ {0} /\ Off(e, newest) = Off(e, next) - Off(newest, next)
  BY <1>1, <1>3, <1>4, SkipLed DEF StreamInv, senderVars
<1>6. Behind' = Behind - Off(newest, next)
  BY <1>2, <1>3, <1>4, <1>5
<1>7. Behind > Outage + 1 /\ (Succ(newest) = sent \/ newest = sent \/ Ahead)
  BY <1>1, <1>2, <1>5, <1>6, StreamNumbers DEF StreamInv, LagInv, Unread, Read
<1>8. Off(sent, sent) = 0 /\ Off(newest, newest) = 0
  BY <1>1, <1>2, OffRange
<1>9. CASE newest = sent
  <2>1. Off(Edge, newest) = 1
    BY <1>2, <1>8, <1>9, OffAfter, StreamNumbers DEF Edge
  <2> QED
    BY <1>3, <2>1, StreamNumbers
<1>10. CASE Succ(newest) = sent
  <2>1. Off(sent, newest) = 1
    BY <1>1, <1>8, <1>10, OffAfter, StreamNumbers
  <2>2. Off(Edge, newest) = 2
    BY <1>1, <1>2, <2>1, OffAfter, StreamNumbers DEF Edge
  <2> QED
    BY <1>3, <2>2, StreamNumbers
<1>11. CASE Ahead
  <2>1. Off(newest, next) >= Deadline /\ Behind <= Outage + Deadline
    BY <1>1, <1>5, <1>11, LagBounded, StreamNumbers DEF Ahead
  <2> QED
    BY <1>2, <1>5, <1>6, <2>1, StreamNumbers
<1> QED
  BY <1>7, <1>9, <1>10, <1>11
LEMMA NextLag == StreamInv /\ [StreamNext]_streamVars => LagInv'
<1> SUFFICES ASSUME StreamInv, [StreamNext]_streamVars PROVE LagInv'
  OBVIOUS
<1>1. CASE PeriodInOutage
  <2>1. ~reliable' /\ stream' = stream /\ session' = session /\ next' = next
    BY <1>1 DEF PeriodInOutage, SendFrame, Tick, senderVars
  <2>2. OutageInv' /\ sent' \in Ids /\ Behind' = Off(Edge', next')
    BY NextOutage, NextSent DEF SentInv, Behind, Edge, Off
  <2>3. ASSUME session' = stream', next' # NoId PROVE Behind' <= Outage
    <3>1. Behind' <= sent' /\ sent' <= Outage /\ sent' \in Nat
      BY <2>1, <2>2, <2>3, Numbers DEF OutageInv
    <3>2. Behind' \in Int
      <4>1. Edge' \in Ids /\ next' \in Ids
        BY <2>1, <2>2, <2>3, SuccValue DEF Edge, StreamInv, SlotsInv, TypeOK
      <4> QED
        BY <2>2, <4>1, OffRange
    <3> QED
      BY <3>1, <3>2, StreamNumbers
  <2>4. session' = stream' /\ next' # NoId => ~(Behind' > Outage)
    <3> SUFFICES ASSUME session' = stream', next' # NoId PROVE ~(Behind' > Outage)
      OBVIOUS
    <3>1. Edge' \in Ids /\ next' \in Ids
      BY <2>1, <2>2, SuccValue DEF Edge, StreamInv, SlotsInv, TypeOK
    <3>2. Behind' \in Nat
      BY <2>2, <3>1, OffRange
    <3> QED
      BY <2>3, <3>2, StreamNumbers
  <2> QED
    BY <2>4 DEF LagInv
<1>2. CASE Period
  BY <1>2, PeriodLag
<1>3. ASSUME NEW d \in Datagrams, Receive(d) PROVE LagInv'
  BY <1>3, ReceiveLag
<1>4. CASE Receiver /\ PollIdle
  <2>1. /\ pc = "poll" /\ pc' = "ready"
        /\ UNCHANGED <<slotVars, senderVars, flight, reliable>>
    BY <1>4 DEF Receiver, PollIdle
  <2> QED
    BY <2>1 DEF StreamInv, LagInv, Unread, Read, Ahead, New, Behind, ReadySlots, Expected, Stall,
                slotVars, senderVars
<1>5. CASE Receiver /\ NothingReady
  <2>1. /\ pc' = "poll" /\ ReadySlots = {} /\ ~Overdue
        /\ UNCHANGED <<slotVars, senderVars, flight, reliable>>
    BY <1>5 DEF Receiver, NothingReady
  <2>2. /\ UNCHANGED <<session, stream, next, newest, sent, Behind, New, flight, reliable>>
        /\ ReadySlots' = ReadySlots /\ Stall' = Stall
    BY <2>1 DEF slotVars, senderVars, Behind, New, ReadySlots, Expected, Stall
  <2>3. ASSUME session = stream, next # NoId, Behind > Outage, Read
        PROVE  Stall < Deadline
    <3>1. /\ next \in Ids /\ sent \in Ids /\ newest # NoId /\ Behind \in Nat
          /\ Off(sent, next) = Behind - 1 /\ Behind <= Outage + Deadline /\ newest \in Ids
      BY <2>3, LagBounded, LagSlots, StreamNumbers, Numbers
      DEF Read, Ahead, StreamInv, SentInv
    <3>2. Newer(newest, next)
      BY <2>3, <3>1, NewerOff, StreamNumbers DEF Read, Ahead
    <3>3. ~(Stall >= Deadline) /\ Stall \in 0 .. Deadline
      BY <2>1, <2>3, <3>1, <3>2, StallType DEF Overdue, StreamInv
    <3> QED
      BY <3>3, StreamNumbers
  <2> QED
    BY <2>1, <2>2, <2>3 DEF StreamInv, LagInv, Unread, Read, Ahead
<1>6. CASE Receiver /\ Decode
  <2>1. /\ pc = "decode" /\ UNCHANGED <<session, stream, next, Behind>>
    BY <1>6 DEF Receiver, Decode, slotVars, senderVars, Behind
  <2> QED
    BY <2>1 DEF StreamInv, LagInv
<1>7. CASE Receiver /\ ReadyStep
  BY <1>5, <1>7, LeaveLag, SkipLag DEF Receiver, ReadyStep
<1>8. CASE ReceiverRestarts
  BY <1>8 DEF ReceiverRestarts, Reopen, LagInv
<1>9. CASE EncoderRestarts
  <2>1. stream' > stream /\ session' = session
    BY <1>9 DEF EncoderRestarts, vars, slotVars
  <2>2. session' # stream'
    BY <1>9, <2>1, PipeAssumption
    DEF EncoderRestarts, StreamInv, SentInv, SlotsInv, TypeOK, NoSession, PipeAssumption
  <2> QED
    BY <2>2 DEF LagInv
<1>10. ASSUME ~reliable, UNCHANGED <<vars, senderVars>> PROVE LagInv'
  <2>1. UNCHANGED <<session, stream, next, Behind>>
    BY <1>10 DEF vars, slotVars, senderVars, Behind
  <2> QED
    BY <1>10, <2>1 DEF StreamInv, LagInv
<1>12. CASE Settle
  BY <1>10, <1>12 DEF Settle
<1>13. CASE UNCHANGED streamVars
  <2>1. UNCHANGED <<vars, senderVars, flight, reliable>>
    BY <1>13 DEF streamVars
  <2> QED
    BY <2>1 DEF StreamInv, LagInv, Unread, Read, Ahead, New, Behind, ReadySlots, Expected, Stall,
                vars, slotVars, senderVars
<1> QED
  BY <1>1, <1>2, <1>3, <1>4, <1>6, <1>7, <1>8, <1>9, <1>12, <1>13
  DEF StreamNext, Receiver

LEMMA InitStream == StreamInit => SentInv /\ LedInv /\ OutageInv /\ ShardsInv /\ LagInv
<1> SUFFICES ASSUME StreamInit PROVE SentInv /\ LedInv /\ OutageInv /\ ShardsInv /\ LagInv
  OBVIOUS
<1>1. /\ stream = 1 /\ sent = 0 /\ 0 \in Ids /\ flight = {} /\ reliable \in BOOLEAN
      /\ session = 0 /\ next = NoId
  <2>1. reliable \in BOOLEAN
    BY DEF StreamInit
  <2>2. 0 \in Ids
    BY Numbers DEF Ids
  <2> QED
    BY <2>1, <2>2 DEF StreamInit, Init, NoSession
<1>2. SentInv /\ OutageInv /\ LagInv
  BY <1>1, StreamNumbers DEF SentInv, OutageInv, LagInv
<1>3. \A x, e : LedBy(x, e)
  BY <1>1 DEF LedBy
<1>4. LedInv
  BY <1>1, <1>3 DEF LedInv
<1>5. ShardsInv
  BY <1>1 DEF StreamInit, Init, ShardsInv
<1> QED
  BY <1>2, <1>4, <1>5

LEMMA AlwaysStreamInv == StreamSpec => []StreamInv
<1>1. StreamInit => SentInv /\ LedInv /\ OutageInv /\ ShardsInv /\ LagInv
  BY InitStream
<1>2. StreamInv /\ [StreamNext]_streamVars =>
        SentInv' /\ LedInv' /\ OutageInv' /\ ShardsInv' /\ LagInv'
  BY NextSent, NextLed, NextOutage, NextShards, NextLag
<1>3. StreamInv <=> SlotsInv /\ SentInv /\ LedInv /\ OutageInv /\ ShardsInv /\ LagInv
  BY DEF StreamInv
<1>4. StreamSpec => []SlotsInv
  BY StreamIsAPipe, AlwaysSlots, PTL
<1> QED
  BY <1>1, <1>2, <1>3, <1>4, PTL DEF StreamSpec

----------------------------------------------------------------------------
(* What the sender and the receiver promise each other.                     *)

\* Whatever the outage, the pipe is never further behind than it may fall in the outage
\* and in one deadline: the wait for a lost frame ends at the live edge (pipe.c:193-209).
THEOREM LagIsBounded == StreamSpec => []NearLive
<1>1. StreamInv => NearLive
  BY LagBounded DEF NearLive
<1> QED
  BY <1>1, AlwaysStreamInv, PTL

\* What FramePipe assumes of the network, the composition provides: no datagram in
\* flight is further from the expected frame than the signed comparison of newer
\* reaches, so the guard InHorizon of Accept holds back none (pipe.c:63).
THEOREM HorizonIsKept == StreamSpec => []HorizonKept
<1>1. StreamInv => HorizonKept
  <2> SUFFICES ASSUME StreamInv, NEW d \in flight, LiveNext(d) # NoId
               PROVE  \/ Off(d.id, LiveNext(d)) <= Horizon
                      \/ Off(LiveNext(d), d.id) <= Horizon
    BY DEF HorizonKept, InHorizon, Off
  <2> DEFINE x == d.session
  <2>1. /\ d.id \in Ids /\ x \in Sessions
        /\ LiveNext(d) = next /\ next # NoId /\ next \in Ids /\ session = x
    BY Flown DEF LiveNext, Switches, StreamInv, SlotsInv, TypeOK, ContinuityInv
  <2>2. PICK e \in Ids : LedBy(x, e) /\ Off(e, next) <= Outage + Deadline
    <3>1. CASE x = stream
      BY <2>1, <3>1, LagBounded DEF StreamInv, LedInv
    <3>2. CASE x # stream
      <4>1. PICK e \in Ids : LedBy(x, e)
        BY <2>1 DEF StreamInv, LedInv
      <4>2. Off(e, next) <= Outage /\ Off(e, next) \in Nat
        BY <2>1, <3>2, <4>1, OffRange DEF LedBy
      <4> QED
        BY <4>1, <4>2, StreamNumbers
    <3> QED
      BY <3>1, <3>2
  <2>3. Off(e, d.id) \in 1 .. Outage /\ Off(e, next) \in Nat
    BY <2>1, <2>2, OffRange DEF LedBy
  <2>4. Off(d.id, next) = IF Off(e, d.id) <= Off(e, next) THEN Off(e, next) - Off(e, d.id)
                          ELSE Off(e, next) - Off(e, d.id) + IdMod
    BY <2>1, OffBelow
  <2>5. Off(next, d.id) = IF Off(e, next) <= Off(e, d.id) THEN Off(e, d.id) - Off(e, next)
                          ELSE Off(e, d.id) - Off(e, next) + IdMod
    BY <2>1, OffBelow
  <2> QED
    BY <2>1, <2>2, <2>3, <2>4, <2>5, StreamNumbers
<1> QED
  BY <1>1, AlwaysStreamInv, PTL

\* Sender and receiver stay in each other's reach, through loss, stalls and restarts:
\* what the two theorems above say, as the run checks it (pipe.c:63,193-209).
THEOREM ReachIsKept == StreamSpec => []StaysInReach
<1>1. StaysInReach <=> NearLive /\ HorizonKept
  BY DEF StaysInReach
<1> QED
  BY <1>1, LagIsBounded, HorizonIsKept, PTL

----------------------------------------------------------------------------
(* What has caught up stays so.                                             *)

\* The pipe has given out everything, or all but the access unit sent last, of which
\* no shard is lost: what is not in its slot is on its way.
Arriving ==
  \A c \in Cells :
    \/ \E d \in flight : c = <<d.group, d.shard>>
    \/ \E s \in Slots : frames[s] # NoFrame /\ c \in frames[s].present

KeepsUp ==
  /\ reliable /\ session = stream /\ next # NoId /\ ~needKey
  /\ flight \subseteq New
  /\ next = Edge \/ (next = sent /\ Arriving)
  /\ pc # "ready" => ReadySlots = {}

\* What the slots hold then: nothing but that access unit, and no frame is overdue.
LEMMA KeptSlots ==
  ASSUME StreamInv, KeepsUp
  PROVE  /\ next \in Ids /\ sent \in Ids /\ Edge \in Ids /\ Off(Edge, sent) = 1
         /\ next = Edge => \A s \in Slots : frames[s] = NoFrame
         /\ next = sent => \A s \in Slots : frames[s] # NoFrame =>
              frames[s] \in Frame /\ frames[s].session = stream /\ frames[s].id = sent
         /\ ~Overdue
<1>1. next \in Ids /\ Edge \in Ids /\ sent \in Ids /\ Behind = Off(Edge, next)
  BY LagBounded DEF KeepsUp, StreamInv, SentInv
<1>2. Off(sent, sent) = 0 /\ Off(Edge, Edge) = 0
  BY <1>1, OffRange
<1>3. Off(Edge, sent) = 1
  BY <1>1, <1>2, OffAfter, StreamNumbers DEF Edge
<1>4. ASSUME NEW s \in Slots, frames[s] # NoFrame
      PROVE  next = sent /\ frames[s] \in Frame /\ frames[s].session = stream
             /\ frames[s].id = sent
  <2>1. /\ frames[s] \in Frame /\ frames[s].session = stream /\ frames[s].id \in Ids
        /\ Off(frames[s].id, next) \in Nat /\ Off(frames[s].id, next) < Off(Edge, next)
    BY <1>1, <1>4, LagSlots DEF KeepsUp, StreamInv, SlotsInv, TypeOK
  <2>2. next = sent /\ Off(frames[s].id, sent) = Off(sent, sent)
    BY <1>2, <1>3, <2>1 DEF KeepsUp
  <2> QED
    BY <1>1, <2>1, <2>2, OffInjective
<1>5. next = Edge => next # sent
  BY <1>2, <1>3
<1>6. ~Overdue
  <2> SUFFICES ASSUME newest # NoId PROVE ~Newer(newest, next)
    BY DEF Overdue
  <2>1. newest \in Ids /\ (Off(newest, next) < Behind \/ Off(newest, next) = IdMod - 1)
    BY LagSlots DEF KeepsUp
  <2>2. Off(newest, next) \in Nat /\ Behind \in {0, 1}
    BY <1>1, <1>2, <1>3, <2>1, OffRange DEF KeepsUp
  <2>3. ~(1 <= Off(newest, next) /\ Off(newest, next) <= Half)
    BY <2>1, <2>2, StreamNumbers
  <2> QED
    BY <1>1, <2>1, <2>3, NewerOff
<1> QED
  BY <1>1, <1>3, <1>4, <1>5, <1>6

\* No shard that is there is lost when another is stored, and a data shard is stored.
LEMMA FilledGrows ==
  ASSUME NEW f \in Frame, NEW d \in Datagrams
  PROVE  /\ f.present \subseteq Filled(f, d).present
         /\ IsData(d) => <<d.group, d.shard>> \in Filled(f, d).present
<1>1. d.group \in Groups /\ d.shard \in Nat
  BY PipeAssumption DEF PipeAssumption, Datagram
<1>2. CASE IsData(d)
  BY <1>2 DEF Filled, WithData, Frame
<1>3. CASE ~IsData(d)
  <2> DEFINE p == d.shard - Shape[d.group]
             f1 == [f EXCEPT !.parity = @ \cup {<<d.group, p>>}]
  <2>1. Filled(f, d) = RecoverGroup(f1, d.group)
    BY <1>3 DEF Filled, WithParity
  <2>2. f1.present = f.present /\ DOMAIN f1 = DOMAIN f
    BY DEF Frame
  <2>3. f.present \subseteq RecoverGroup(f1, d.group).present
    <3> HIDE DEF f1
    <3> QED
      BY <2>2 DEF RecoverGroup, Frame
  <2> QED
    BY <1>3, <2>1, <2>3
<1> QED
  BY <1>2, <1>3

\* The access unit of the last period is complete when the next one is sent, so it has
\* left.
LEMMA PeriodKeeps ==
  ASSUME StreamInv, KeepsUp, Period
  PROVE  KeepsUp'
<1>1. next = Edge
  <2> SUFFICES ASSUME next # Edge PROVE FALSE
    OBVIOUS
  <2>1. next = sent /\ Arriving /\ flight = {} /\ ReadySlots = {}
    BY DEF KeepsUp, Period
  <2>2. PICK c \in Cells : TRUE
    BY CellsFinite
  <2>3. PICK s \in Slots : frames[s] # NoFrame /\ c \in frames[s].present
    BY <2>1, <2>2 DEF Arriving
  <2>4. frames[s] \in Frame /\ frames[s].id = sent /\ Counted(frames[s])
    BY <2>1, <2>3, KeptSlots DEF StreamInv, SlotsInv, Tidy
  <2>5. \A t \in Slots : frames[t] # NoFrame => t = s
    BY <2>1, <2>3, <2>4, KeptSlots DEF StreamInv, SlotsInv, Tidy
  <2>6. frames[s].present = Cells
    BY <2>1, <2>4, <2>5 DEF Arriving, Frame
  <2>7. s \in ReadySlots
    BY <2>1, <2>3, <2>4, <2>6 DEF ReadySlots, Expected, Complete, Counted
  <2> QED
    BY <2>1, <2>7
<1>2. /\ reliable' /\ stream' = stream /\ sent' = next /\ flight' = New'
      /\ UNCHANGED <<session, next, needKey>> /\ ReadySlots' = ReadySlots
      /\ pc = "poll"
  BY <1>1, TickAges DEF Period, SendFrame, Tick, flagVars, Edge, New, StreamInv, KeepsUp
<1>3. Arriving'
  <2>1. stream \in Sessions /\ next \in Ids
    BY KeptSlots DEF KeepsUp, StreamInv, SlotsInv, TypeOK, ContinuityInv
  <2>2. \A c \in Cells : \E d \in Shards(stream, next) : c = <<d.group, d.shard>>
    BY <2>1, ShardsAssumption DEF ShardsAssumption
  <2> QED
    BY <1>2, <2>2 DEF Arriving, New
<1> QED
  BY <1>2, <1>3 DEF KeepsUp

\* A datagram of the access unit sent last: it is stored, or comes too late to matter.
LEMMA ReceiveKeeps ==
  ASSUME StreamInv, KeepsUp, NEW d \in Datagrams, Receive(d)
  PROVE  KeepsUp'
<1>1. /\ d \in flight /\ Accept(d) /\ flight' = flight \ {d} /\ d \in New
      /\ UNCHANGED <<stream, sent, reliable, Edge, New>>
  BY DEF Receive, senderVars, KeepsUp, Edge, New
<1>2. d.session = session /\ d.session = stream /\ d.id = sent /\ d.fits
  BY <1>1 DEF New, Shards, KeepsUp
<1>3. ~Switches(d) /\ LiveNext(d) = next /\ LiveFrames(d) = frames
  BY <1>2 DEF Switches, LiveNext, LiveFrames
<1>4. UNCHANGED <<session, next, needKey>> /\ pc' = "ready"
  <2>1. session' = session /\ next' = next
    BY <1>1, <1>2, <1>3 DEF Accept, EnterSession, KeepsUp
  <2>2. needKey' = needKey
    BY <1>1, <1>2 DEF Accept, EnterSession, KeepsUp, StreamInv, SlotsInv, TypeOK
  <2> QED
    BY <1>1, <2>1, <2>2 DEF Accept
<1>5. ASSUME next = sent PROVE Arriving'
  <2>1. ~Late(d)
    <3>1. Off(sent, sent) = 0
      BY KeptSlots, OffRange
    <3> QED
      BY <1>2, <1>3, <1>5, <3>1, KeptSlots, NewerOff, StreamNumbers DEF Late
  <2>2. Holders(d) # {} \/ FreeSlots(d) # {}
    <3>1. PICK s \in Slots : TRUE
      BY PipeAssumption DEF PipeAssumption
    <3> QED
      BY <1>2, <1>3, <1>5, <3>1, KeptSlots DEF Holders, FreeSlots
  <2>3. StoreShard(d)
    BY <1>1, <1>2, <2>1, <2>2, StreamAssumption
    DEF Accept, DropLate, DropNoSlot, DropUnfit, StreamAssumption
  <2>4. PICK s \in SlotFor(d) : frames' = [frames EXCEPT ![s] = Filled(FrameAt(s, d), d)]
    BY <1>3, <2>3 DEF StoreShard
  <2> DEFINE f == FrameAt(s, d)
  <2>5. s \in Slots /\ (frames[s] # NoFrame => f = frames[s]) /\ f \in Frame
    BY <1>3, <1>5, KeptSlots, FreshType DEF SlotFor, Holders, FreeSlots, FrameAt
  <2>6. /\ f.present \subseteq Filled(f, d).present /\ Filled(f, d) # NoFrame
        /\ IsData(d) => <<d.group, d.shard>> \in Filled(f, d).present
    BY <2>5, FilledGrows, FilledType, PipeAssumption DEF PipeAssumption
  <2> HIDE DEF f
  <2>7. frames'[s] = Filled(f, d) /\ \A t \in Slots \ {s} : frames'[t] = frames[t]
    BY <2>4, <2>5 DEF StreamInv, SlotsInv, TypeOK, f
  <2>8. ASSUME NEW c \in Cells, c = <<d.group, d.shard>>
        PROVE  frames'[s] # NoFrame /\ c \in frames'[s].present
    <3>1. PICK g \in Groups : c \in {g} \X (0 .. Shape[g] - 1)
      BY DEF Cells, GroupCells
    <3>2. d.group = g /\ d.shard \in 0 .. Shape[g] - 1
      BY <2>8, <3>1
    <3>3. Shape[g] \in Nat
      BY PipeAssumption DEF PipeAssumption
    <3>4. IsData(d)
      BY <3>2, <3>3 DEF IsData
    <3> QED
      BY <2>6, <2>7, <2>8, <3>4
  <2>9. ASSUME NEW c \in Cells, NEW t \in Slots, frames[t] # NoFrame, c \in frames[t].present
        PROVE  frames'[t] # NoFrame /\ c \in frames'[t].present
    <3>1. CASE t = s
      BY <2>5, <2>6, <2>7, <2>9, <3>1
    <3>2. CASE t # s
      BY <2>7, <2>9, <3>2
    <3> QED
      BY <3>1, <3>2
  <2>10. Arriving
    <3>1. Edge # sent
      BY KeptSlots, OffRange
    <3> QED
      BY <1>5, <3>1 DEF KeepsUp
  <2>11. ASSUME NEW c \in Cells
         PROVE  \/ \E x \in flight' : c = <<x.group, x.shard>>
                \/ \E t \in Slots : frames'[t] # NoFrame /\ c \in frames'[t].present
    <3>1. CASE c = <<d.group, d.shard>>
      BY <2>5, <2>8, <3>1
    <3>2. CASE c # <<d.group, d.shard>>
      BY <1>1, <2>9, <2>10, <3>2 DEF Arriving
    <3> QED
      BY <3>1, <3>2
  <2> QED
    BY <2>11 DEF Arriving
<1> QED
  BY <1>1, <1>4, <1>5 DEF KeepsUp

\* The receiver between two datagrams: it gives out the unit that is complete, or waits.
LEMMA ReceiverKeeps ==
  ASSUME StreamInv, KeepsUp, Receiver
  PROVE  KeepsUp'
<1>1. UNCHANGED <<stream, sent, flight, reliable, Edge, New>>
  BY DEF Receiver, senderVars, Edge, New
<1>2. ASSUME UNCHANGED <<session, next, needKey, frames>>,
             pc' = "ready" \/ ReadySlots = {}
      PROVE  KeepsUp'
  BY <1>1, <1>2 DEF KeepsUp, Arriving, ReadySlots, Expected
<1>3. CASE PollIdle \/ NothingReady
  BY <1>2, <1>3 DEF PollIdle, NothingReady, slotVars, flagVars
<1>4. CASE Decode
  BY <1>2, <1>4 DEF Decode, slotVars, KeepsUp
<1>5. CASE SkipToNewest
  BY <1>5, KeptSlots DEF SkipToNewest
<1>6. ASSUME NEW s \in Slots, DropUndecodable(s) \/ Deliver(s) PROVE KeepsUp'
  <2>1. Deliver(s)
    BY <1>6 DEF DropUndecodable, KeepsUp
  <2>2. /\ s \in ReadySlots /\ frames' = [frames EXCEPT ![s] = NoFrame]
        /\ next' = Succ(next) /\ session' = session /\ ~needKey'
    BY <2>1 DEF Deliver
  <2>3. frames[s] # NoFrame /\ next = sent /\ next' = Edge
    BY <2>2, KeptSlots DEF ReadySlots, Expected, KeepsUp, Edge
  <2>4. \A t \in Slots : frames'[t] = NoFrame
    <3>1. \A t \in Slots \ {s} : frames[t] = NoFrame
      BY <2>3, KeptSlots DEF StreamInv, SlotsInv, Tidy
    <3> QED
      BY <2>2, <3>1 DEF StreamInv, SlotsInv, TypeOK
  <2>5. ReadySlots' = {}
    BY <2>4 DEF ReadySlots, Expected
  <2>6. next' # NoId
    BY <2>3, KeptSlots, Numbers
  <2> QED
    BY <1>1, <2>2, <2>3, <2>5, <2>6 DEF KeepsUp
<1> QED
  BY <1>3, <1>4, <1>5, <1>6 DEF Receiver, ReadyStep

LEMMA NextKeeps == StreamInv /\ KeepsUp /\ [StreamNext]_streamVars => KeepsUp'
<1> SUFFICES ASSUME StreamInv, KeepsUp, [StreamNext]_streamVars PROVE KeepsUp'
  OBVIOUS
<1>1. reliable
  BY DEF KeepsUp
<1>2. CASE UNCHANGED streamVars
  BY <1>2 DEF streamVars, vars, slotVars, flagVars, senderVars, KeepsUp, Arriving, New, Edge,
              ReadySlots, Expected
<1> QED
  BY <1>1, <1>2, PeriodKeeps, ReceiveKeeps, ReceiverKeeps
  DEF StreamNext, PeriodInOutage, ReceiverRestarts, EncoderRestarts, Settle

\* Once the pipe has given out all that was sent on a reliable network, it never waits for
\* a keyframe again: no later loss is made up of what the outage left behind, and each
\* access unit is complete, in its slot, before the next is sent (pipe.c:75,193-209).
THEOREM GapsDoNotBreed == StreamSpec => NoNewGaps
<1>1. StreamInv /\ CaughtUp => KeepsUp
  <2> SUFFICES ASSUME StreamInv, CaughtUp PROVE KeepsUp
    OBVIOUS
  <2>1. next = Edge /\ next \in Ids /\ next # NoId
    BY SuccValue, Numbers DEF CaughtUp, Edge, StreamInv, SentInv
  <2>2. Behind = 0
    BY <2>1, OffRange, LagBounded DEF CaughtUp
  <2>3. \A s \in Slots : frames[s] = NoFrame
    BY <2>1, <2>2, LagSlots DEF CaughtUp
  <2> QED
    BY <2>1, <2>3 DEF CaughtUp, KeepsUp, New, ReadySlots, Expected
<1>2. KeepsUp => ~needKey
  BY DEF KeepsUp
<1> QED
  BY <1>1, <1>2, NextKeeps, AlwaysStreamInv, PTL DEF StreamSpec, NoNewGaps
=============================================================================

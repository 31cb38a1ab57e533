-------------------------- MODULE FramePipeProofs --------------------------
(***************************************************************************)
(* Proofs about FramePipe for every number of slots, shape of frame, size  *)
(* of the identifier space and behaviour of the network.                   *)
(***************************************************************************)
EXTENDS FramePipe, FiniteSetTheorems, TLAPS

\* Identifiers wrap around inside their range.
LEMMA SuccType == ASSUME NEW i \in Int PROVE Succ(i) \in Ids
BY PipeAssumption DEF PipeAssumption, Succ, Ids

LEMMA DeadlinePositive == Deadline \in Nat \ {0}
BY PipeAssumption DEF PipeAssumption

\* An age never passes the deadline.
LEMMA AgedType == ASSUME NEW t \in 0 .. Deadline PROVE Aged(t) \in 0 .. Deadline
BY PipeAssumption DEF PipeAssumption, Aged

LEMMA CellsOfGroup ==
  ASSUME NEW g \in Groups
  PROVE  /\ GroupCells(g) \subseteq Cells
         /\ IsFiniteSet(GroupCells(g))
<1>1. GroupCells(g) \subseteq Cells
  BY DEF Cells
<1>2. IsFiniteSet({g})
  BY FS_Singleton
<1>3. Shape[g] \in Nat \ {0}
  BY PipeAssumption DEF PipeAssumption
<1>4. IsFiniteSet(0 .. Shape[g] - 1)
  BY <1>3, FS_Interval
<1>5. IsFiniteSet(GroupCells(g))
  BY <1>2, <1>4, FS_Product DEF GroupCells
<1> QED
  BY <1>1, <1>5

\* The updates accept_datagram and ready_frame make leave a frame a frame.
LEMMA PresentUpdate ==
  ASSUME NEW f \in Frame, NEW p \in SUBSET Cells, NEW n \in Nat
  PROVE  [f EXCEPT !.present = p, !.received = n] \in Frame
BY DEF Frame

LEMMA ParityUpdate ==
  ASSUME NEW f \in Frame, NEW q \in SUBSET (Groups \X Parities)
  PROVE  [f EXCEPT !.parity = q] \in Frame
BY DEF Frame

LEMMA AgeUpdate ==
  ASSUME NEW f \in Frame
  PROVE  [f EXCEPT !.age = Aged(@)] \in Frame
<1>1. ASSUME NEW a \in 0 .. Deadline PROVE [f EXCEPT !.age = a] \in Frame
  BY DEF Frame
<1>2. Aged(f.age) \in 0 .. Deadline
  BY AgedType DEF Frame
<1> QED
  BY <1>1, <1>2

\* A shard is stored in the frame it belongs to, and the frame stays a frame.
LEMMA WithDataType ==
  ASSUME NEW f \in Frame, NEW c \in Cells
  PROVE  WithData(f, c) \in Frame
<1>1. f.present \cup {c} \in SUBSET Cells /\ f.received + 1 \in Nat
  BY DEF Frame
<1>2. [f EXCEPT !.present = f.present \cup {c}, !.received = f.received + 1] \in Frame
  BY <1>1, PresentUpdate
<1> QED
  BY <1>2 DEF WithData

LEMMA MissingFinite ==
  ASSUME NEW f \in Frame, NEW g \in Groups
  PROVE  /\ Missing(f, g) \subseteq Cells /\ IsFiniteSet(Missing(f, g))
         /\ Cardinality(Missing(f, g)) \in Nat
<1>1. IsFiniteSet(Missing(f, g)) /\ Missing(f, g) \subseteq Cells
  BY CellsOfGroup, FS_Subset DEF Missing
<1> QED
  BY <1>1, FS_CardinalityType

LEMMA RecoverGroupType ==
  ASSUME NEW f \in Frame, NEW g \in Groups
  PROVE  RecoverGroup(f, g) \in Frame
<1> DEFINE M == Missing(f, g)
<1>1. f.present \cup M \in SUBSET Cells /\ f.received + Cardinality(M) \in Nat
  BY MissingFinite DEF Frame
<1>2. [f EXCEPT !.present = f.present \cup M,
                !.received = f.received + Cardinality(M)] \in Frame
  BY <1>1, PresentUpdate
<1> QED
  BY <1>2 DEF RecoverGroup

LEMMA FilledType ==
  ASSUME NEW f \in Frame, NEW d \in Datagrams
  PROVE  Filled(f, d) \in Frame
<1>1. d \in Datagram /\ d.shard < Shape[d.group] + 2 /\ Shape[d.group] \in Nat \ {0}
  BY PipeAssumption DEF PipeAssumption, Datagram
<1>2. CASE IsData(d)
  <2>1. <<d.group, d.shard>> \in Cells
    <3>1. d.group \in Groups /\ d.shard \in 0 .. Shape[d.group] - 1
      BY <1>1, <1>2 DEF Datagram, IsData
    <3>2. <<d.group, d.shard>> \in GroupCells(d.group)
      BY <3>1 DEF GroupCells
    <3> QED
      BY <3>1, <3>2, CellsOfGroup
  <2> QED
    BY <1>2, <2>1, WithDataType DEF Filled
<1>3. CASE ~IsData(d)
  <2>1. d.group \in Groups /\ d.shard - Shape[d.group] \in Parities
    BY <1>1, <1>3 DEF Datagram, IsData, Parities
  <2> DEFINE q == f.parity \cup {<<d.group, d.shard - Shape[d.group]>>}
             h == [f EXCEPT !.parity = q]
  <2>2. h \in Frame
    <3>1. q \in SUBSET (Groups \X Parities)
      BY <2>1 DEF Frame
    <3> QED
      BY <3>1, ParityUpdate
  <2>3. RecoverGroup(h, d.group) \in Frame
    BY <2>1, <2>2, RecoverGroupType
  <2> QED
    BY <1>3, <2>3 DEF Filled, WithParity
<1> QED
  BY <1>2, <1>3

\* Storing a shard leaves the frame in its session.
LEMMA FilledSession ==
  ASSUME NEW f \in Frame, NEW d \in Datagrams
  PROVE  Filled(f, d).session = f.session
BY DEF Filled, WithData, WithParity, RecoverGroup, Frame

LEMMA FreshType ==
  ASSUME NEW d \in Datagrams
  PROVE  Fresh(d) \in Frame
BY PipeAssumption DEF PipeAssumption, Fresh, Frame, Datagram

----------------------------------------------------------------------------
(* Type correctness.                                                        *)

LEMMA InitTypeOK == Init => TypeOK
<1> SUFFICES ASSUME Init PROVE TypeOK
  OBVIOUS
<1>1. pc \in {"poll", "ready", "decode"} /\ session \in Sessions \cup {NoSession}
  BY DEF Init
<1>2. frames \in [Slots -> Frame \cup {NoFrame}]
  BY DEF Init
<1>3. /\ next \in Ids \cup {NoId} /\ newest \in Ids \cup {NoId}
      /\ nextWait \in 0 .. Deadline
  BY DeadlinePositive DEF Init
<1>4. /\ needKey \in BOOLEAN /\ discontinuity \in BOOLEAN /\ decoderReset \in BOOLEAN
  BY DEF Init
<1>5. out \in (IF pc = "decode" THEN Packet ELSE {NoPacket})
  BY DEF Init
<1>6. ref \in Packet \cup {NoPacket} /\ held \in SUBSET Sessions
  BY DEF Init
<1> QED
  BY <1>1, <1>2, <1>3, <1>4, <1>5, <1>6 DEF TypeOK

LEMMA AcceptTypeOK ==
  ASSUME TypeOK, NEW d \in Datagrams, Accept(d)
  PROVE  TypeOK'
<1>1. d \in Datagram
  BY PipeAssumption DEF PipeAssumption
<1>2. LiveFrames(d) \in [Slots -> Frame \cup {NoFrame}]
  BY DEF TypeOK, LiveFrames
<1>3. LiveNext(d) \in Ids \cup {NoId} /\ LiveNewest(d) \in Ids \cup {NoId}
  BY DEF TypeOK, LiveNext, LiveNewest
<1>4. ASSUME NEW s \in Slots
      PROVE  FrameAt(s, d) \in Frame
  BY <1>2, FreshType DEF FrameAt
<1>5. SlotFor(d) \subseteq Slots
  BY DEF SlotFor, Holders, FreeSlots
<1>6. frames' \in [Slots -> Frame \cup {NoFrame}] /\ newest' \in Ids \cup {NoId}
  <2>1. CASE DropLate(d)
    BY <2>1 DEF DropLate, TypeOK
  <2>2. CASE DropNoSlot(d)
    BY <2>2, <1>2, <1>3 DEF DropNoSlot
  <2>3. CASE DropUnfit(d)
    BY <2>3, <1>2, <1>3, <1>4, <1>5 DEF DropUnfit
  <2>4. CASE StoreShard(d)
    <3>1. ASSUME NEW s \in Slots
          PROVE  Filled(FrameAt(s, d), d) \in Frame
      BY <1>4, FilledType
    <3>2. d.id \in Ids
      BY <1>1 DEF Datagram
    <3> QED
      BY <2>4, <1>2, <1>3, <1>5, <3>1, <3>2 DEF StoreShard, NewestWith
  <2> QED
    BY <2>1, <2>2, <2>3, <2>4 DEF Accept
<1>7. /\ session' \in Sessions /\ next' \in Ids \cup {NoId}
      /\ nextWait' \in 0 .. Deadline
      /\ needKey' \in BOOLEAN /\ discontinuity' \in BOOLEAN /\ decoderReset' \in BOOLEAN
  BY <1>1, PipeAssumption
  DEF Accept, EnterSession, TypeOK, Datagram, PipeAssumption, LiveNext, Switches
<1> QED
  BY <1>6, <1>7 DEF Accept, TypeOK, decoderVars

LEMMA ReadyTypeOK == TypeOK /\ ReadyStep => TypeOK'
<1> SUFFICES ASSUME TypeOK, ReadyStep PROVE TypeOK'
  OBVIOUS
<1>1. ASSUME NEW s \in Slots, DropUndecodable(s) PROVE TypeOK'
  <2>1. next \in Int
    BY DEF TypeOK, Ids, NoId
  <2> QED
    BY <1>1, <2>1, SuccType, PipeAssumption
    DEF DropUndecodable, TypeOK, PipeAssumption, flagVars, decoderVars
<1>2. ASSUME NEW s \in Slots, Deliver(s) PROVE TypeOK'
  <2>1. next \in Int
    BY DEF TypeOK, Ids, NoId
  <2>2. frames[s] \in Frame
    BY <1>2 DEF Deliver, ReadySlots, Expected, TypeOK
  <2>3. out' \in Packet
    BY <1>2, <2>2 DEF Deliver, Packet, Frame
  <2> QED
    <3>1. /\ frames' \in [Slots -> Frame \cup {NoFrame}]
          /\ needKey' = FALSE /\ pc' = "decode"
          /\ UNCHANGED <<session, newest, discontinuity, decoderReset, ref, held>>
      BY <1>2 DEF Deliver, TypeOK, decoderVars
    <3>2. next' \in Ids /\ nextWait' \in 0 .. Deadline
      BY <1>2, <2>1, SuccType, DeadlinePositive DEF Deliver
    <3> QED
      BY <2>3, <3>1, <3>2 DEF TypeOK
<1>3. CASE SkipToNewest
  BY <1>3, PipeAssumption DEF SkipToNewest, SkippedFrames, ResumeAt, BreakContinuity, TypeOK, PipeAssumption, decoderVars
<1>4. CASE NothingReady
  BY <1>4 DEF NothingReady, TypeOK, slotVars, flagVars, decoderVars
<1> QED
  BY <1>1, <1>2, <1>3, <1>4 DEF ReadyStep

LEMMA TickTypeOK == TypeOK /\ Tick => TypeOK'
<1> SUFFICES ASSUME TypeOK, Tick PROVE TypeOK'
  OBVIOUS
<1>1. frames' \in [Slots -> Frame \cup {NoFrame}]
  <2>1. ASSUME NEW s \in Slots, frames[s] # NoFrame
        PROVE  [frames[s] EXCEPT !.age = Aged(@)] \in Frame
    BY <2>1, AgeUpdate DEF TypeOK
  <2> QED
    BY <2>1 DEF Tick
<1> QED
  BY <1>1, AgedType DEF Tick, TypeOK, flagVars, decoderVars

LEMMA NextTypeOK == TypeOK /\ [Next]_vars => TypeOK'
<1> SUFFICES ASSUME TypeOK, [Next]_vars PROVE TypeOK'
  OBVIOUS
<1>1. ASSUME NEW d \in Datagrams, Accept(d) PROVE TypeOK'
  BY <1>1, AcceptTypeOK
<1>2. CASE PollIdle
  BY <1>2 DEF PollIdle, TypeOK, slotVars, flagVars, decoderVars
<1>3. CASE ReadyStep
  BY <1>3, ReadyTypeOK
<1>4. CASE Decode
  <2>1. frames' = frames /\ UNCHANGED <<session, next, newest, nextWait, needKey>>
    BY <1>4 DEF Decode, slotVars
  <2>2. out.session \in Sessions
    BY <1>4 DEF TypeOK, Packet, Decode
  <2> QED
    BY <1>4, <2>1, <2>2 DEF Decode, TypeOK
<1>5. CASE Reopen
  <2>1. Init'
    BY <1>5 DEF Reopen, Init
  <2> QED
    BY <2>1, InitTypeOK, PTL
<1>6. CASE Tick
  BY <1>6, TickTypeOK
<1>7. CASE UNCHANGED vars
  BY <1>7 DEF vars, TypeOK, slotVars, flagVars, decoderVars
<1> QED
  BY <1>1, <1>2, <1>3, <1>4, <1>5, <1>6, <1>7 DEF Next

\* Every variable of the pipe keeps its type, whatever datagrams arrive.
THEOREM TypeCorrect == Spec => []TypeOK
BY InitTypeOK, NextTypeOK, PTL DEF Spec

----------------------------------------------------------------------------
(* Continuity: what the decoder is fed.                                     *)

DecoderSafety ==
  TypeOK /\ ContinuityInv /\ ChainUnbroken /\ SessionsNeverMix /\ GapAnnounced

LEMMA AtMostOne ==
  ASSUME NEW S, \A x, y \in S : x = y
  PROVE  Cardinality(S) <= 1
<1>1. CASE S = {}
  BY <1>1, FS_EmptySet
<1>2. CASE S # {}
  <2>1. PICK x \in S : TRUE
    BY <1>2
  <2>2. S = {x}
    BY <2>1
  <2> QED
    BY <2>2, FS_Singleton
<1> QED
  BY <1>1, <1>2

LEMMA SessionIsPositive ==
  Sessions \subseteq Nat /\ NoSession \notin Sessions
BY PipeAssumption DEF PipeAssumption

LEMMA InitContinuity == Init => ContinuityInv
BY DEF Init, ContinuityInv

\* After the session check every frame is of the datagram's session.
LEMMA LiveSession ==
  ASSUME TypeOK, ContinuityInv, NEW d \in Datagrams
  PROVE  \A s \in Slots : LiveFrames(d)[s] # NoFrame => LiveFrames(d)[s].session = d.session
<1>1. CASE Switches(d)
  BY <1>1 DEF LiveFrames
<1>2. CASE session = NoSession
  <2>1. \A s \in Slots : frames[s] = NoFrame
    BY <1>2, SessionIsPositive DEF TypeOK, ContinuityInv, Frame
  <2> QED
    BY <2>1, <1>2 DEF LiveFrames, Switches
<1>3. CASE session = d.session
  BY <1>3 DEF LiveFrames, Switches, ContinuityInv
<1> QED
  BY <1>1, <1>2, <1>3 DEF Switches

LEMMA AcceptContinuity ==
  ASSUME TypeOK, ContinuityInv, NEW d \in Datagrams, Accept(d)
  PROVE  ContinuityInv'
<1>1. d.session \in Sessions /\ d.session # NoSession /\ d.id # NoId
  BY PipeAssumption, SessionIsPositive DEF PipeAssumption, Datagram, Ids, NoId
<1>2. pc = "poll" /\ pc' = "ready" /\ session' = d.session
  BY DEF Accept, EnterSession
<1>3. UNCHANGED <<out, ref, held>>
  BY DEF Accept, decoderVars
<1>4. \A s \in Slots : frames'[s] # NoFrame => frames'[s].session = session'
  <2>1. \A s \in Slots : LiveFrames(d)[s] # NoFrame => LiveFrames(d)[s].session = d.session
    BY LiveSession
  <2>2. LiveFrames(d) \in [Slots -> Frame \cup {NoFrame}]
    BY DEF TypeOK, LiveFrames
  <2>3. CASE DropLate(d)
    <3>1. LiveFrames(d) = frames
      BY <2>3 DEF DropLate, Late, LiveNext, LiveFrames
    <3> QED
      BY <2>3, <2>1, <1>2, <3>1 DEF DropLate
  <2>4. CASE DropNoSlot(d)
    BY <2>4, <2>1, <1>2 DEF DropNoSlot
  <2>5. ASSUME NEW s \in Slots
        PROVE  FrameAt(s, d).session = d.session /\ FrameAt(s, d) \in Frame
    BY <2>1, <2>2, FreshType DEF FrameAt, Fresh
  <2>6. SlotFor(d) \subseteq Slots
    BY DEF SlotFor, Holders, FreeSlots
  <2>7. CASE DropUnfit(d)
    BY <2>7, <2>1, <2>2, <2>5, <2>6, <1>2 DEF DropUnfit
  <2>8. CASE StoreShard(d)
    <3>1. ASSUME NEW s \in Slots
          PROVE  Filled(FrameAt(s, d), d).session = d.session
      BY <2>5, FilledSession
    <3> QED
      BY <2>8, <2>1, <2>2, <2>6, <3>1, <1>2 DEF StoreShard, NewestWith
  <2> QED
    BY <2>3, <2>4, <2>7, <2>8 DEF Accept
<1>5. CASE session # d.session
  <2>1. needKey' /\ discontinuity'
    BY <1>5 DEF Accept, EnterSession
  <2>2. decoderReset' \/ held \subseteq {d.session}
    BY <1>5 DEF Accept, EnterSession, Switches, ContinuityInv
  <2> QED
    BY <1>1, <1>2, <1>3, <1>4, <2>1, <2>2 DEF ContinuityInv
<1>6. CASE session = d.session
  <2>1. /\ needKey' = needKey /\ discontinuity' = discontinuity
        /\ decoderReset' = decoderReset
        /\ LiveNext(d) = next
    BY <1>6 DEF Accept, EnterSession, Switches, TypeOK, LiveNext
  <2>2. ~needKey => next # NoId /\ next' = next
    <3>1. ASSUME ~needKey PROVE next \in Nat
      <4>1. ref # NoPacket /\ next = Succ(ref.id)
        BY <3>1, <1>1, <1>2, <1>6 DEF ContinuityInv
      <4>2. ref.id \in Int
        BY <4>1 DEF TypeOK, Packet, Ids
      <4> QED
        BY <4>1, <4>2, SuccType DEF Ids
    <3> QED
      BY <3>1, <2>1 DEF NoId, Accept, EnterSession
  <2> QED
    BY <1>1, <1>2, <1>3, <1>4, <1>6, <2>1, <2>2 DEF ContinuityInv
<1> QED
  BY <1>5, <1>6

LEMMA DropUndecodableContinuity ==
  ASSUME TypeOK, ContinuityInv, NEW s \in Slots, DropUndecodable(s)
  PROVE  ContinuityInv'
<1>1. /\ pc = "ready" /\ needKey
      /\ UNCHANGED <<pc, session, needKey, discontinuity, decoderReset, out, ref, held>>
  BY DEF DropUndecodable, flagVars, decoderVars
<1>2. frames[s] # NoFrame /\ frames[s].session = session
  BY DEF DropUndecodable, ReadySlots, Expected, ContinuityInv
<1>3. session # NoSession
  BY <1>2, SessionIsPositive DEF TypeOK, Frame
<1>4. \A t \in Slots : frames'[t] # NoFrame => frames'[t].session = session
  BY DEF DropUndecodable, TypeOK, ContinuityInv
<1> QED
  BY <1>1, <1>3, <1>4 DEF ContinuityInv

LEMMA DeliverContinuity ==
  ASSUME TypeOK, ContinuityInv, NEW s \in Slots, Deliver(s)
  PROVE  ContinuityInv' /\ ChainUnbroken' /\ GapAnnounced'
<1>1. /\ pc = "ready" /\ pc' = "decode" /\ ~needKey'
      /\ UNCHANGED <<session, discontinuity, decoderReset, ref, held>>
  BY DEF Deliver, decoderVars
<1>2. frames[s] \in Frame /\ frames[s].session = session /\ frames[s].id = next
  BY DEF Deliver, ReadySlots, Expected, ContinuityInv, TypeOK
<1>3. session # NoSession
  BY <1>2, SessionIsPositive DEF Frame
<1>4. /\ out'.session = session /\ out'.id = next /\ out'.key = frames[s].key
      /\ next' = Succ(next)
  BY <1>2 DEF Deliver
<1>5. \A t \in Slots : frames'[t] # NoFrame => frames'[t].session = session
  BY DEF Deliver, TypeOK, ContinuityInv
<1>6. ContinuityInv'
  BY <1>1, <1>3, <1>4, <1>5 DEF ContinuityInv
<1>7. CASE needKey
  <2>1. out'.key /\ discontinuity'
    BY <1>1, <1>4, <1>7 DEF Deliver, ContinuityInv
  <2> QED
    BY <1>6, <2>1 DEF ChainUnbroken, GapAnnounced
<1>8. CASE ~needKey
  <2>1. ref # NoPacket /\ ref.session = session /\ next = Succ(ref.id) /\ ~decoderReset
    BY <1>1, <1>3, <1>8 DEF ContinuityInv
  <2>2. Follows(out', ref) /\ ~decoderReset
    BY <1>4, <2>1 DEF Follows
  <2>3. Follows(out', ref') /\ ~decoderReset'
    BY <1>1, <2>2
  <2> QED
    BY <1>6, <2>3 DEF ChainUnbroken, GapAnnounced
<1> QED
  BY <1>7, <1>8 DEF TypeOK

LEMMA SkipContinuity ==
  ASSUME TypeOK, ContinuityInv, SkipToNewest
  PROVE  ContinuityInv'
<1>1. /\ pc = "ready" /\ needKey' /\ discontinuity'
      /\ UNCHANGED <<pc, session, decoderReset, out, ref, held>>
  BY DEF SkipToNewest, SkippedFrames, ResumeAt, BreakContinuity, decoderVars
<1>2. session # NoSession
  BY DEF SkipToNewest, SkippedFrames, ResumeAt, BreakContinuity, Overdue, ContinuityInv
<1>3. \A t \in Slots : frames'[t] # NoFrame => frames'[t].session = session
  BY DEF SkipToNewest, SkippedFrames, ResumeAt, BreakContinuity, ContinuityInv
<1> QED
  BY <1>1, <1>2, <1>3 DEF ContinuityInv

LEMMA DecodeContinuity ==
  ASSUME TypeOK, ContinuityInv, Decode
  PROVE  ContinuityInv' /\ held' = {out.session}
<1>1. /\ pc = "decode" /\ pc' = "poll" /\ ref' = out /\ ~decoderReset' /\ ~needKey
      /\ UNCHANGED <<session, frames, next, needKey>>
  BY DEF Decode, slotVars, ContinuityInv
<1>2. out.session = session /\ next = Succ(out.id) /\ out # NoPacket
  BY <1>1, PipeAssumption DEF ContinuityInv, TypeOK, PipeAssumption
<1>3. session # NoSession
  BY <1>1 DEF ContinuityInv
<1>4. held' = {out.session}
  BY <1>2 DEF Decode, ContinuityInv
<1>5. ContinuityInv'
  BY <1>1, <1>2, <1>3, <1>4 DEF ContinuityInv
<1> QED
  BY <1>4, <1>5

LEMMA TickContinuity ==
  ASSUME TypeOK, ContinuityInv, Tick
  PROVE  ContinuityInv'
<1>1. UNCHANGED <<pc, session, next, needKey, discontinuity, decoderReset, out, ref, held>>
  BY DEF Tick, flagVars, decoderVars
<1>2. \A t \in Slots : frames'[t] # NoFrame => frames'[t].session = session
  <2>1. ASSUME NEW t \in Slots, frames'[t] # NoFrame
        PROVE  frames'[t].session = session
    <3>1. frames[t] # NoFrame /\ frames[t] \in Frame /\ frames[t].session = session
      BY <2>1 DEF Tick, TypeOK, ContinuityInv
    <3>2. frames'[t] = [frames[t] EXCEPT !.age = Aged(@)]
      BY <2>1, <3>1 DEF Tick
    <3> QED
      BY <3>1, <3>2 DEF Frame
  <2> QED
    BY <2>1
<1> QED
  BY <1>1, <1>2 DEF ContinuityInv

\* Every step keeps the invariant and establishes what the decoder relies on.
LEMMA NextContinuity ==
  ASSUME DecoderSafety, [Next]_vars
  PROVE  ContinuityInv' /\ ChainUnbroken' /\ GapAnnounced'
<1> USE DEF DecoderSafety
<1>1. ASSUME NEW d \in Datagrams, Accept(d) PROVE ContinuityInv' /\ pc' # "decode"
  BY <1>1, AcceptContinuity DEF Accept
<1>2. CASE PollIdle
  BY <1>2 DEF PollIdle, ContinuityInv, ChainUnbroken, GapAnnounced, slotVars, flagVars,
              decoderVars
<1>3. ASSUME NEW s \in Slots, DropUndecodable(s) PROVE ContinuityInv' /\ pc' # "decode"
  BY <1>3, DropUndecodableContinuity DEF DropUndecodable
<1>4. ASSUME NEW s \in Slots, Deliver(s)
      PROVE  ContinuityInv' /\ ChainUnbroken' /\ GapAnnounced'
  BY <1>4, DeliverContinuity
<1>5. CASE SkipToNewest
  BY <1>5, SkipContinuity DEF SkipToNewest, ResumeAt, BreakContinuity, ChainUnbroken, GapAnnounced
<1>6. CASE NothingReady
  BY <1>6 DEF NothingReady, ContinuityInv, ChainUnbroken, GapAnnounced, slotVars,
              flagVars, decoderVars
<1>7. CASE Decode
  BY <1>7, DecodeContinuity DEF Decode, ChainUnbroken, GapAnnounced
<1>8. CASE Reopen
  <2>1. Init'
    BY <1>8 DEF Reopen, Init
  <2>2. ContinuityInv'
    BY <2>1, InitContinuity, PTL
  <2> QED
    BY <1>8, <2>2 DEF Reopen, ChainUnbroken, GapAnnounced
<1>9. CASE Tick
  BY <1>9, TickContinuity
  DEF Tick, ChainUnbroken, GapAnnounced, flagVars, decoderVars, Follows
<1>10. CASE UNCHANGED vars
  BY <1>10 DEF vars, ContinuityInv, ChainUnbroken, GapAnnounced, slotVars, flagVars,
               decoderVars, Follows
<1> QED
  BY <1>1, <1>2, <1>3, <1>4, <1>5, <1>6, <1>7, <1>8, <1>9, <1>10
  DEF Next, ReadyStep, ChainUnbroken, GapAnnounced

LEMMA MixedNever == ContinuityInv => SessionsNeverMix
<1> SUFFICES ASSUME ContinuityInv PROVE SessionsNeverMix
  OBVIOUS
<1>1. Cardinality(held) <= 1
  BY AtMostOne DEF ContinuityInv
<1> QED
  BY <1>1 DEF ContinuityInv, SessionsNeverMix

LEMMA DecoderSafetyInductive ==
  /\ Init => DecoderSafety
  /\ DecoderSafety /\ [Next]_vars => DecoderSafety'
<1>1. Init => DecoderSafety
  BY InitTypeOK, InitContinuity, MixedNever
  DEF Init, DecoderSafety, ChainUnbroken, GapAnnounced
<1>2. ContinuityInv' => SessionsNeverMix'
  BY MixedNever, PTL
<1>3. DecoderSafety /\ [Next]_vars => DecoderSafety'
  BY <1>2, NextTypeOK, NextContinuity DEF DecoderSafety
<1> QED
  BY <1>1, <1>3

LEMMA AlwaysDecoderSafety == Spec => []DecoderSafety
BY DecoderSafetyInductive, PTL DEF Spec

\* Whatever the network does, an access unit that is no keyframe reaches the
\* decoder only right after its predecessor, with no flush in between.
THEOREM Continuity == Spec => []ChainUnbroken
BY AlwaysDecoderSafety, PTL DEF DecoderSafety

\* The decoder never holds access units of two sessions.
THEOREM OneSessionAtATime == Spec => []SessionsNeverMix
BY AlwaysDecoderSafety, PTL DEF DecoderSafety

\* A frame that does not continue the one before it comes with a discontinuity.
THEOREM GapsAnnounced == Spec => []GapAnnounced
BY AlwaysDecoderSafety, PTL DEF DecoderSafety

----------------------------------------------------------------------------
(* Refinement: pipe and consumer implement the decoder's contract.          *)

LEMMA InitFeeds == Init => Feed!Init
BY DEF Init, Feed!Init

LEMMA DecodeFeeds ==
  ASSUME DecoderSafety, Decode
  PROVE  Feed!Feed(out, decoderReset) /\ out \in Feed!Packet /\ decoderReset \in BOOLEAN
<1>1. pc = "decode" /\ ref' = out
  BY DEF Decode
<1>2. out \in Packet
  BY <1>1 DEF DecoderSafety, TypeOK
<1>3. out.key \/ (Feed!Follows(out, ref) /\ ~decoderReset)
  BY <1>1 DEF DecoderSafety, ChainUnbroken, Follows, Feed!Follows, Succ
<1>4. decoderReset \/ held \subseteq {out.session}
  BY <1>1 DEF DecoderSafety, SessionsNeverMix
<1>5. held' = {out.session}
  BY DecodeContinuity DEF DecoderSafety
<1> QED
  BY <1>1, <1>2, <1>3, <1>4, <1>5
  DEF Feed!Feed, Feed!Packet, Feed!Ids, Packet, Ids, DecoderSafety, TypeOK

LEMMA StepFeeds == DecoderSafety /\ [Next]_vars => [Feed!Next]_<<ref, held>>
<1> SUFFICES ASSUME DecoderSafety, [Next]_vars
             PROVE  Feed!Next \/ UNCHANGED <<ref, held>>
  OBVIOUS
<1>1. CASE Decode
  BY <1>1, DecodeFeeds DEF Feed!Next
<1>2. CASE Reopen
  BY <1>2 DEF Reopen, Feed!Next, Feed!Reopen
<1>3. CASE ~Decode /\ ~Reopen
  BY <1>3 DEF Next, ReadyStep, Accept, PollIdle, DropUndecodable, Deliver, SkipToNewest,
              NothingReady, Tick, vars, decoderVars
<1> QED
  BY <1>1, <1>2, <1>3

\* FramePipe implements DecoderFeed: only keyframes start or restart the decoder,
\* and only a flush lets another session in.
THEOREM FeedsTheDecoder == Spec => FeedsDecoder
<1>1. DecoderSafety /\ [Next]_vars => [Feed!Next]_Feed!feedVars
  BY StepFeeds DEF Feed!feedVars
<1> QED
  BY <1>1, InitFeeds, AlwaysDecoderSafety, PTL DEF Spec, FeedsDecoder, Feed!Spec

----------------------------------------------------------------------------
(* The slots: which frames they hold, that their counters are right, and    *)
(* that none is kept for good.  Identifiers wrap around, so the argument is *)
(* about how far they are ahead of next_frame.                              *)

\* How far frame i is ahead of frame n, and the farthest that counts as ahead.
Off(i, n) == (i - n) % IdMod
Half == (IdMod - 1) \div 2

Data(f) == f.present # {} \/ f.parity # {}

\* The slots of fr, next_frame n and newest_frame w: no slot is behind next_frame
\* or far ahead, newest_frame is ahead or right behind, and as far as any frame of
\* which a shard has come.
Window(fr, n, w) ==
  /\ n = NoId => w = NoId /\ \A s \in Slots : fr[s] = NoFrame
  /\ w # NoId => Off(w, n) <= Horizon \/ Off(w, n) = IdMod - 1
  /\ \A s \in Slots : fr[s] # NoFrame => Off(fr[s].id, n) <= Horizon
  /\ \A s \in Slots : fr[s] # NoFrame /\ Data(fr[s]) =>
       w # NoId /\ Off(w, n) <= Horizon /\ Off(fr[s].id, n) <= Off(w, n)

WindowInv == Window(frames, next, newest)

Counted(f) == f.received = Cardinality(f.present)

\* The slots of fr hold different frames, each with its counter right.
Tidy(fr) ==
  /\ \A s, t \in Slots : fr[s] # NoFrame /\ fr[t] # NoFrame /\ fr[s].id = fr[t].id => s = t
  /\ \A s \in Slots : fr[s] # NoFrame => Counted(fr[s])

SlotsInv == TypeOK /\ ContinuityInv /\ Tidy(frames) /\ WindowInv

----------------------------------------------------------------------------
(* Identifiers.                                                             *)

LEMMA Numbers ==
  /\ IdMod \in Nat \ {0} /\ Horizon \in Nat /\ Half \in Nat
  /\ Horizon + 1 <= Half /\ 2 * Half < IdMod
  /\ \A i \in Ids : i \in Nat /\ i < IdMod /\ i # NoId
BY PipeAssumption DEF PipeAssumption, Half, Ids, NoId

LEMMA OffValue ==
  ASSUME NEW i \in Ids, NEW n \in Ids
  PROVE  Off(i, n) = IF n <= i THEN i - n ELSE i - n + IdMod
<1>1. IdMod \in Nat \ {0} /\ i \in 0 .. IdMod - 1 /\ n \in 0 .. IdMod - 1
  BY Numbers DEF Ids
<1>2. CASE n <= i
  BY <1>1, <1>2 DEF Off
<1>3. CASE i < n
  BY <1>1, <1>3 DEF Off
<1> QED
  BY <1>1, <1>2, <1>3

LEMMA OffRange ==
  ASSUME NEW i \in Ids, NEW n \in Ids
  PROVE  /\ Off(i, n) \in Nat /\ Off(i, n) < IdMod
         /\ Off(i, n) = 0 <=> i = n
BY OffValue, Numbers

LEMMA SuccValue ==
  ASSUME NEW n \in Ids
  PROVE  Succ(n) \in Ids /\ Succ(n) = IF n + 1 = IdMod THEN 0 ELSE n + 1
<1>1. IdMod \in Nat \ {0} /\ n \in 0 .. IdMod - 1
  BY Numbers DEF Ids
<1>2. CASE n + 1 = IdMod
  BY <1>1, <1>2 DEF Succ, Ids
<1>3. CASE n + 1 < IdMod
  BY <1>1, <1>3 DEF Succ, Ids
<1> QED
  BY <1>1, <1>2, <1>3

\* One frame later every other frame is one step nearer.
LEMMA OffSucc ==
  ASSUME NEW i \in Ids, NEW n \in Ids
  PROVE  Off(i, Succ(n)) = IF i = n THEN IdMod - 1 ELSE Off(i, n) - 1
BY OffValue, SuccValue, Numbers

\* Distances seen from another frame m.
LEMMA OffFrom ==
  ASSUME NEW i \in Ids, NEW n \in Ids, NEW m \in Ids
  PROVE  Off(i, m) = IF Off(m, n) <= Off(i, n) THEN Off(i, n) - Off(m, n)
                     ELSE Off(i, n) - Off(m, n) + IdMod
BY OffValue, Numbers

LEMMA NewerOff ==
  ASSUME NEW i \in Ids, NEW n \in Ids
  PROVE  Newer(i, n) <=> 1 <= Off(i, n) /\ Off(i, n) <= Half
BY OffRange, Numbers DEF Newer, Off, Half

----------------------------------------------------------------------------
(* Counters.                                                                *)

LEMMA CellsFinite == IsFiniteSet(Cells) /\ Cells # {}
<1>1. \A S \in {GroupCells(g) : g \in Groups} : IsFiniteSet(S)
  BY CellsOfGroup
<1>2. IsFiniteSet({GroupCells(g) : g \in Groups})
  <2> DEFINE F == [g \in Groups |-> GroupCells(g)]
  <2>1. F \in Surjection(Groups, {GroupCells(g) : g \in Groups})
    BY DEF Surjection
  <2>2. IsFiniteSet(Groups)
    BY PipeAssumption DEF PipeAssumption
  <2> QED
    BY <2>1, <2>2, FS_Surjection
<1>3. IsFiniteSet(Cells)
  BY <1>1, <1>2, FS_UNION DEF Cells
<1>4. PICK g \in Groups : Shape[g] \in Nat \ {0}
  BY PipeAssumption DEF PipeAssumption
<1>5. <<g, 0>> \in GroupCells(g)
  BY <1>4 DEF GroupCells
<1> QED
  BY <1>3, <1>5, CellsOfGroup

LEMMA PresentFinite == ASSUME NEW f \in Frame PROVE IsFiniteSet(f.present)
BY CellsFinite, FS_Subset DEF Frame

\* A duplicate is not counted twice.
LEMMA WithDataCounts ==
  ASSUME NEW f \in Frame, NEW c \in Cells, Counted(f)
  PROVE  Counted(WithData(f, c))
<1>1. c \notin f.present => Cardinality(f.present \cup {c}) = Cardinality(f.present) + 1
  BY PresentFinite, FS_AddElement
<1> QED
  BY <1>1 DEF WithData, Counted, Frame

\* A recovered shard is counted, one that was there is not.
LEMMA RecoverCounts ==
  ASSUME NEW f \in Frame, NEW g \in Groups, Counted(f)
  PROVE  Counted(RecoverGroup(f, g))
<1> DEFINE M == Missing(f, g)
<1>1. IsFiniteSet(M) /\ IsFiniteSet(f.present) /\ M \cap f.present = {}
  BY MissingFinite, PresentFinite DEF Missing
<1>2. Cardinality(f.present \cap M) = 0
  <2>1. f.present \cap M = {}
    BY <1>1
  <2> QED
    BY <2>1, FS_EmptySet
<1>3. /\ Cardinality(f.present) \in Nat /\ Cardinality(M) \in Nat
      /\ Cardinality(f.present \cup M) = Cardinality(f.present) + Cardinality(M)
                                         - Cardinality(f.present \cap M)
  BY <1>1, FS_Union, FS_CardinalityType
<1>4. Cardinality(f.present \cup M) = Cardinality(f.present) + Cardinality(M)
  <2> HIDE DEF M
  <2> QED
    BY <1>2, <1>3
<1> QED
  BY <1>4 DEF RecoverGroup, Counted, Frame

\* Storing a shard keeps the counter right and the frame what it is.
LEMMA FilledCounts ==
  ASSUME NEW f \in Frame, NEW d \in Datagrams, Counted(f)
  PROVE  Counted(Filled(f, d)) /\ Filled(f, d).id = f.id
<1>1. d \in Datagram /\ d.shard < Shape[d.group] + 2 /\ Shape[d.group] \in Nat \ {0}
  BY PipeAssumption DEF PipeAssumption, Datagram
<1>2. Filled(f, d).id = f.id
  BY DEF Filled, WithData, WithParity, RecoverGroup, Frame
<1>3. CASE IsData(d)
  <2>1. d.group \in Groups /\ <<d.group, d.shard>> \in GroupCells(d.group)
    BY <1>1, <1>3 DEF IsData, GroupCells, Datagram
  <2> QED
    BY <2>1, <1>2, <1>3, CellsOfGroup, WithDataCounts DEF Filled
<1>4. CASE ~IsData(d)
  <2>1. d.group \in Groups /\ d.shard - Shape[d.group] \in Parities
    BY <1>1, <1>4 DEF IsData, Datagram, Parities
  <2> DEFINE h == [f EXCEPT !.parity = @ \cup {<<d.group, d.shard - Shape[d.group]>>}]
  <2>2. f.parity \cup {<<d.group, d.shard - Shape[d.group]>>} \in SUBSET (Groups \X Parities)
    BY <2>1 DEF Frame
  <2>3. h \in Frame /\ Counted(h)
    BY <2>2, ParityUpdate DEF Counted, Frame
  <2>4. Counted(RecoverGroup(h, d.group))
    BY <2>1, <2>3, RecoverCounts
  <2> QED
    BY <1>2, <1>4, <2>4 DEF Filled, WithParity
<1> QED
  BY <1>3, <1>4

\* A complete frame holds a shard.
LEMMA CompleteHasData ==
  ASSUME NEW f \in Frame, Counted(f), Complete(f)
  PROVE  Data(f)
<1>1. Cardinality(Cells) # 0
  BY CellsFinite, FS_EmptySet
<1>2. f.present # {}
  BY <1>1, FS_EmptySet DEF Counted, Complete
<1> QED
  BY <1>2 DEF Data

----------------------------------------------------------------------------
(* What a datagram does to the slots.                                       *)

\* The pipe after the session check: as it was, or empty.
LEMMA LiveSlots ==
  ASSUME SlotsInv, NEW d \in Datagrams
  PROVE  /\ LiveFrames(d) \in [Slots -> Frame \cup {NoFrame}]
         /\ LiveNext(d) \in Ids \cup {NoId} /\ LiveNewest(d) \in Ids \cup {NoId}
         /\ Tidy(LiveFrames(d)) /\ Window(LiveFrames(d), LiveNext(d), LiveNewest(d))
<1>1. CASE Switches(d)
  BY <1>1 DEF LiveFrames, LiveNext, LiveNewest, Tidy, Window
<1>2. CASE ~Switches(d)
  BY <1>2 DEF LiveFrames, LiveNext, LiveNewest, SlotsInv, TypeOK, WindowInv
<1> QED
  BY <1>1, <1>2

\* Another frame f in slot s, of which no other slot is.
LEMMA PutTidy ==
  ASSUME NEW fr \in [Slots -> Frame \cup {NoFrame}], Tidy(fr),
         NEW s \in Slots, NEW f \in Frame, Counted(f),
         \A t \in Slots \ {s} : fr[t] # NoFrame => fr[t].id # f.id
  PROVE  Tidy([fr EXCEPT ![s] = f])
BY DEF Tidy

LEMMA PutWindow ==
  ASSUME NEW fr \in [Slots -> Frame \cup {NoFrame}], NEW n \in Ids,
         NEW w \in Ids \cup {NoId}, NEW v \in Ids \cup {NoId}, Window(fr, n, w),
         NEW s \in Slots, NEW f \in Frame, Off(f.id, n) <= Horizon,
         v # NoId => Off(v, n) <= Horizon \/ Off(v, n) = IdMod - 1,
         \A i \in Ids : w # NoId /\ Off(w, n) <= Horizon /\ Off(i, n) <= Off(w, n) =>
                        v # NoId /\ Off(v, n) <= Horizon /\ Off(i, n) <= Off(v, n),
         Data(f) => v # NoId /\ Off(v, n) <= Horizon /\ Off(f.id, n) <= Off(v, n)
  PROVE  Window([fr EXCEPT ![s] = f], n, v)
<1> DEFINE gr == [fr EXCEPT ![s] = f]
<1>1. \A t \in Slots : gr[t] # NoFrame => Off(gr[t].id, n) <= Horizon
  BY DEF Window
<1>2. ASSUME NEW t \in Slots, gr[t] # NoFrame, Data(gr[t])
      PROVE  v # NoId /\ Off(v, n) <= Horizon /\ Off(gr[t].id, n) <= Off(v, n)
  <2>1. CASE t = s
    BY <2>1, <1>2
  <2>2. CASE t # s
    <3>1. gr[t] = fr[t] /\ fr[t] \in Frame /\ fr[t].id \in Ids
      BY <2>2, <1>2 DEF Frame
    <3>2. w # NoId /\ Off(w, n) <= Horizon /\ Off(fr[t].id, n) <= Off(w, n)
      BY <1>2, <3>1 DEF Window
    <3> QED
      BY <3>1, <3>2
  <2> QED
    BY <2>1, <2>2
<1>3. n # NoId
  BY Numbers
<1> QED
  BY <1>1, <1>2, <1>3 DEF Window

LEMMA SameWindow ==
  ASSUME NEW fr \in [Slots -> Frame \cup {NoFrame}], NEW n \in Ids \cup {NoId},
         NEW w \in Ids \cup {NoId}, Window(fr, n, w),
         NEW m \in Ids, n # NoId => m = n
  PROVE  Window(fr, m, w)
BY Numbers DEF Window

LEMMA AcceptSlots ==
  ASSUME SlotsInv, NEW d \in Datagrams, Accept(d)
  PROVE  Tidy(frames') /\ WindowInv'
<1> DEFINE L == LiveFrames(d)  w == LiveNewest(d)  m == next'
<1>1. d.id \in Ids /\ d.session \in Sessions
  BY PipeAssumption DEF PipeAssumption, Datagram
<1>2. /\ L \in [Slots -> Frame \cup {NoFrame}] /\ w \in Ids \cup {NoId} /\ Tidy(L)
  BY LiveSlots
<1>3. m \in Ids /\ (LiveNext(d) # NoId => m = LiveNext(d)) /\ (LiveNext(d) = NoId => m = d.id)
  BY <1>1, LiveSlots DEF Accept, EnterSession, LiveNext, Switches
<1>4. Window(L, m, w)
  BY <1>2, <1>3, LiveSlots, SameWindow
<1>5. ~Late(d) => Off(d.id, m) <= Horizon
  <2>1. CASE LiveNext(d) = NoId
    BY <1>1, <1>3, <2>1, OffRange, Numbers
  <2>2. CASE LiveNext(d) # NoId /\ ~Late(d)
    <3>1. ~Newer(m, d.id) /\ (Off(d.id, m) <= Horizon \/ Off(m, d.id) <= Horizon)
      BY <1>3, <2>2 DEF Accept, InHorizon, Late, Off
    <3>2. Off(m, d.id) = 0 \/ Off(m, d.id) > Half
      BY <1>1, <1>3, <3>1, NewerOff, OffRange, Numbers
    <3>3. Off(m, d.id) = 0 => Off(d.id, m) = 0
      BY <1>1, <1>3, OffRange
    <3> QED
      BY <1>1, <1>3, <3>1, <3>2, <3>3, OffRange, Numbers
  <2> QED
    BY <2>1, <2>2
<1>6. CASE DropLate(d)
  <2>1. LiveNext(d) # NoId
    BY <1>6 DEF DropLate, Late
  <2>2. frames' = L /\ newest' = w
    BY <1>6, <2>1 DEF DropLate, LiveNext, LiveFrames, LiveNewest
  <2> QED
    BY <1>2, <1>4, <2>2 DEF WindowInv
<1>7. CASE DropNoSlot(d)
  BY <1>2, <1>4, <1>7 DEF DropNoSlot, WindowInv
<1>8. ASSUME NEW s \in SlotFor(d)
      PROVE  /\ s \in Slots
             /\ FrameAt(s, d) \in Frame /\ FrameAt(s, d).id = d.id /\ Counted(FrameAt(s, d))
             /\ \A t \in Slots \ {s} : L[t] # NoFrame => L[t].id # d.id
             /\ Data(FrameAt(s, d)) => L[s] # NoFrame /\ FrameAt(s, d) = L[s]
  <2>1. \A t \in Slots : L[t] # NoFrame => L[t].session = d.session
    BY LiveSession DEF SlotsInv
  <2>2. s \in Slots /\ (L[s] = NoFrame \/ L[s].id = d.id)
    BY <1>8 DEF SlotFor, Holders, FreeSlots
  <2>3. ASSUME NEW t \in Slots \ {s}, L[t] # NoFrame, L[t].id = d.id
        PROVE  FALSE
    <3>1. t \in Holders(d)
      BY <2>1, <2>3 DEF Holders
    <3>2. s \in Holders(d)
      BY <1>8, <3>1 DEF SlotFor
    <3> QED
      BY <1>2, <2>3, <3>2 DEF Tidy, Holders
  <2>4. CASE L[s] = NoFrame
    <3>1. FrameAt(s, d) = Fresh(d) /\ Fresh(d) \in Frame
      BY <2>4, FreshType DEF FrameAt
    <3>2. Counted(Fresh(d)) /\ Fresh(d).id = d.id /\ ~Data(Fresh(d))
      BY FS_EmptySet DEF Counted, Fresh, Data
    <3> QED
      BY <2>2, <2>3, <3>1, <3>2
  <2>5. CASE L[s] # NoFrame
    BY <1>2, <2>2, <2>3, <2>5 DEF FrameAt, Tidy
  <2> QED
    BY <2>4, <2>5
<1>9. CASE DropUnfit(d)
  <2>1. PICK s \in SlotFor(d) : frames' = [L EXCEPT ![s] = FrameAt(s, d)]
    BY <1>9 DEF DropUnfit
  <2>2. newest' = w /\ Off(d.id, m) <= Horizon
    BY <1>5, <1>9 DEF DropUnfit
  <2>3. Tidy(frames')
    BY <1>2, <1>8, <2>1, PutTidy
  <2>4. Data(FrameAt(s, d)) => w # NoId /\ Off(w, m) <= Horizon /\ Off(d.id, m) <= Off(w, m)
    BY <1>4, <1>8, <2>1 DEF Window
  <2>5. w # NoId => Off(w, m) <= Horizon \/ Off(w, m) = IdMod - 1
    BY <1>4 DEF Window
  <2>6. Window([L EXCEPT ![s] = FrameAt(s, d)], m, w)
    <3> HIDE DEF L, w, m
    <3> QED
      BY <1>2, <1>3, <1>4, <1>8, <2>2, <2>4, <2>5, PutWindow
  <2> QED
    BY <2>1, <2>2, <2>3, <2>6 DEF WindowInv
<1>10. CASE StoreShard(d)
  <2> DEFINE v == NewestWith(d)
  <2>1. PICK s \in SlotFor(d) : frames' = [L EXCEPT ![s] = Filled(FrameAt(s, d), d)]
    BY <1>10 DEF StoreShard
  <2>2. newest' = v /\ Off(d.id, m) <= Horizon
    BY <1>5, <1>10 DEF StoreShard
  <2> DEFINE f == Filled(FrameAt(s, d), d)
  <2>3. f \in Frame /\ f.id = d.id /\ Counted(f)
    BY <1>8, FilledType, FilledCounts
  <2>4. Tidy(frames')
    <3>1. Tidy([L EXCEPT ![s] = f])
      <4> HIDE DEF f, L
      <4> QED
        BY <1>2, <1>8, <2>3, PutTidy
    <3> QED
      BY <2>1, <3>1
  <2>5. /\ v \in Ids /\ Off(v, m) <= Horizon /\ Off(d.id, m) <= Off(v, m)
        /\ w # NoId /\ Off(w, m) <= Horizon => Off(w, m) <= Off(v, m)
    <3>1. CASE w = NoId
      BY <1>1, <1>3, <2>2, <3>1, OffRange DEF NewestWith
    <3>2. CASE w # NoId
      <4>1. Off(w, m) \in Nat /\ Off(d.id, m) \in Nat /\ w \in Ids
        BY <1>1, <1>2, <1>3, <3>2, OffRange
      <4>2. Off(w, m) <= Horizon \/ Off(w, m) = IdMod - 1
        BY <1>4, <3>2 DEF Window
      <4>3. Off(d.id, w) = IF Off(w, m) <= Off(d.id, m) THEN Off(d.id, m) - Off(w, m)
                           ELSE Off(d.id, m) - Off(w, m) + IdMod
        BY <1>1, <1>3, <4>1, OffFrom
      <4>4. Newer(d.id, w) <=> 1 <= Off(d.id, w) /\ Off(d.id, w) <= Half
        BY <1>1, <4>1, NewerOff
      <4>5. Newer(d.id, w) => Off(w, m) <= Off(d.id, m) \/ Off(w, m) = IdMod - 1
        BY <2>2, <4>1, <4>2, <4>3, <4>4, Numbers
      <4>6. ~Newer(d.id, w) => Off(w, m) <= Horizon /\ Off(d.id, m) <= Off(w, m)
        BY <2>2, <4>1, <4>2, <4>3, <4>4, Numbers
      <4>7. v = IF Newer(d.id, w) THEN d.id ELSE w
        BY <3>2 DEF NewestWith
      <4> QED
        <5> HIDE DEF v, w, m
        <5> QED
          BY <1>1, <2>2, <4>1, <4>5, <4>6, <4>7, Numbers
    <3> QED
      BY <3>1, <3>2
  <2>6. Window([L EXCEPT ![s] = f], m, v)
    <3>1. \A i \in Ids : w # NoId /\ Off(w, m) <= Horizon /\ Off(i, m) <= Off(w, m) =>
                         v # NoId /\ Off(v, m) <= Horizon /\ Off(i, m) <= Off(v, m)
      <4>1. ASSUME NEW i \in Ids, w # NoId, Off(w, m) <= Horizon, Off(i, m) <= Off(w, m)
            PROVE  Off(i, m) <= Off(v, m)
        <5>1. Off(i, m) \in Nat /\ Off(w, m) \in Nat /\ Off(v, m) \in Nat
          BY <1>2, <1>3, <2>5, <4>1, OffRange
        <5> HIDE DEF v, w, m
        <5> QED
          BY <2>5, <4>1, <5>1
      <4>2. v # NoId
        BY <2>5, Numbers
      <4> QED
        BY <2>5, <4>1, <4>2
    <3>2. v # NoId
      BY <2>5, Numbers
    <3> HIDE DEF L, w, m, v, f
    <3> QED
      BY <1>2, <1>3, <1>4, <1>8, <2>2, <2>3, <2>5, <3>1, <3>2, PutWindow
  <2> QED
    BY <2>1, <2>2, <2>4, <2>6 DEF WindowInv
<1> QED
  BY <1>6, <1>7, <1>9, <1>10 DEF Accept

----------------------------------------------------------------------------
(* What ready_frame does to the slots.                                      *)

\* A complete frame leaves, handed over or dropped, and the next one is expected.
LEMMA LeaveSlots ==
  ASSUME SlotsInv, NEW s \in ReadySlots,
         frames' = [frames EXCEPT ![s] = NoFrame], next' = Succ(next), newest' = newest
  PROVE  Tidy(frames') /\ WindowInv'
<1>1. /\ s \in Slots /\ frames[s] # NoFrame /\ frames[s] \in Frame /\ frames[s].id = next
      /\ Complete(frames[s]) /\ Counted(frames[s])
  BY DEF SlotsInv, TypeOK, Tidy, ReadySlots, Expected
<1>2. next \in Ids /\ next' \in Ids /\ next' # NoId
  BY <1>1, SuccValue, Numbers DEF Frame
<1>3. newest # NoId /\ newest \in Ids /\ Off(newest, next) <= Horizon
  BY <1>1, CompleteHasData DEF SlotsInv, TypeOK, WindowInv, Window
<1>4. Off(newest, next') = IF newest = next THEN IdMod - 1 ELSE Off(newest, next) - 1
  BY <1>2, <1>3, OffSucc
<1>5. ASSUME NEW t \in Slots, frames'[t] # NoFrame
      PROVE  /\ t # s /\ frames'[t] = frames[t] /\ frames[t].id \in Ids
             /\ Off(frames[t].id, next) \in Nat /\ Off(frames[t].id, next) # 0
             /\ Off(frames[t].id, next') = Off(frames[t].id, next) - 1
  <2>1. t # s /\ frames'[t] = frames[t] /\ frames[t] \in Frame
    BY <1>1, <1>5 DEF SlotsInv, TypeOK
  <2>2. frames[t].id \in Ids /\ frames[t].id # next
    BY <1>1, <1>5, <2>1 DEF SlotsInv, Tidy, Frame
  <2> QED
    BY <1>2, <2>1, <2>2, OffSucc, OffRange
<1>6. Tidy(frames')
  BY <1>5 DEF SlotsInv, Tidy
<1>7. Off(newest, next') <= Horizon \/ Off(newest, next') = IdMod - 1
  BY <1>2, <1>3, <1>4, OffRange, Numbers
<1>8. \A t \in Slots : frames'[t] # NoFrame => Off(frames'[t].id, next') <= Horizon
  BY <1>5, Numbers DEF SlotsInv, WindowInv, Window
<1>9. ASSUME NEW t \in Slots, frames'[t] # NoFrame, Data(frames'[t])
      PROVE  Off(newest, next') <= Horizon /\ Off(frames'[t].id, next') <= Off(newest, next')
  <2>1. Off(frames[t].id, next) <= Off(newest, next)
    BY <1>5, <1>9 DEF SlotsInv, WindowInv, Window
  <2>2. newest # next /\ Off(newest, next) \in Nat
    BY <1>2, <1>3, <1>5, <1>9, <2>1, OffRange
  <2> QED
    BY <1>3, <1>4, <1>5, <1>9, <2>1, <2>2, Numbers
<1> QED
  BY <1>2, <1>3, <1>6, <1>7, <1>8, <1>9 DEF WindowInv, Window

\* Frames behind the newest one are given up.
LEMMA SkipSlots ==
  ASSUME SlotsInv, SkipToNewest
  PROVE  Tidy(frames') /\ WindowInv'
<1>1. /\ newest \in Ids /\ next \in Ids /\ Newer(newest, next)
      /\ frames' = SkippedFrames /\ next' = newest /\ newest' = newest
  BY DEF SkipToNewest, Overdue, ResumeAt, SlotsInv, TypeOK
<1>2. Off(newest, next) <= Horizon /\ Off(newest, next) \in Nat
  BY <1>1, NewerOff, OffRange, Numbers DEF SlotsInv, WindowInv, Window
<1>3. Off(newest, newest) = 0
  BY <1>1, OffRange
<1>4. ASSUME NEW t \in Slots, frames'[t] # NoFrame
      PROVE  /\ frames'[t] = frames[t] /\ frames[t] # NoFrame /\ frames[t].id \in Ids
             /\ ~Newer(newest, frames[t].id)
  <2>1. frames'[t] = frames[t] /\ frames[t] # NoFrame /\ frames[t] \in Frame
    BY <1>1, <1>4 DEF SkippedFrames, SlotsInv, TypeOK
  <2> QED
    BY <1>1, <1>4, <2>1 DEF SkippedFrames, Frame
<1>5. ASSUME NEW t \in Slots, frames'[t] # NoFrame
      PROVE  /\ Off(newest, next) <= Off(frames[t].id, next)
             /\ Off(frames[t].id, newest) = Off(frames[t].id, next) - Off(newest, next)
             /\ Off(frames[t].id, next) \in Nat /\ Off(frames[t].id, next) <= Horizon
  <2> DEFINE i == frames[t].id
  <2>1. i \in Ids /\ Off(i, next) \in Nat /\ Off(i, next) <= Horizon
    BY <1>1, <1>4, <1>5, OffRange DEF SlotsInv, WindowInv, Window
  <2>2. Off(newest, i) = IF Off(i, next) <= Off(newest, next)
                         THEN Off(newest, next) - Off(i, next)
                         ELSE Off(newest, next) - Off(i, next) + IdMod
    BY <1>1, <2>1, OffFrom
  <2>3. ~(1 <= Off(newest, i) /\ Off(newest, i) <= Half)
    BY <1>1, <1>4, <1>5, <2>1, NewerOff
  <2>4. Off(newest, next) <= Off(i, next)
    BY <1>2, <2>1, <2>2, <2>3, Numbers
  <2> QED
    BY <1>1, <2>1, <2>4, OffFrom
<1>6. Tidy(frames')
  BY <1>4 DEF SlotsInv, Tidy
<1>7. \A t \in Slots : frames'[t] # NoFrame => Off(frames'[t].id, newest) <= Horizon
  BY <1>2, <1>4, <1>5, Numbers
<1>8. ASSUME NEW t \in Slots, frames'[t] # NoFrame, Data(frames'[t])
      PROVE  Off(frames'[t].id, newest) <= 0
  BY <1>2, <1>4, <1>5, <1>8 DEF SlotsInv, WindowInv, Window
<1> QED
  BY <1>1, <1>3, <1>6, <1>7, <1>8, Numbers DEF WindowInv, Window

\* Time only makes frames older.
LEMMA TickSlots ==
  ASSUME SlotsInv, Tick
  PROVE  Tidy(frames') /\ WindowInv'
<1>1. UNCHANGED <<next, newest>>
  BY DEF Tick
<1>2. ASSUME NEW t \in Slots, frames'[t] # NoFrame
      PROVE  /\ frames[t] # NoFrame /\ frames'[t].id = frames[t].id
             /\ Counted(frames'[t]) <=> Counted(frames[t])
             /\ Data(frames'[t]) <=> Data(frames[t])
  <2>1. frames[t] # NoFrame /\ frames[t] \in Frame
        /\ frames'[t] = [frames[t] EXCEPT !.age = Aged(@)]
    BY <1>2 DEF Tick, SlotsInv, TypeOK
  <2> QED
    BY <2>1 DEF Frame, Counted, Data
<1>3. Tidy(frames')
  BY <1>2 DEF SlotsInv, Tidy
<1>4. \A t \in Slots : frames[t] = NoFrame => frames'[t] = NoFrame
  BY DEF Tick
<1> QED
  BY <1>1, <1>2, <1>3, <1>4 DEF SlotsInv, WindowInv, Window

----------------------------------------------------------------------------
(* The invariant, and what it says of the slots.                            *)

LEMMA InitSlots == Init => Tidy(frames) /\ WindowInv
BY DEF Init, Tidy, WindowInv, Window

LEMMA NextSlots == SlotsInv /\ [Next]_vars => Tidy(frames)' /\ WindowInv'
<1> SUFFICES ASSUME SlotsInv, [Next]_vars PROVE Tidy(frames') /\ WindowInv'
  OBVIOUS
<1>1. ASSUME NEW d \in Datagrams, Accept(d) PROVE Tidy(frames') /\ WindowInv'
  BY <1>1, AcceptSlots
<1>2. ASSUME NEW s \in Slots, DropUndecodable(s) \/ Deliver(s)
      PROVE  Tidy(frames') /\ WindowInv'
  <2>1. s \in ReadySlots /\ frames' = [frames EXCEPT ![s] = NoFrame]
        /\ next' = Succ(next) /\ newest' = newest
    BY <1>2 DEF DropUndecodable, Deliver
  <2> QED
    BY <2>1, LeaveSlots
<1>3. CASE SkipToNewest
  BY <1>3, SkipSlots
<1>4. CASE Tick
  BY <1>4, TickSlots
<1>5. CASE Reopen
  BY <1>5 DEF Reopen, Tidy, WindowInv, Window
<1>6. CASE PollIdle \/ NothingReady \/ Decode \/ UNCHANGED vars
  <2>1. UNCHANGED <<frames, next, newest>>
    BY <1>6 DEF PollIdle, NothingReady, Decode, vars, slotVars
  <2> QED
    BY <2>1 DEF SlotsInv, WindowInv
<1> QED
  BY <1>1, <1>2, <1>3, <1>4, <1>5, <1>6 DEF Next, ReadyStep

LEMMA AlwaysSlots == Spec => []SlotsInv
<1>1. Init => Tidy(frames) /\ WindowInv
  BY InitSlots
<1>2. DecoderSafety => TypeOK /\ ContinuityInv
  BY DEF DecoderSafety
<1>3. TypeOK /\ ContinuityInv /\ Tidy(frames) /\ WindowInv => SlotsInv
  BY DEF SlotsInv
<1>4. SlotsInv /\ [Next]_vars => Tidy(frames)' /\ WindowInv'
  BY NextSlots
<1> QED
  BY <1>1, <1>2, <1>3, <1>4, AlwaysDecoderSafety, PTL DEF Spec

\* No frame is in two slots, all are of the current session, and the counter that
\* decides whether a frame is complete counts the shards that are there
\* (pipe.c:111,134-149,160).
THEOREM Accounted == Spec => []SlotsAccounted
<1>1. SlotsInv => SlotsAccounted
  BY DEF SlotsInv, ContinuityInv, Tidy, Counted, SlotsAccounted, Occupied
<1> QED
  BY <1>1, AlwaysSlots, PTL

LEMMA NoneBehind == SlotsInv => NoLeakedSlot
<1> SUFFICES ASSUME SlotsInv, NEW s \in Occupied
             PROVE  next # NoId /\ ~Newer(next, frames[s].id)
  BY DEF NoLeakedSlot
<1>1. s \in Slots /\ frames[s] # NoFrame /\ frames[s] \in Frame /\ frames[s].id \in Ids
  BY DEF Occupied, SlotsInv, TypeOK, Frame
<1>2. next \in Ids /\ next # NoId /\ Off(frames[s].id, next) <= Horizon
  BY <1>1 DEF SlotsInv, TypeOK, WindowInv, Window
<1>3. Off(frames[s].id, next) \in Nat /\ Off(next, next) = 0
  BY <1>1, <1>2, OffRange
<1>4. Off(next, frames[s].id) = IF Off(frames[s].id, next) <= Off(next, next)
                                THEN 0 - Off(frames[s].id, next)
                                ELSE 0 - Off(frames[s].id, next) + IdMod
  BY <1>1, <1>2, <1>3, OffFrom
<1> QED
  BY <1>1, <1>2, <1>3, <1>4, NewerOff, Numbers

LEMMA DeadlineArmed == SlotsInv => ExhaustionResolves
<1> SUFFICES ASSUME SlotsInv, Occupied = Slots, Expected = {},
                    NEW s \in Slots, Data(frames[s])
             PROVE  newest # NoId /\ Newer(newest, next)
  BY DEF ExhaustionResolves, Data
<1>1. frames[s] # NoFrame /\ frames[s] \in Frame /\ frames[s].id \in Ids
  BY DEF Occupied, SlotsInv, TypeOK, Frame
<1>2. frames[s].id # next
  BY <1>1 DEF Expected
<1>3. /\ next \in Ids /\ newest \in Ids /\ newest # NoId /\ Off(newest, next) <= Horizon
      /\ Off(frames[s].id, next) <= Off(newest, next)
  BY <1>1 DEF SlotsInv, TypeOK, WindowInv, Window
<1>4. Off(frames[s].id, next) \in Nat \ {0} /\ Off(newest, next) \in Nat
  BY <1>1, <1>2, <1>3, OffRange
<1> QED
  BY <1>3, <1>4, NewerOff, Numbers

\* No slot keeps a frame that is behind next_frame, and when all slots are taken, none
\* by the expected frame, the deadline is armed (pipe.c:139-141,201-206).
THEOREM SlotsFreed == Spec => []SlotsComeFree
<1>1. SlotsInv => SlotsComeFree
  BY NoneBehind, DeadlineArmed DEF SlotsComeFree
<1> QED
  BY <1>1, AlwaysSlots, PTL
----------------------------------------------------------------------------
(* The wait for the expected frame.                                         *)

\* Time makes the frames older, and every wait longer.
LEMMA TickAges ==
  ASSUME SlotsInv, Tick
  PROVE  /\ \A s \in Slots : frames'[s] # NoFrame =>
                               frames[s] # NoFrame /\ frames'[s].id = frames[s].id
         /\ ReadySlots' = ReadySlots /\ Stall' = Aged(Stall)
         /\ UNCHANGED <<pc, session, next, newest>>
<1>1. UNCHANGED <<pc, session, next, newest>> /\ nextWait' = Aged(nextWait)
  BY DEF Tick
<1>2. ASSUME NEW s \in Slots
      PROVE  /\ frames[s] = NoFrame => frames'[s] = NoFrame
             /\ frames[s] # NoFrame =>
                  /\ frames'[s] # NoFrame /\ frames'[s].id = frames[s].id
                  /\ frames'[s].received = frames[s].received
                  /\ frames'[s].age = Aged(frames[s].age)
  <2>1. CASE frames[s] = NoFrame
    BY <2>1 DEF Tick
  <2>2. CASE frames[s] # NoFrame
    <3>1. frames[s] \in Frame /\ frames'[s] = [frames[s] EXCEPT !.age = Aged(@)]
      BY <2>2 DEF Tick, SlotsInv, TypeOK
    <3>2. frames'[s] \in Frame
      BY <3>1, AgeUpdate
    <3> QED
      BY <3>1, <3>2, PipeAssumption DEF PipeAssumption, Frame
  <2> QED
    BY <2>1, <2>2
<1>3. Expected' = Expected
  BY <1>1, <1>2 DEF Expected
<1>4. ReadySlots' = ReadySlots
  BY <1>2, <1>3 DEF ReadySlots, Expected, Complete
<1>5. Stall' = Aged(Stall)
  <2>1. CASE Expected = {}
    BY <1>1, <1>3, <2>1 DEF Stall
  <2>2. CASE Expected # {}
    <3> DEFINE s == CHOOSE t \in Expected : TRUE
    <3>1. s \in Expected /\ s \in Slots /\ frames[s] # NoFrame
      BY <2>2 DEF Expected
    <3>2. Stall = frames[s].age /\ Stall' = frames'[s].age
      BY <1>3, <2>2 DEF Stall
    <3> QED
      BY <1>2, <3>1, <3>2
  <2> QED
    BY <2>1, <2>2
<1> QED
  BY <1>1, <1>2, <1>4, <1>5

LEMMA StallType == SlotsInv => Stall \in 0 .. Deadline
<1> SUFFICES ASSUME SlotsInv PROVE Stall \in 0 .. Deadline
  OBVIOUS
<1>1. CASE Expected = {}
  BY <1>1 DEF Stall, SlotsInv, TypeOK
<1>2. CASE Expected # {}
  BY <1>2 DEF Stall, Expected, SlotsInv, TypeOK, Frame
<1> QED
  BY <1>1, <1>2

\* A shard leaves the number and the age of its frame alone.
LEMMA FilledKeeps ==
  ASSUME NEW f \in Frame, NEW d \in Datagrams
  PROVE  Filled(f, d).id = f.id /\ Filled(f, d).age = f.age
BY DEF Filled, WithData, WithParity, RecoverGroup, Frame

\* A datagram of the session touches one slot at most, and a frame in it stays there.
LEMMA AcceptTouchesOne ==
  ASSUME SlotsInv, NEW d \in Datagrams, Accept(d), ~Switches(d)
  PROVE  \E t \in Slots :
           /\ \A u \in Slots \ {t} : frames'[u] = frames[u]
           /\ frames[t] # NoFrame => /\ frames'[t] # NoFrame
                                     /\ frames'[t].id = frames[t].id
                                     /\ frames'[t].age = frames[t].age
<1>1. LiveFrames(d) = frames
  BY DEF LiveFrames
<1>2. CASE DropLate(d) \/ DropNoSlot(d)
  BY <1>1, <1>2, PipeAssumption DEF DropLate, DropNoSlot, PipeAssumption
<1>3. ASSUME NEW s \in SlotFor(d)
      PROVE  s \in Slots /\ (frames[s] # NoFrame => FrameAt(s, d) = frames[s])
  BY <1>1 DEF SlotFor, Holders, FreeSlots, FrameAt
<1>4. CASE DropUnfit(d)
  <2>1. PICK s \in SlotFor(d) : frames' = [frames EXCEPT ![s] = FrameAt(s, d)]
    BY <1>1, <1>4 DEF DropUnfit
  <2> QED
    BY <1>3, <2>1 DEF SlotsInv, TypeOK
<1>5. CASE StoreShard(d)
  <2>1. PICK s \in SlotFor(d) : frames' = [frames EXCEPT ![s] = Filled(FrameAt(s, d), d)]
    BY <1>1, <1>5 DEF StoreShard
  <2>2. s \in Slots /\ \A u \in Slots \ {s} : frames'[u] = frames[u]
    BY <1>3, <2>1 DEF SlotsInv, TypeOK
  <2>3. ASSUME frames[s] # NoFrame
        PROVE  /\ frames'[s] # NoFrame /\ frames'[s].id = frames[s].id
               /\ frames'[s].age = frames[s].age
    <3>1. frames[s] \in Frame /\ frames'[s] = Filled(frames[s], d)
      BY <1>3, <2>1, <2>3 DEF SlotsInv, TypeOK
    <3>2. Filled(frames[s], d) \in Frame
      BY <3>1, FilledType
    <3> QED
      BY <3>1, <3>2, FilledKeeps, PipeAssumption DEF PipeAssumption
  <2> QED
    BY <2>2, <2>3
<1> QED
  BY <1>2, <1>4, <1>5 DEF Accept

\* An expected frame that has a slot keeps it, with its age, through every datagram.
LEMMA AcceptWaits ==
  ASSUME SlotsInv, NEW d \in Datagrams, Accept(d), session' = session, next # NoId
  PROVE  /\ Expected # {} => Expected' # {}
         /\ Stall' = Stall \/ (Expected = {} /\ Expected' # {})
<1>1. ~Switches(d) /\ LiveNext(d) = next
  BY DEF Accept, EnterSession, Switches, LiveNext, SlotsInv, ContinuityInv
<1>2. next' = next /\ nextWait' = nextWait
  BY <1>1 DEF Accept, EnterSession
<1>3. ASSUME NEW s \in Expected PROVE Expected' # {} /\ Stall' = Stall
  <2>1. s \in Slots /\ frames[s] # NoFrame /\ frames[s].id = next
    BY DEF Expected
  <2>2. /\ frames'[s] # NoFrame /\ frames'[s].id = frames[s].id
        /\ frames'[s].age = frames[s].age
    BY <1>1, <2>1, AcceptTouchesOne
  <2>3. Expected = {s}
    BY <2>1 DEF Expected, SlotsInv, Tidy
  <2>4. Expected' = {s}
    BY <1>2, <2>1, <2>2, AcceptSlots DEF Expected, Tidy
  <2>5. Stall = frames[s].age
    BY <2>3 DEF Stall
  <2>6. Stall' = frames'[s].age
    BY <2>4 DEF Stall
  <2> QED
    BY <2>2, <2>4, <2>5, <2>6
<1>4. Expected = {} /\ Expected' = {} => Stall' = Stall
  BY <1>2 DEF Stall
<1> QED
  BY <1>3, <1>4

LEMMA StepWaits ==
  ASSUME SlotsInv, [Next]_vars, session' = session, next' = next, next # NoId
  PROVE  /\ Expected # {} => Expected' # {}
         /\ Stall' >= Stall \/ (Expected = {} /\ Expected' # {})
<1>1. Stall \in 0 .. Deadline /\ Deadline \in Nat /\ next \in Ids
  BY StallType, DeadlinePositive DEF SlotsInv, TypeOK
<1>2. ASSUME NEW d \in Datagrams, Accept(d)
      PROVE  /\ Expected # {} => Expected' # {}
             /\ Stall' >= Stall \/ (Expected = {} /\ Expected' # {})
  BY <1>1, <1>2, AcceptWaits
<1>3. CASE Tick
  <2>1. Stall' = Aged(Stall)
    BY <1>3, TickAges
  <2>2. Expected # {} => Expected' # {}
    <3> SUFFICES ASSUME NEW s \in Expected PROVE s \in Expected'
      OBVIOUS
    <3>1. s \in Slots /\ frames[s] \in Frame /\ frames[s].id = next
      BY DEF Expected, SlotsInv, TypeOK
    <3>2. frames'[s] = [frames[s] EXCEPT !.age = Aged(@)]
      BY <1>3, <3>1 DEF Tick, Expected
    <3>3. frames'[s] \in Frame /\ frames'[s].id = next
      BY <3>1, <3>2, AgeUpdate DEF Frame
    <3> QED
      BY <3>1, <3>3, PipeAssumption DEF Expected, PipeAssumption
  <2> QED
    BY <1>1, <2>1, <2>2 DEF Aged
<1>4. ASSUME UNCHANGED slotVars
      PROVE  Expected' = Expected /\ Stall' = Stall
  BY <1>4 DEF slotVars, Expected, Stall
<1>5. CASE PollIdle \/ NothingReady \/ Decode \/ UNCHANGED vars
  <2>1. UNCHANGED slotVars
    BY <1>5 DEF PollIdle, NothingReady, Decode, vars, slotVars
  <2> QED
    BY <1>1, <1>4, <2>1
<1>6. ASSUME NEW s \in Slots PROVE ~DropUndecodable(s) /\ ~Deliver(s)
  <2>1. Succ(next) # next
    BY <1>1, SuccValue, Numbers
  <2> QED
    BY <2>1 DEF DropUndecodable, Deliver
<1>7. ~SkipToNewest
  <2> SUFFICES ASSUME SkipToNewest PROVE FALSE
    OBVIOUS
  <2>1. newest = next /\ Newer(newest, next) /\ newest \in Ids
    BY <1>1 DEF SkipToNewest, Overdue, ResumeAt
  <2>2. Off(next, next) = 0
    BY <1>1, OffRange
  <2> QED
    BY <1>1, <2>1, <2>2, NewerOff
<1>8. ~Reopen
  BY DEF Reopen
<1> QED
  BY <1>2, <1>3, <1>5, <1>6, <1>7, <1>8 DEF Next, ReadyStep

\* However the datagrams come, the wait for one frame starts over at most once: the
\* deadline of a lost frame cannot be pushed away.
THEOREM DeadlineComes == Spec => WaitStartsOverOnce
<1>1. SlotsInv /\ [Next]_vars =>
        [session' = session /\ next' = next /\ next # NoId =>
           /\ Expected # {} => Expected' # {}
           /\ Stall' >= Stall \/ (Expected = {} /\ Expected' # {})]_vars
  BY StepWaits
<1> QED
  BY <1>1, AlwaysSlots, PTL DEF Spec, WaitStartsOverOnce
=============================================================================

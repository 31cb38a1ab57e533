------------------------- MODULE ReceiverLinkProofs -------------------------
(***************************************************************************)
(* Proofs about ReceiverLink for every limit of lost probes and every time *)
(* a pose stays fresh.                                                     *)
(***************************************************************************)
EXTENDS ReceiverLink, TLAPS

\* TypeOK by the kinds of values, which the provers treat one at a time.
FlagsOK ==
  /\ approves \in BOOLEAN /\ settled \in BOOLEAN /\ active \in BOOLEAN
  /\ authorized \in BOOLEAN /\ known \in BOOLEAN
  /\ available \in BOOLEAN /\ streaming \in BOOLEAN
  /\ frame \in [pc : {"idle", "pose", "publish", "finish"},
                connected : BOOLEAN, ready : BOOLEAN, pose : BOOLEAN]

NamesOK ==
  /\ receiver \in Receivers
  /\ state \in LinkStates
  /\ lastGood \in {"None", "Starting", "Searching", "Ready", "Degraded"}
  /\ published \in {"none", "off", "lost", "valid"}

CountersOK == missed \in 0 .. MissedLimit /\ age \in 0 .. FreshFor + 1

LEMMA Kinds == TypeOK <=> FlagsOK /\ NamesOK /\ CountersOK
BY DEF TypeOK, FlagsOK, NamesOK, CountersOK

LEMMA Starts == Init => TypeOK
<1> SUFFICES ASSUME Init PROVE FlagsOK /\ NamesOK /\ CountersOK
  BY Kinds
<1>1. FlagsOK
  BY DEF Init, FlagsOK, Idle
<1>2. NamesOK
  BY DEF Init, NamesOK, LinkStates
<1>3. CountersOK
  BY LinkAssumption DEF Init, CountersOK, LinkAssumption
<1> QED
  BY <1>1, <1>2, <1>3

\* A reply and a lost probe.
LEMMA PollTypeOK == TypeOK /\ Poll => TypeOK'
<1> SUFFICES ASSUME FlagsOK, NamesOK, CountersOK, Poll
             PROVE  FlagsOK' /\ NamesOK' /\ CountersOK'
  BY Kinds, PTL
<1> USE DEF FlagsOK, NamesOK, CountersOK, envVars, hmdVars
<1>1. CASE PollLost
  <2>1. missed' \in 0 .. MissedLimit
    BY <1>1, LinkAssumption DEF PollLost, LinkAssumption
  <2>2. state' \in LinkStates
    BY <1>1 DEF PollLost, WithoutReply, LinkStates
  <2> QED
    BY <1>1, <2>1, <2>2 DEF PollLost
<1>2. ASSUME NEW check \in BOOLEAN, PollAnswered(check)
      PROVE  FlagsOK' /\ NamesOK' /\ CountersOK'
  <2>1. state' \in LinkStates
    BY <1>2 DEF PollAnswered, Reported, LinkStates, Receivers, Known
  <2>2. lastGood' \in {"None", "Starting", "Searching", "Ready", "Degraded"}
    BY <1>2, <2>1 DEF PollAnswered, Good, LinkStates
  <2>3. known' \in BOOLEAN /\ authorized' \in BOOLEAN
    BY <1>2 DEF PollAnswered, Verdict
  <2>4. missed' \in 0 .. MissedLimit
    BY <1>2, LinkAssumption DEF PollAnswered, LinkAssumption
  <2> QED
    BY <1>2, <2>1, <2>2, <2>3, <2>4 DEF PollAnswered
<1> QED
  BY <1>1, <1>2 DEF Poll

\* The frames of the device.
LEMMA FrameTypeOK == TypeOK /\ RunFrame => TypeOK'
<1> SUFFICES ASSUME FlagsOK, NamesOK, CountersOK, RunFrame
             PROVE  FlagsOK' /\ NamesOK' /\ CountersOK'
  BY Kinds, PTL
<1> USE DEF FlagsOK, NamesOK, CountersOK, FrameStep, envVars, linkVars
<1>1. CASE Look
  <2>1. Connected(state) \in BOOLEAN /\ StreamReady(state) \in BOOLEAN
    BY DEF Connected, StreamReady
  <2> DEFINE place == IF Connected(state) \/ available THEN "pose" ELSE "finish"
  <2>2. frame' = [frame EXCEPT !.pc = place, !.connected = Connected(state),
                               !.ready = StreamReady(state)]
    BY <1>1 DEF Look
  <2>3. place \in {"pose", "finish"}
    OBVIOUS
  <2>4. frame' \in [pc : {"idle", "pose", "publish", "finish"},
                    connected : BOOLEAN, ready : BOOLEAN, pose : BOOLEAN]
    <3> HIDE DEF place
    <3> QED
      BY <2>1, <2>2, <2>3
  <2>5. UNCHANGED <<envVars, active, linkVars, age, available, published, streaming>>
    BY <1>1 DEF Look
  <2> QED
    BY <2>4, <2>5
<1>2. CASE LookAgain
  <2>1. frame' = [frame EXCEPT !.pc = "publish", !.pose = Connected(state)]
        /\ UNCHANGED <<envVars, active, linkVars, age, available, published, streaming>>
    BY <1>2 DEF LookAgain
  <2>2. Connected(state) \in BOOLEAN
    BY DEF Connected
  <2>3. frame' \in [pc : {"idle", "pose", "publish", "finish"},
                    connected : BOOLEAN, ready : BOOLEAN, pose : BOOLEAN]
    BY <2>1, <2>2
  <2> QED
    BY <2>1, <2>3
<1>3. CASE Publish
  <2>1. frame.pose \in BOOLEAN /\ (age <= FreshFor \/ age > FreshFor)
    BY LinkAssumption DEF LinkAssumption
  <2>2. published' \in {"off", "lost", "valid"}
    BY <1>3, <2>1 DEF Publish, Pose
  <2>3. frame' = [frame EXCEPT !.pc = "finish", !.pose = FALSE]
        /\ UNCHANGED <<envVars, active, linkVars, age, available, streaming>>
    BY <1>3 DEF Publish
  <2>4. frame' \in [pc : {"idle", "pose", "publish", "finish"},
                    connected : BOOLEAN, ready : BOOLEAN, pose : BOOLEAN]
    BY <2>3
  <2> QED
    BY <2>2, <2>3, <2>4
<1>4. CASE Finish
  BY <1>4 DEF Finish, Idle
<1> QED
  BY <1>1, <1>2, <1>3, <1>4 DEF RunFrame

\* The environment, the clock and the activation of the device.
LEMMA OtherTypeOK ==
  TypeOK /\ (Environment \/ Sample \/ Tick \/ Activate \/ Deactivate \/ UNCHANGED vars)
    => TypeOK'
<1> SUFFICES ASSUME FlagsOK, NamesOK, CountersOK,
                    Environment \/ Sample \/ Tick \/ Activate \/ Deactivate \/ UNCHANGED vars
             PROVE  FlagsOK' /\ NamesOK' /\ CountersOK'
  BY Kinds, PTL
<1> USE DEF FlagsOK, NamesOK, CountersOK, envVars, linkVars, hmdVars
<1>1. CASE Environment
  <2>1. UNCHANGED <<active, linkVars, age, hmdVars>> /\ receiver' \in Receivers
    BY <1>1 DEF Environment
  <2>2. approves' \in BOOLEAN
    BY <1>1 DEF Environment
  <2>3. settled' \in BOOLEAN
    BY <1>1 DEF Environment
  <2> QED
    BY <2>1, <2>2, <2>3
<1>2. CASE Sample
  <2>1. FlagsOK' /\ NamesOK'
    BY <1>2 DEF Sample
  <2>2. CountersOK'
    BY <1>2, LinkAssumption DEF Sample, LinkAssumption
  <2> QED
    BY <2>1, <2>2
<1>3. CASE Tick
  <2>1. FlagsOK' /\ NamesOK'
    BY <1>3 DEF Tick
  <2>2. CountersOK'
    BY <1>3, LinkAssumption DEF Tick, LinkAssumption
  <2> QED
    BY <2>1, <2>2
<1>4. CASE Activate
  <2>1. FlagsOK'
    BY <1>4 DEF Activate
  <2>2. NamesOK'
    BY <1>4 DEF Activate, LinkStates
  <2>3. CountersOK'
    BY <1>4, LinkAssumption DEF Activate, LinkAssumption
  <2> QED
    BY <2>1, <2>2, <2>3
<1>5. CASE Deactivate
  <2>1. FlagsOK'
    BY <1>5 DEF Deactivate
  <2>2. NamesOK'
    BY <1>5 DEF Deactivate, LinkStates
  <2>3. CountersOK'
    BY <1>5 DEF Deactivate
  <2> QED
    BY <2>1, <2>2, <2>3
<1>6. CASE UNCHANGED vars
  BY <1>6 DEF vars
<1> QED
  BY <1>1, <1>2, <1>3, <1>4, <1>5, <1>6

\* The count of lost probes stops at the limit, and an error report is never kept as a
\* good state (receiver_link.cpp:314-351).
THEOREM TypeCorrect == Spec => []TypeOK
<1>1. TypeOK /\ [Next]_vars => TypeOK'
  BY PollTypeOK, FrameTypeOK, OtherTypeOK DEF Next
<1> QED
  BY <1>1, Starts, PTL DEF Spec

----------------------------------------------------------------------------
(* The stream's switch.                                                     *)

\* A good link: the receiver is ready, approved, and lost probes are below the limit.
Calm == active /\ receiver = "READY" /\ approves /\ missed < MissedLimit

\* No step of the link or of RunFrame ends the stream on a good link.
LEMMA StreamStep ==
  TypeOK /\ InStream /\ Calm /\ [Next]_vars /\ Calm' => InStream'
<1> SUFFICES ASSUME TypeOK, InStream, Calm, [Next]_vars, Calm' PROVE InStream'
  OBVIOUS
<1> USE DEF InStream, Calm, StreamReady
<1>1. CASE PollLost
  BY <1>1 DEF PollLost, WithoutReply, envVars, hmdVars
<1>2. ASSUME NEW check \in BOOLEAN, PollAnswered(check) PROVE InStream'
  <2>1. authorized'
    BY <1>2 DEF PollAnswered, Verdict
  <2>2. state' \in {"Ready", "Degraded"}
    BY <1>2, <2>1 DEF PollAnswered, Reported
  <2>3. lastGood' # "None"
    BY <1>2, <2>2 DEF PollAnswered, Good
  <2> QED
    BY <1>2, <2>1, <2>2, <2>3 DEF PollAnswered, hmdVars
<1>3. CASE RunFrame
  <2>1. CASE Look
    BY <1>3, <2>1 DEF Look, FrameStep, envVars, linkVars, TypeOK
  <2>2. CASE LookAgain
    BY <1>3, <2>2 DEF LookAgain, FrameStep, envVars, linkVars, TypeOK
  <2>3. CASE Publish
    BY <1>3, <2>3 DEF Publish, FrameStep, envVars, linkVars, TypeOK
  <2>4. CASE Finish
    BY <1>3, <2>4 DEF Finish, FrameStep, Idle, envVars, linkVars, TypeOK
  <2> QED
    BY <1>3, <2>1, <2>2, <2>3, <2>4 DEF RunFrame
<1>4. CASE Activate
  BY <1>4 DEF Activate
<1>5. CASE Deactivate
  BY <1>5 DEF Deactivate
<1>6. CASE Environment \/ Sample \/ Tick \/ UNCHANGED vars
  BY <1>6 DEF Environment, Sample, Tick, vars, envVars, linkVars, hmdVars
<1> QED
  BY <1>1, <1>2, <1>3, <1>4, <1>5, <1>6 DEF Next, Poll

\* Lost probes below the limit never interrupt the stream, whatever the order of replies,
\* frames and checks of Steam's files.
THEOREM StreamSurvivesLoss == Spec => StreamKept
<1>1. TypeOK /\ InStream /\ Calm /\ [Next]_vars /\ Calm' => InStream'
  BY StreamStep
<1>2. InStream => streaming
  BY DEF InStream
<1>3. Calm <=> active /\ receiver = "READY" /\ approves /\ missed < MissedLimit
  BY DEF Calm
<1> QED
  BY <1>1, <1>2, <1>3, TypeCorrect, PTL DEF Spec, StreamKept

\* The receiver is gone.
Gone == active /\ receiver = "absent"

\* While the receiver is gone, no lost probe and no frame switches the stream on.
LEMMA OffStep ==
  TypeOK /\ StreamOff /\ Gone /\ [Next]_vars /\ Gone' => StreamOff'
<1> SUFFICES ASSUME TypeOK, StreamOff, Gone, [Next]_vars, Gone' PROVE StreamOff'
  OBVIOUS
<1> USE DEF StreamOff, Gone, StreamReady
<1>1. CASE PollLost
  BY <1>1, LinkAssumption DEF PollLost, WithoutReply, envVars, hmdVars, LinkAssumption
<1>2. ASSUME NEW check \in BOOLEAN, PollAnswered(check) PROVE StreamOff'
  BY <1>2 DEF PollAnswered
<1>3. CASE RunFrame
  <2>1. CASE Look
    BY <1>3, <2>1 DEF Look, FrameStep, envVars, linkVars, TypeOK
  <2>2. CASE LookAgain
    BY <1>3, <2>2 DEF LookAgain, FrameStep, envVars, linkVars, TypeOK
  <2>3. CASE Publish
    BY <1>3, <2>3 DEF Publish, FrameStep, envVars, linkVars, TypeOK
  <2>4. CASE Finish
    BY <1>3, <2>4 DEF Finish, FrameStep, Idle, envVars, linkVars, TypeOK
  <2> QED
    BY <1>3, <2>1, <2>2, <2>3, <2>4 DEF RunFrame
<1>4. CASE Activate
  BY <1>4 DEF Activate
<1>5. CASE Deactivate
  BY <1>5 DEF Deactivate
<1>6. CASE Environment \/ Sample \/ Tick \/ UNCHANGED vars
  BY <1>6 DEF Environment, Sample, Tick, vars, envVars, linkVars, hmdVars
<1> QED
  BY <1>1, <1>2, <1>3, <1>4, <1>5, <1>6 DEF Next, Poll

\* A stream switched off because the receiver is gone stays off until it answers again,
\* whatever the link remembers of it and whatever is approved meanwhile.
THEOREM GoneStaysOff == Spec => StreamKeptOff
<1>1. TypeOK /\ StreamOff /\ Gone /\ [Next]_vars /\ Gone' => StreamOff'
  BY OffStep
<1>2. StreamOff => ~streaming
  BY DEF StreamOff
<1>3. Gone <=> active /\ receiver = "absent"
  BY DEF Gone
<1> QED
  BY <1>1, <1>2, <1>3, TypeCorrect, PTL DEF Spec, StreamKeptOff
=============================================================================

---------------------------- MODULE ReceiverLink ----------------------------
(***************************************************************************)
(* The driver's view of the receiver: the polling thread of                *)
(* SvrtReceiverLink, its tracking thread, and the HMD device, whose        *)
(* RunFrame turns the link's state into the pose that SteamVR sees and     *)
(* into the switch that starts and stops the video stream.                 *)
(*                                                                         *)
(* The receiver is external here: it answers a poll with one of its        *)
(* states, READY standing for STREAMING too.  A receiver that another host  *)
(* has paired answers READY but withholds its device identity (FOREIGN).    *)
(* What only changes icons and log lines is left out.                       *)
(***************************************************************************)
EXTENDS Naturals

CONSTANTS
  MissedLimit,  \* missed_poll_limit: max(12, 3000 ms / poll_ms_)
  FreshFor      \* pose_freshness_ms_, in ticks

ASSUME LinkAssumption == MissedLimit \in Nat \ {0} /\ FreshFor \in Nat

Known == {"STARTING", "READY", "ERROR"}
Receivers == Known \cup {"UNAUTHORIZED", "FOREIGN", "absent"}
LinkStates == {"Starting", "Searching", "Ready", "Degraded", "ReceiverError"}

VARIABLES
  receiver,    \* what the receiver answers, or "absent"
  approves,    \* whether Steam's files on this PC list the device
  settled,     \* nothing outside the driver changes, and no probe is lost, any more
  active,      \* the device is activated: the link's threads run
  state,       \* state_
  authorized,  \* steam_authorized_
  known,       \* steam_device_id_ # 0
  missed,      \* missed_polls
  lastGood,    \* last_good.state, or "None" before have_last_good
  age,         \* ticks since the last valid pose sample; FreshFor + 1 if too old
  frame,       \* RunFrame: where it is; receiver_connected and receiver_available
               \* of its first snapshot, receiver_connected of GetPose's
  available,   \* pose_receiver_available_
  published,   \* the last pose SteamVR got: "none", "off", "lost" or "valid"
  streaming    \* receiver_available_ of the video and the audio sender

envVars == <<receiver, approves, settled>>
linkVars == <<state, authorized, known, missed, lastGood>>
hmdVars == <<frame, available, published, streaming>>
vars == <<envVars, active, linkVars, age, hmdVars>>

Idle == [pc |-> "idle", connected |-> FALSE, ready |-> FALSE, pose |-> FALSE]

Init ==
  /\ receiver \in Receivers /\ approves \in BOOLEAN /\ settled = FALSE
  /\ active = FALSE
  /\ state = "Searching" /\ authorized = TRUE /\ known = FALSE
  /\ missed = 0 /\ lastGood = "None"
  /\ age = FreshFor + 1
  /\ frame = Idle
  /\ available = TRUE
  /\ published = "none"
  /\ streaming = FALSE

----------------------------------------------------------------------------
(* Outside the driver.                                                      *)

Environment ==
  /\ ~settled
  /\ \/ receiver' \in Receivers /\ receiver' # receiver /\ UNCHANGED <<approves, settled>>
     \/ approves' = ~approves /\ UNCHANGED <<receiver, settled>>
     \/ active /\ settled' = TRUE /\ UNCHANGED <<receiver, approves>>
  /\ UNCHANGED <<active, linkVars, age, hmdVars>>

\* A pose sample of this session reaches TrackingRun.
Sample ==
  /\ active
  /\ receiver \notin {"absent", "UNAUTHORIZED"}
  /\ age' = 0
  /\ UNCHANGED <<envVars, active, linkVars, hmdVars>>

Tick ==
  /\ age <= FreshFor
  /\ age' = age + 1
  /\ UNCHANGED <<envVars, active, linkVars, hmdVars>>

----------------------------------------------------------------------------
(* Activate and Deactivate start and stop the link.  They hold the lock      *)
(* RunFrame runs under.  The sample, the published pose and the sender's      *)
(* switch stay as they are.                                                  *)

Activate ==
  /\ ~active /\ frame.pc = "idle"
  /\ active' = TRUE
  /\ state' = "Starting"
  /\ authorized' = TRUE /\ known' = FALSE
  /\ missed' = 0 /\ lastGood' = "None"
  /\ UNCHANGED <<envVars, age, hmdVars>>

Deactivate ==
  /\ active /\ ~settled /\ frame.pc = "idle"
  /\ active' = FALSE
  /\ state' = "Searching"
  /\ UNCHANGED <<envVars, authorized, known, missed, lastGood, age, hmdVars>>

----------------------------------------------------------------------------
(* SvrtReceiverLink::Run and Poll.                                          *)

\* Mutant: the first lost probe is an unplugged headset.
WithoutReplyAtOnce(m) == "Searching"

\* The state after m probes in a row without a reply.
WithoutReply(m) ==
  IF lastGood # "None" /\ m < MissedLimit THEN "Degraded" ELSE "Searching"

\* Steam's verdict, read if a check is due and the files can be read.
Verdict(check) == IF known' /\ check THEN approves ELSE authorized

\* Mutant: an error report is remembered as a good state.
GoodAny(s) == s

\* The state a lost probe falls back on.
Good(s) == IF s = "ReceiverError" THEN lastGood ELSE s

\* What a reply says; a reply may count more dropped frames than the one before.
Reported ==
  IF ~authorized' THEN {"Searching"} ELSE
  CASE receiver = "UNAUTHORIZED" -> {"Searching"}
    [] receiver = "ERROR" -> {"ReceiverError"}
    [] receiver = "STARTING" -> {"Starting"}
    [] receiver \in {"READY", "FOREIGN"} -> {"Ready", "Degraded"}

PollLost ==
  /\ active
  /\ receiver = "absent" \/ ~settled
  /\ missed' = IF missed < MissedLimit THEN missed + 1 ELSE missed
  /\ state' = WithoutReply(missed')
  /\ UNCHANGED <<authorized, known, lastGood, envVars, active, age, hmdVars>>

PollAnswered(check) ==
  /\ active
  /\ receiver # "absent"
  /\ known' = (known \/ receiver \in Known)
  /\ authorized' = Verdict(check)
  /\ state' \in Reported
  /\ lastGood' = Good(state')
  /\ missed' = 0
  /\ UNCHANGED <<envVars, active, age, hmdVars>>

Poll == PollLost \/ \E check \in BOOLEAN : PollAnswered(check)

----------------------------------------------------------------------------
(* SvrtHmd::RunFrame.  It takes one snapshot of the link to decide, and     *)
(* GetPose another one for the pose; each reads the state, then the sample. *)

\* receiver_connected_state
Connected(s) == s # "Searching"

\* Mutant: a link that is starting streams as well.
StreamReadyEarly(s) == s # "Searching"

\* receiver_stream_ready
StreamReady(s) == s \in {"Ready", "Degraded"}

FrameStep(pc) == frame.pc = pc /\ UNCHANGED <<envVars, active, linkVars, age>>

Look ==
  /\ active
  /\ FrameStep("idle")
  /\ frame' = [frame EXCEPT
       !.pc = IF Connected(state) \/ available THEN "pose" ELSE "finish",
       !.connected = Connected(state),
       !.ready = StreamReady(state)]
  /\ UNCHANGED <<available, published, streaming>>

LookAgain ==
  /\ FrameStep("pose")
  /\ frame' = [frame EXCEPT !.pc = "publish", !.pose = Connected(state)]
  /\ UNCHANGED <<available, published, streaming>>

\* Mutant: GetPose does not ask how old the sample is.
PoseOfAnyAge(connected) == IF connected THEN "valid" ELSE "off"

Pose(connected) ==
  CASE ~connected -> "off"
    [] connected /\ age <= FreshFor -> "valid"
    [] connected /\ age > FreshFor -> "lost"

Publish ==
  /\ FrameStep("publish")
  /\ published' = Pose(frame.pose)
  /\ frame' = [frame EXCEPT !.pc = "finish", !.pose = FALSE]
  /\ UNCHANGED <<available, streaming>>

Finish ==
  /\ FrameStep("finish")
  /\ available' = frame.connected
  /\ streaming' = frame.ready
  /\ frame' = Idle
  /\ UNCHANGED published

RunFrame == Look \/ LookAgain \/ Publish \/ Finish

----------------------------------------------------------------------------
Next ==
  \/ Environment \/ Sample \/ Tick
  \/ Activate \/ Deactivate
  \/ Poll
  \/ RunFrame

Spec == Init /\ [][Next]_vars

\* The threads run, vrserver calls RunFrame again and again, time passes, and a
\* check of Steam's files succeeds now and then: it is due every 500 ms.
FairSpec ==
  /\ Spec
  /\ WF_vars(RunFrame)
  /\ WF_vars(Tick)
  /\ WF_vars(Poll)
  /\ WF_vars(PollAnswered(TRUE))
----------------------------------------------------------------------------
\* Types; the count of lost probes stops at its limit, and an error report is never kept as
\* a good state (receiver_link.cpp:314-351).
TypeOK ==
  /\ receiver \in Receivers /\ approves \in BOOLEAN /\ settled \in BOOLEAN
  /\ active \in BOOLEAN
  /\ state \in LinkStates
  /\ authorized \in BOOLEAN /\ known \in BOOLEAN
  /\ missed \in 0 .. MissedLimit
  /\ lastGood \in {"None", "Starting", "Searching", "Ready", "Degraded"}
  /\ age \in 0 .. FreshFor + 1
  /\ frame \in [pc : {"idle", "pose", "publish", "finish"},
                connected : BOOLEAN, ready : BOOLEAN, pose : BOOLEAN]
  /\ available \in BOOLEAN /\ streaming \in BOOLEAN
  /\ published \in {"none", "off", "lost", "valid"}

\* A receiver that is ready, and not removed in Steam, gets the stream and keeps
\* it, however many probes are lost, as long as they are fewer than the limit in
\* a row (receiver_link.cpp:326-339).
LossTolerated ==
  <>[](active /\ receiver = "READY" /\ approves /\ missed < MissedLimit) => <>[]streaming

\* A receiver that is gone, not ready, or no longer approved by Steam, stops
\* getting the stream, for good (receiver_link.cpp:337-338, :480-487).
StreamStops ==
  /\ settled /\ receiver \in {"absent", "UNAUTHORIZED", "STARTING", "ERROR"} ~> []~streaming
  /\ settled /\ receiver = "READY" /\ ~approves ~> []~streaming

\* The stream runs, and what RunFrame last saw of the link, or will see, keeps it up.
InStream ==
  /\ streaming /\ StreamReady(state) /\ authorized /\ lastGood # "None"
  /\ frame.pc # "idle" => frame.ready

\* The safety half of LossTolerated: a running stream is never switched off between two
\* lost probes, in no order of replies, lost probes, checks of Steam's files and
\* frames, while the lost ones in a row are fewer than the limit
\* (receiver_link.cpp:326-339, driver.cpp:258-285).
StreamKept ==
  [](InStream /\ [](active /\ receiver = "READY" /\ approves /\ missed < MissedLimit)
       => []streaming)

\* The stream was switched off because lost probes in a row reached the limit.
StreamOff ==
  missed = MissedLimit /\ ~StreamReady(state) /\ ~frame.ready /\ ~streaming

\* The safety half of StreamStops for a receiver that is gone: however many more
\* probes are lost, the good state remembered from before (last_good) and Steam's
\* changing verdict never switch the stream on again (receiver_link.cpp:334-338).
\* It does not hold of a receiver that answers and must not have the stream: one lost
\* probe makes the link DEGRADED and streams until the next answer.
StreamKeptOff ==
  [](StreamOff /\ [](active /\ receiver = "absent") => []~streaming)

\* A headset that is reached but sends no poses any more is shown as lost, not at
\* its last place (receiver_link.cpp:291-293, driver.cpp:221-223).
TrackingLossShown ==
  <>[](settled /\ receiver # "absent" /\ receiver # "UNAUTHORIZED" /\ approves
       /\ age > FreshFor)
    => <>[](published = "lost")

\* A receiver that is gone for good is shown as off (driver.cpp:277-279: "Send one
\* explicit transition to the off state").  The code does not guarantee it: the
\* frame that makes the transition publishes a second snapshot (:281), and
\* remembers the first (:285).
AbsenceShown == settled /\ receiver = "absent" ~> [](published = "off")
=============================================================================

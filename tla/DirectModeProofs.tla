--------------------------- MODULE DirectModeProofs ---------------------------
(***************************************************************************)
(* Proofs about DirectMode for every number of staging slots, of frames    *)
(* presented and of encoders started.                                      *)
(***************************************************************************)
EXTENDS DirectMode, TLAPS

AtInv == at \in [Threads -> PresentPlaces \cup WorkerPlaces \cup ControlPlaces \cup ClosePlaces]

\* Where Stop holds lifecycle_mutex_, and until when the worker is there to be joined.
Stopping == {"stopCancel", "stopProcess", "stopNotify", "stopJoin"}
Stopped == ClosePlaces \cup {"reset"}

LockInv ==
  /\ lifecycle = "present" <=> at["present"] # "idle"
  /\ lifecycle = "control" <=> at["control"] \in Stopping \cup Stopped
  /\ mutex = "present" <=> at["present"] \notin {"idle", "lock"}
  /\ mutex = "worker" <=> at["worker"] \in {"check", "block"}

\* The worker is there from Start to the join, frames are accepted no longer than that.
LifeInv ==
  /\ accepting => running
  /\ running => at["worker"] \notin {"none", "exit"} /\ at["control"] \notin Stopping \cup Stopped
  /\ ~running => at["present"] = "idle"
  /\ ~running /\ at["control"] \notin Stopping => at["worker"] = "none"

\* What CloseEncoder, run by Stop, has let go of at each place; and that nothing comes
\* back until the next Start.
GoneInv ==
  ~running /\ at["control"] \notin Stopping =>
    /\ at["control"] # "close" => socket = None
    /\ at["control"] \notin {"close", "stdin"} => pipe = None
    /\ at["control"] \notin {"close", "stdin", "kill", "killed"} => process = None
    /\ at["control"] \notin ClosePlaces \ {"release"} => packetizer.pc = "none"
    /\ at["control"] \notin ClosePlaces => outPipe = None
    /\ at["control"] \notin Stopped => slots = NoSlots

\* An encoder is started only while there is no frame, and so none with the worker.
StartInv ==
  /\ at["present"] \in {"socket", "pipes", "process", "thread"} \cup ClosePlaces =>
       slots = Unused /\ at["worker"] \notin {"map", "write", "done"}
  /\ at["present"] = "capture" => slots # NoSlots
  /\ at["present"] # "idle" => sequence < Frames
  /\ at["present"] \in {"lock", "slots", "socket"} => opened < Encoders
  /\ at["present"] = "pipes" => launched < opened
  /\ at["present"] = "process" => launched > 0
  /\ launched <= opened

\* The frames in the slots are different ones, newer than what FFmpeg got.
SlotsInv ==
  /\ written <= sequence
  /\ \A s \in Pending :
       /\ slots[s] <= sequence
       /\ slots[s] > written \/ (at["worker"] = "done" /\ s = work.slot)
       /\ at["worker"] \in {"map", "write", "done"} => slots[s] >= work.seq
       /\ \A u \in Pending : slots[s] = slots[u] => s = u
  /\ at["worker"] \in {"map", "write", "done"} => work.slot \in Slots /\ work.seq > 0

\* A socket that CloseEncoder has taken over is not the one in use any more.
SocketInv ==
  \A t \in Threads :
    /\ fd[t] <= opened
    /\ at[t] \in ClosePlaces \ {"close"} => socket = None \/ socket # fd[t]

DirectInv ==
  AtInv /\ LockInv /\ LifeInv /\ GoneInv /\ StartInv /\ SlotsInv /\ SocketInv /\ SocketOutlivesSend

Safety == TypeOK /\ DirectInv /\ WorkerOwns

----------------------------------------------------------------------------
(* Places and locks.                                                        *)

LEMMA NextAt == ASSUME AtInv, [Next]_vars PROVE AtInv'
<1> USE DEF AtInv, Step, At, Threads, PresentPlaces, WorkerPlaces, ControlPlaces, ClosePlaces
<1>1. CASE Enter \/ PresentStep
  BY <1>1 DEF Enter, PresentStep, Lock, EnsureSlots, OpenVideoSocket, CreatePipes, CreateProcess,
              StartPacketizer, Capture, CaptureNothing, Return, Wake
<1>2. CASE WorkerStep \/ SpuriousWakeup \/ WriteFrame
  BY <1>2 DEF WorkerStep, SpuriousWakeup, WriteFrame, Relock, WorkerExits, NothingToDo, Block,
              ToldToStop, Disconnect, TakeNewest, Map, WriteFails, FrameDone, ClearSlots, Pause
<1>3. CASE ReadOutput \/ SendFrame \/ (\E p \in alive : ProcessEnds(p)) \/ UNCHANGED vars
  BY <1>3 DEF ReadOutput, SendFrame, ProcessEnds, vars
<1>4. CASE (\E b \in BOOLEAN : SetReceiverAvailable(b)) \/ Start \/ Stop \/ ControlStep
  BY <1>4 DEF SetReceiverAvailable, Start, Stop, ControlStep, ResetFailure, RequestDisconnect,
              Cancel, Notify, StopProcess, StopJoin, StopReset, Wake
<1>5. ASSUME NEW t \in Threads, CloseStep(t) PROVE AtInv'
  BY <1>5 DEF CloseStep, Invalidate, CloseStdin, Kill, Killed, FindPacketizer, JoinPacketizer,
              Release, AfterClose
<1> QED
  BY <1>1, <1>2, <1>3, <1>4, <1>5 DEF Next

\* Both mutexes are held at the places LockInv names, and at no others.
LEMMA NextLock == ASSUME AtInv, LockInv, LifeInv, [Next]_vars PROVE LockInv'
<1> USE DEF AtInv, Step, At, Threads, ClosePlaces, LockInv, LifeInv, Stopping, Stopped, Free
<1>1. CASE Enter \/ PresentStep
  BY <1>1 DEF Enter, PresentStep, Lock, EnsureSlots, OpenVideoSocket, CreatePipes, CreateProcess,
              StartPacketizer, Capture, CaptureNothing, Return, Wake,
              lockVars
<1>2. CASE WorkerStep \/ SpuriousWakeup \/ WriteFrame
  BY <1>2 DEF WorkerStep, SpuriousWakeup, WriteFrame, Relock, WorkerExits, NothingToDo, Block,
              ToldToStop, Disconnect, TakeNewest, Map, WriteFails, FrameDone, ClearSlots, Pause,
              lockVars
<1>3. CASE ReadOutput \/ SendFrame \/ (\E p \in alive : ProcessEnds(p)) \/ UNCHANGED vars
  BY <1>3 DEF ReadOutput, SendFrame, ProcessEnds, vars, Packetizer,
              lockVars
<1>4. CASE (\E b \in BOOLEAN : SetReceiverAvailable(b)) \/ Start \/ Stop
  BY <1>4 DEF SetReceiverAvailable, Start, Stop,
              lockVars
<1>5. CASE ControlStep
  BY <1>5 DEF ControlStep, ResetFailure, RequestDisconnect, Cancel, Notify, StopProcess, StopJoin,
              StopReset, Wake,
              lockVars
<1>6. ASSUME NEW t \in Threads, CloseStep(t) PROVE LockInv'
  BY <1>6 DEF CloseStep, Invalidate, CloseStdin, Kill, Killed, FindPacketizer, JoinPacketizer,
              Release, AfterClose,
              lockVars
<1> QED
  BY <1>1, <1>2, <1>3, <1>4, <1>5, <1>6 DEF Next

\* Start and Stop bracket the life of the worker.
LEMMA NextLife == ASSUME AtInv, LockInv, LifeInv, [Next]_vars PROVE LifeInv'
<1> USE DEF AtInv, Step, At, Threads, ClosePlaces, LockInv, LifeInv, Stopping, Stopped, Free
<1>1. CASE Enter \/ PresentStep
  BY <1>1 DEF Enter, PresentStep, Lock, EnsureSlots, OpenVideoSocket, CreatePipes, CreateProcess,
              StartPacketizer, Capture, CaptureNothing, Return, Wake,
              flagVars, lockVars
<1>2. CASE WorkerStep \/ SpuriousWakeup \/ WriteFrame
  BY <1>2 DEF WorkerStep, SpuriousWakeup, WriteFrame, Relock, WorkerExits, NothingToDo, Block,
              ToldToStop, Disconnect, TakeNewest, Map, WriteFails, FrameDone, ClearSlots, Pause,
              flagVars, lockVars
<1>3. CASE ReadOutput \/ SendFrame \/ (\E p \in alive : ProcessEnds(p)) \/ UNCHANGED vars
  BY <1>3 DEF ReadOutput, SendFrame, ProcessEnds, vars, Packetizer,
              flagVars, lockVars
<1>4. CASE (\E b \in BOOLEAN : SetReceiverAvailable(b)) \/ Start \/ Stop
  BY <1>4 DEF SetReceiverAvailable, Start, Stop,
              flagVars, lockVars
<1>5. CASE ControlStep
  BY <1>5 DEF ControlStep, ResetFailure, RequestDisconnect, Cancel, Notify, StopProcess, StopJoin,
              StopReset, Wake,
              flagVars, lockVars
<1>6. ASSUME NEW t \in Threads, CloseStep(t) PROVE LifeInv'
  BY <1>6 DEF CloseStep, Invalidate, CloseStdin, Kill, Killed, FindPacketizer, JoinPacketizer,
              Release, AfterClose,
              flagVars, lockVars
<1> QED
  BY <1>1, <1>2, <1>3, <1>4, <1>5, <1>6 DEF Next

\* What Stop has let go of does not come back.
LEMMA NextGone == ASSUME Safety, [Next]_vars PROVE GoneInv'
<1> USE DEF Safety, DirectInv, TypeOK, AtInv, Step, At, Threads, ClosePlaces, LockInv, LifeInv, GoneInv, Stopping,
            Stopped, Free, None, NoThread
<1>1. CASE Enter \/ PresentStep
  BY <1>1 DEF Enter, PresentStep, Lock, EnsureSlots, OpenVideoSocket, CreatePipes, CreateProcess,
              StartPacketizer, Capture, CaptureNothing, Return, Wake,
              flagVars, lockVars, frameVars, encoderVars
<1>2. CASE WorkerStep \/ SpuriousWakeup \/ WriteFrame
  BY <1>2 DEF WorkerStep, SpuriousWakeup, WriteFrame, Relock, WorkerExits, NothingToDo, Block,
              ToldToStop, Disconnect, TakeNewest, Map, WriteFails, FrameDone, ClearSlots, Pause,
              flagVars, lockVars, frameVars, encoderVars
<1>3. CASE ReadOutput \/ SendFrame \/ (\E p \in alive : ProcessEnds(p)) \/ UNCHANGED vars
  BY <1>3 DEF ReadOutput, SendFrame, ProcessEnds, vars, Packetizer,
              flagVars, lockVars, frameVars, encoderVars
<1>4. CASE (\E b \in BOOLEAN : SetReceiverAvailable(b)) \/ Start \/ Stop
  BY <1>4 DEF SetReceiverAvailable, Start, Stop,
              flagVars, lockVars, frameVars, encoderVars
<1>5. CASE ControlStep
  BY <1>5 DEF ControlStep, ResetFailure, RequestDisconnect, Cancel, Notify, StopProcess, StopJoin,
              StopReset, Wake,
              flagVars, lockVars, frameVars, encoderVars
<1>6. ASSUME NEW t \in Threads, CloseStep(t) PROVE GoneInv'
  BY <1>6 DEF CloseStep, Invalidate, CloseStdin, Kill, Killed, FindPacketizer, JoinPacketizer,
              Release, AfterClose,
              flagVars, lockVars, frameVars, encoderVars
<1> QED
  BY <1>1, <1>2, <1>3, <1>4, <1>5, <1>6 DEF Next

\* A new socket is none of those that are being closed.
LEMMA NextSocket == ASSUME Safety, [Next]_vars PROVE SocketInv'
<1> USE DEF Safety, DirectInv, TypeOK, AtInv, Step, At, Threads, ClosePlaces, SocketInv, None
<1>1. CASE Enter \/ PresentStep
  BY <1>1 DEF Enter, PresentStep, Lock, EnsureSlots, OpenVideoSocket, CreatePipes, CreateProcess,
              StartPacketizer, Capture, CaptureNothing, Return, Wake,
              encoderVars
<1>2. CASE WorkerStep \/ SpuriousWakeup \/ WriteFrame
  BY <1>2 DEF WorkerStep, SpuriousWakeup, WriteFrame, Relock, WorkerExits, NothingToDo, Block,
              ToldToStop, Disconnect, TakeNewest, Map, WriteFails, FrameDone, ClearSlots, Pause,
              encoderVars
<1>3. CASE ReadOutput \/ SendFrame \/ (\E p \in alive : ProcessEnds(p)) \/ UNCHANGED vars
  BY <1>3 DEF ReadOutput, SendFrame, ProcessEnds, vars, Packetizer,
              encoderVars
<1>4. CASE (\E b \in BOOLEAN : SetReceiverAvailable(b)) \/ Start \/ Stop
  BY <1>4 DEF SetReceiverAvailable, Start, Stop,
              encoderVars
<1>5. CASE ControlStep
  BY <1>5 DEF ControlStep, ResetFailure, RequestDisconnect, Cancel, Notify, StopProcess, StopJoin,
              StopReset, Wake,
              encoderVars
<1>6. ASSUME NEW t \in Threads, CloseStep(t) PROVE SocketInv'
  BY <1>6 DEF CloseStep, Invalidate, CloseStdin, Kill, Killed, FindPacketizer, JoinPacketizer,
              Release, AfterClose,
              encoderVars
<1> QED
  BY <1>1, <1>2, <1>3, <1>4, <1>5, <1>6 DEF Next

\* The packetizer takes no socket that is being closed.
LEMMA NextSend == ASSUME Safety, [Next]_vars PROVE SocketOutlivesSend'
<1> USE DEF Safety, DirectInv, TypeOK, AtInv, Step, At, Threads, ClosePlaces, SocketInv, SocketOutlivesSend,
            None, NoThread
<1>1. CASE Enter \/ PresentStep
  BY <1>1 DEF Enter, PresentStep, Lock, EnsureSlots, OpenVideoSocket, CreatePipes, CreateProcess,
              StartPacketizer, Capture, CaptureNothing, Return, Wake,
              encoderVars
<1>2. CASE WorkerStep \/ SpuriousWakeup \/ WriteFrame
  BY <1>2 DEF WorkerStep, SpuriousWakeup, WriteFrame, Relock, WorkerExits, NothingToDo, Block,
              ToldToStop, Disconnect, TakeNewest, Map, WriteFails, FrameDone, ClearSlots, Pause,
              encoderVars
<1>3. CASE ReadOutput \/ SendFrame \/ (\E p \in alive : ProcessEnds(p)) \/ UNCHANGED vars
  BY <1>3 DEF ReadOutput, SendFrame, ProcessEnds, vars, Packetizer,
              encoderVars
<1>4. CASE (\E b \in BOOLEAN : SetReceiverAvailable(b)) \/ Start \/ Stop
  BY <1>4 DEF SetReceiverAvailable, Start, Stop,
              encoderVars
<1>5. CASE ControlStep
  BY <1>5 DEF ControlStep, ResetFailure, RequestDisconnect, Cancel, Notify, StopProcess, StopJoin,
              StopReset, Wake,
              encoderVars
<1>6. ASSUME NEW t \in Threads, CloseStep(t) PROVE SocketOutlivesSend'
  BY <1>6 DEF CloseStep, Invalidate, CloseStdin, Kill, Killed, FindPacketizer, JoinPacketizer,
              Release, AfterClose,
              encoderVars
<1> QED
  BY <1>1, <1>2, <1>3, <1>4, <1>5, <1>6 DEF Next

\* While an encoder is started nobody else touches the slots.
LEMMA NextStart == ASSUME Safety, [Next]_vars PROVE StartInv'
<1> USE DirectAssumption DEF Safety, DirectInv, TypeOK, AtInv, Step, At, Threads, ClosePlaces, LockInv, LifeInv, StartInv, WorkerOwns,
            Unused, Pending, None, Free
<1>1. CASE Enter \/ PresentStep
  BY <1>1 DEF Enter, PresentStep, Lock, EnsureSlots, OpenVideoSocket, CreatePipes, CreateProcess,
              StartPacketizer, Capture, CaptureNothing, Return, Wake,
              flagVars, lockVars, frameVars, encoderVars
<1>2. CASE WorkerStep \/ SpuriousWakeup \/ WriteFrame
  BY <1>2 DEF WorkerStep, SpuriousWakeup, WriteFrame, Relock, WorkerExits, NothingToDo, Block,
              ToldToStop, Disconnect, TakeNewest, Map, WriteFails, FrameDone, ClearSlots, Pause,
              flagVars, lockVars, frameVars, encoderVars
<1>3. CASE ReadOutput \/ SendFrame \/ (\E p \in alive : ProcessEnds(p)) \/ UNCHANGED vars
  BY <1>3 DEF ReadOutput, SendFrame, ProcessEnds, vars, Packetizer,
              flagVars, lockVars, frameVars, encoderVars
<1>4. CASE (\E b \in BOOLEAN : SetReceiverAvailable(b)) \/ Start \/ Stop
  BY <1>4 DEF SetReceiverAvailable, Start, Stop,
              flagVars, lockVars, frameVars, encoderVars
<1>5. CASE ControlStep
  BY <1>5 DEF ControlStep, ResetFailure, RequestDisconnect, Cancel, Notify, StopProcess, StopJoin,
              StopReset, Wake,
              flagVars, lockVars, frameVars, encoderVars
<1>6. ASSUME NEW t \in Threads, CloseStep(t) PROVE StartInv'
  BY <1>6 DEF CloseStep, Invalidate, CloseStdin, Kill, Killed, FindPacketizer, JoinPacketizer,
              Release, AfterClose,
              flagVars, lockVars, frameVars, encoderVars
<1> QED
  BY <1>1, <1>2, <1>3, <1>4, <1>5, <1>6 DEF Next

\* Frames are numbered as they come, and taken newest first.
LEMMA NextSlots == ASSUME Safety, [Next]_vars PROVE SlotsInv'
<1> USE DirectAssumption DEF Safety, DirectInv, TypeOK, AtInv, Step, At, Threads, ClosePlaces, LockInv, LifeInv,
            StartInv, SlotsInv, WorkerOwns, Unused, Pending, NoWork, None, Free
<1>1. CASE Capture
  <2>1. slots \in [Slots -> 0 .. Frames] /\ sequence < Frames
    BY <1>1 DEF Capture
  <2>2. PICK s \in Slots : slots[s] = 0 /\ slots' = [slots EXCEPT ![s] = sequence + 1]
    BY <1>1 DEF Capture, Usable
  <2>3. slots' \in [Slots -> 0 .. Frames] /\ slots' # NoSlots
    BY <2>1, <2>2
  <2>4. /\ at'["worker"] \in {at["worker"], "relock"}
        /\ at'["worker"] = "relock" => at["worker"] \in {"wait", "relock"}
        /\ at'["present"] = "idle" /\ UNCHANGED <<work, written, pipe>> /\ sequence' = sequence + 1
    BY <1>1 DEF Capture, Wake, encoderVars
  <2> QED
    BY <2>1, <2>2, <2>3, <2>4
<1>2. CASE EnsureSlots
  BY <1>2 DEF EnsureSlots, flagVars, encoderVars
<1>3. CASE Enter \/ Lock \/ OpenVideoSocket \/ CreatePipes \/ CreateProcess \/ StartPacketizer
           \/ CaptureNothing \/ Return
  BY <1>3 DEF Enter, Lock, OpenVideoSocket, CreatePipes, CreateProcess, StartPacketizer,
              CaptureNothing, Return, frameVars, encoderVars
<1>4. CASE TakeNewest
  BY <1>4 DEF TakeNewest, Newest, WithoutOlder, encoderVars
<1>5. CASE Map
  <2>1. /\ at["worker"] = "map" /\ at'["worker"] \in {"top", "done", "write"}
        /\ UNCHANGED <<slots, sequence, written>>
        /\ work'.slot = work.slot /\ work'.seq = work.seq
    BY <1>5 DEF Map, frameVars
  <2> QED
    BY <2>1
<1>6. CASE WriteFrame
  BY <1>6 DEF WriteFrame, frameVars, encoderVars
<1>7. CASE FrameDone
  BY <1>7 DEF FrameDone, frameVars, encoderVars
<1>8. CASE Disconnect \/ ClearSlots
  BY <1>8 DEF Disconnect, ClearSlots, frameVars, encoderVars
<1>9. CASE Relock \/ WorkerExits \/ NothingToDo \/ Block \/ ToldToStop \/ WriteFails \/ Pause
           \/ SpuriousWakeup
  BY <1>9 DEF Relock, WorkerExits, NothingToDo, Block, ToldToStop, WriteFails, Pause,
              SpuriousWakeup, frameVars, encoderVars
<1>10. CASE ReadOutput \/ SendFrame \/ (\E p \in alive : ProcessEnds(p)) \/ UNCHANGED vars
  BY <1>10 DEF ReadOutput, SendFrame, ProcessEnds, vars, frameVars, encoderVars
<1>11. CASE (\E b \in BOOLEAN : SetReceiverAvailable(b)) \/ Start \/ Stop
  BY <1>11 DEF SetReceiverAvailable, Start, Stop, frameVars, encoderVars
<1>12. CASE ControlStep
  <2>1. CASE Cancel("cancel", "notify") \/ Cancel("stopCancel", "stopProcess")
    BY <1>12, <2>1 DEF Cancel, frameVars, encoderVars
  <2>2. CASE Notify("notify", "idle") \/ Notify("stopNotify", "stopJoin")
    BY <1>12, <2>2 DEF Notify, Wake, frameVars, encoderVars
  <2>3. CASE StopReset
    BY <1>12, <2>3 DEF StopReset, encoderVars
  <2>4. CASE ResetFailure \/ RequestDisconnect \/ StopProcess \/ StopJoin
    BY <1>12, <2>4 DEF ResetFailure, RequestDisconnect, StopProcess, StopJoin, frameVars,
                       encoderVars
  <2> QED
    BY <1>12, <2>1, <2>2, <2>3, <2>4 DEF ControlStep
<1>13. ASSUME NEW t \in Threads, CloseStep(t) PROVE SlotsInv'
  BY <1>13 DEF CloseStep, Invalidate, CloseStdin, Kill, Killed, FindPacketizer, JoinPacketizer,
               Release, AfterClose, frameVars
<1> QED
  BY <1>1, <1>2, <1>3, <1>4, <1>5, <1>6, <1>7, <1>8, <1>9, <1>10, <1>11, <1>12, <1>13
     DEF Next, PresentStep, WorkerStep

\* The slot and the pipe of the worker stay what they are.
LEMMA NextOwns == ASSUME Safety, [Next]_vars PROVE WorkerOwns'
<1> USE DirectAssumption DEF Safety, DirectInv, TypeOK, AtInv, Step, At, Threads, ClosePlaces, LockInv, LifeInv,
            StartInv, SlotsInv, WorkerOwns, Unused, Pending, NoWork, None, Free
<1>1. CASE Capture
  <2>1. slots \in [Slots -> 0 .. Frames] /\ sequence < Frames
    BY <1>1 DEF Capture
  <2>2. PICK s \in Slots : slots[s] = 0 /\ slots' = [slots EXCEPT ![s] = sequence + 1]
    BY <1>1 DEF Capture, Usable
  <2>3. slots' \in [Slots -> 0 .. Frames] /\ slots' # NoSlots
    BY <2>1, <2>2
  <2>4. /\ at'["worker"] \in {at["worker"], "relock"}
        /\ at'["worker"] = "relock" => at["worker"] \in {"wait", "relock"}
        /\ at'["present"] = "idle" /\ UNCHANGED <<work, written, pipe>> /\ sequence' = sequence + 1
    BY <1>1 DEF Capture, Wake, encoderVars
  <2> QED
    BY <2>1, <2>2, <2>3, <2>4
<1>2. CASE EnsureSlots
  BY <1>2 DEF EnsureSlots, flagVars, encoderVars
<1>3. CASE Enter \/ Lock \/ OpenVideoSocket \/ CreatePipes \/ CreateProcess \/ StartPacketizer
           \/ CaptureNothing \/ Return
  BY <1>3 DEF Enter, Lock, OpenVideoSocket, CreatePipes, CreateProcess, StartPacketizer,
              CaptureNothing, Return, frameVars, encoderVars
<1>4. CASE TakeNewest
  <2>1. PICK s \in Pending : slots' = WithoutOlder(s) /\ work'.slot = s /\ work'.seq = slots[s]
    BY <1>4 DEF TakeNewest, Newest
  <2>2. slots \in [Slots -> 0 .. Frames] /\ s \in Slots
    BY <2>1
  <2>3. slots' \in [Slots -> 0 .. Frames] /\ slots'[s] = slots[s]
    BY <2>1, <2>2 DEF WithoutOlder
  <2> QED
    BY <1>4, <2>1, <2>3 DEF TakeNewest
<1>5. CASE Map
  BY <1>5 DEF Map, frameVars, encoderVars
<1>6. CASE WriteFrame
  BY <1>6 DEF WriteFrame, frameVars, encoderVars
<1>7. CASE FrameDone
  BY <1>7 DEF FrameDone, frameVars, encoderVars
<1>8. CASE Disconnect \/ ClearSlots
  BY <1>8 DEF Disconnect, ClearSlots, frameVars, encoderVars
<1>9. CASE Relock \/ WorkerExits \/ NothingToDo \/ Block \/ ToldToStop \/ WriteFails \/ Pause
           \/ SpuriousWakeup
  BY <1>9 DEF Relock, WorkerExits, NothingToDo, Block, ToldToStop, WriteFails, Pause,
              SpuriousWakeup, frameVars, encoderVars
<1>10. CASE ReadOutput \/ SendFrame \/ (\E p \in alive : ProcessEnds(p)) \/ UNCHANGED vars
  BY <1>10 DEF ReadOutput, SendFrame, ProcessEnds, vars, frameVars, encoderVars
<1>11. CASE (\E b \in BOOLEAN : SetReceiverAvailable(b)) \/ Start \/ Stop
  BY <1>11 DEF SetReceiverAvailable, Start, Stop, frameVars, encoderVars
<1>12. CASE ControlStep
  <2>1. CASE Cancel("cancel", "notify") \/ Cancel("stopCancel", "stopProcess")
    BY <1>12, <2>1 DEF Cancel, frameVars, encoderVars
  <2>2. CASE Notify("notify", "idle") \/ Notify("stopNotify", "stopJoin")
    BY <1>12, <2>2 DEF Notify, Wake, frameVars, encoderVars
  <2>3. CASE StopReset
    BY <1>12, <2>3 DEF StopReset, encoderVars, Stopping, Stopped
  <2>4. CASE ResetFailure \/ RequestDisconnect \/ StopProcess \/ StopJoin
    BY <1>12, <2>4 DEF ResetFailure, RequestDisconnect, StopProcess, StopJoin, frameVars,
                       encoderVars
  <2> QED
    BY <1>12, <2>1, <2>2, <2>3, <2>4 DEF ControlStep
<1>13. ASSUME NEW t \in Threads, CloseStep(t) PROVE WorkerOwns'
  <2>1. UNCHANGED <<slots, work>>
    BY <1>13 DEF CloseStep, frameVars
  <2>2. at["worker"] \notin {"map", "write", "done"}
    <3>1. CASE t = "present"
      BY <1>13, <3>1 DEF CloseStep, Invalidate, CloseStdin, Kill, Killed, FindPacketizer,
                         JoinPacketizer, Release
    <3>2. CASE t = "worker"
      BY <1>13, <3>2 DEF CloseStep, Invalidate, CloseStdin, Kill, Killed, FindPacketizer,
                         JoinPacketizer, Release
    <3>3. CASE t = "control"
      BY <1>13, <3>3 DEF CloseStep, Invalidate, CloseStdin, Kill, Killed, FindPacketizer,
                         JoinPacketizer, Release, Stopping, Stopped
    <3> QED
      BY <3>1, <3>2, <3>3
  <2>3. at'["worker"] \notin {"map", "write", "done"}
    BY <1>13, <2>2 DEF CloseStep, Invalidate, CloseStdin, Kill, Killed, FindPacketizer,
                       JoinPacketizer, Release, AfterClose
  <2> QED
    BY <2>3
<1> QED
  BY <1>1, <1>2, <1>3, <1>4, <1>5, <1>6, <1>7, <1>8, <1>9, <1>10, <1>11, <1>12, <1>13
     DEF Next, PresentStep, WorkerStep

----------------------------------------------------------------------------
(* Types, part by part: the provers find a step about Booleans and one about *)
(* numbers, and no step about both.                                          *)

FlagsOK ==
  /\ running \in BOOLEAN /\ accepting \in BOOLEAN /\ failed \in BOOLEAN
  /\ available \in BOOLEAN /\ disconnect \in BOOLEAN /\ aborted \in BOOLEAN

PlacesOK ==
  /\ lifecycle \in {"present", "control", Free}
  /\ mutex \in {"present", "worker", Free}
  /\ at["present"] \in PresentPlaces \cup ClosePlaces
  /\ at["worker"] \in WorkerPlaces \cup ClosePlaces
  /\ at["control"] \in ControlPlaces \cup ClosePlaces

FramesOK ==
  /\ slots \in [Slots -> 0 .. Frames] \cup {NoSlots}
  /\ sequence \in 0 .. Frames /\ written \in 0 .. Frames

EncoderOK ==
  /\ opened \in 0 .. Encoders /\ launched \in 0 .. Encoders
  /\ socket \in 0 .. opened
  /\ pipe \in 0 .. launched /\ outPipe \in 0 .. launched /\ process \in 0 .. launched
  /\ alive \in SUBSET (1 .. launched)
  /\ packetizer \in [pc : {"none", "read", "send", "last", "ended"}, fd : 0 .. Encoders]
  /\ fd \in [Threads -> 0 .. Encoders]

WorkOK ==
  work \in [slot : Slots \cup {None}, seq : 0 .. Frames, pipe : 0 .. Encoders, ok : BOOLEAN]

\* The flags are Booleans.
LEMMA NextFlags == ASSUME FlagsOK, [Next]_vars PROVE FlagsOK'
<1> USE DEF Step, At, Threads, FlagsOK
<1>1. CASE Enter \/ PresentStep
  BY <1>1 DEF Enter, PresentStep, Lock, EnsureSlots, OpenVideoSocket, CreatePipes, CreateProcess,
              StartPacketizer, Capture, CaptureNothing, Return, Wake,
              flagVars, lockVars, frameVars, encoderVars
<1>2. CASE WorkerStep \/ SpuriousWakeup \/ WriteFrame
  BY <1>2 DEF WorkerStep, SpuriousWakeup, WriteFrame, Relock, WorkerExits, NothingToDo, Block,
              ToldToStop, Disconnect, TakeNewest, Map, WriteFails, FrameDone, ClearSlots, Pause,
              flagVars, lockVars, frameVars, encoderVars
<1>3. CASE ReadOutput \/ SendFrame \/ (\E p \in alive : ProcessEnds(p)) \/ UNCHANGED vars
  BY <1>3 DEF ReadOutput, SendFrame, ProcessEnds, vars, Packetizer,
              flagVars, lockVars, frameVars, encoderVars
<1>4. CASE (\E b \in BOOLEAN : SetReceiverAvailable(b)) \/ Start \/ Stop
  BY <1>4 DEF SetReceiverAvailable, Start, Stop,
              flagVars, lockVars, frameVars, encoderVars
<1>5. CASE ControlStep
  BY <1>5 DEF ControlStep, ResetFailure, RequestDisconnect, Cancel, Notify, StopProcess, StopJoin,
              StopReset, Wake,
              flagVars, lockVars, frameVars, encoderVars
<1>6. ASSUME NEW t \in Threads, CloseStep(t) PROVE FlagsOK'
  BY <1>6 DEF CloseStep, Invalidate, CloseStdin, Kill, Killed, FindPacketizer, JoinPacketizer,
              Release, AfterClose,
              flagVars, lockVars, frameVars, encoderVars
<1> QED
  BY <1>1, <1>2, <1>3, <1>4, <1>5, <1>6 DEF Next

\* Each thread is at a place of its own, or in CloseEncoder.
LEMMA NextPlaces == ASSUME AtInv, PlacesOK, [Next]_vars PROVE PlacesOK'
<1> USE DEF Step, At, Threads, AtInv, PlacesOK, Free, PresentPlaces, WorkerPlaces, ControlPlaces,
            ClosePlaces
<1>1. CASE Enter \/ PresentStep
  BY <1>1 DEF Enter, PresentStep, Lock, EnsureSlots, OpenVideoSocket, CreatePipes, CreateProcess,
              StartPacketizer, Capture, CaptureNothing, Return, Wake,
              flagVars, lockVars, frameVars, encoderVars
<1>2. CASE WorkerStep \/ SpuriousWakeup \/ WriteFrame
  BY <1>2 DEF WorkerStep, SpuriousWakeup, WriteFrame, Relock, WorkerExits, NothingToDo, Block,
              ToldToStop, Disconnect, TakeNewest, Map, WriteFails, FrameDone, ClearSlots, Pause,
              flagVars, lockVars, frameVars, encoderVars
<1>3. CASE ReadOutput \/ SendFrame \/ (\E p \in alive : ProcessEnds(p)) \/ UNCHANGED vars
  BY <1>3 DEF ReadOutput, SendFrame, ProcessEnds, vars, Packetizer,
              flagVars, lockVars, frameVars, encoderVars
<1>4. CASE (\E b \in BOOLEAN : SetReceiverAvailable(b)) \/ Start \/ Stop
  BY <1>4 DEF SetReceiverAvailable, Start, Stop,
              flagVars, lockVars, frameVars, encoderVars
<1>5. CASE ControlStep
  BY <1>5 DEF ControlStep, ResetFailure, RequestDisconnect, Cancel, Notify, StopProcess, StopJoin,
              StopReset, Wake,
              flagVars, lockVars, frameVars, encoderVars
<1>6. ASSUME NEW t \in Threads, CloseStep(t) PROVE PlacesOK'
  BY <1>6 DEF CloseStep, Invalidate, CloseStdin, Kill, Killed, FindPacketizer, JoinPacketizer,
              Release, AfterClose,
              flagVars, lockVars, frameVars, encoderVars
<1> QED
  BY <1>1, <1>2, <1>3, <1>4, <1>5, <1>6 DEF Next

\* The slots hold the numbers of frames.
LEMMA NextFrames == ASSUME Safety, [Next]_vars PROVE FramesOK'
<1>0. /\ FramesOK
      /\ at["present"] = "capture" => slots # NoSlots /\ sequence < Frames
      /\ at["worker"] = "done" => slots # NoSlots /\ work.slot \in Slots
      /\ work.seq \in 0 .. Frames
  BY DEF Safety, DirectInv, TypeOK, FramesOK, StartInv, SlotsInv, WorkerOwns
<1> USE <1>0, DirectAssumption DEF Step, At, FramesOK, Pending, Unused
<1>1. CASE Enter \/ PresentStep
  <2>1. CASE Capture
    BY <1>1, <2>1 DEF Capture, Usable
  <2>2. CASE EnsureSlots
    BY <1>1, <2>2 DEF EnsureSlots
  <2>3. CASE Enter \/ Lock \/ OpenVideoSocket \/ CreatePipes \/ CreateProcess \/ StartPacketizer
           \/ CaptureNothing \/ Return
    BY <1>1, <2>3 DEF Enter, Lock, OpenVideoSocket, CreatePipes, CreateProcess, StartPacketizer,
                CaptureNothing, Return, frameVars
  <2> QED
    BY <1>1, <2>1, <2>2, <2>3 DEF PresentStep
<1>2. CASE WorkerStep \/ SpuriousWakeup \/ WriteFrame
  <2>1. CASE TakeNewest
    BY <1>2, <2>1 DEF TakeNewest, Newest, WithoutOlder
  <2>2. CASE FrameDone
    BY <1>2, <2>2 DEF FrameDone
  <2>3. CASE Disconnect \/ ClearSlots
    BY <1>2, <2>3 DEF Disconnect, ClearSlots
  <2>4. CASE WriteFrame
    BY <1>2, <2>4 DEF WriteFrame
  <2>5. CASE Relock \/ WorkerExits \/ NothingToDo \/ Block \/ ToldToStop \/ Map \/ WriteFails
           \/ Pause \/ SpuriousWakeup
    BY <1>2, <2>5 DEF Relock, WorkerExits, NothingToDo, Block, ToldToStop, Map, WriteFails, Pause,
                SpuriousWakeup, frameVars
  <2> QED
    BY <1>2, <2>1, <2>2, <2>3, <2>4, <2>5 DEF WorkerStep
<1>3. CASE ReadOutput \/ SendFrame \/ (\E p \in alive : ProcessEnds(p)) \/ UNCHANGED vars
  BY <1>3 DEF ReadOutput, SendFrame, ProcessEnds, vars, Packetizer,
              flagVars, lockVars, frameVars, encoderVars
<1>4. CASE (\E b \in BOOLEAN : SetReceiverAvailable(b)) \/ Start \/ Stop
  BY <1>4 DEF SetReceiverAvailable, Start, Stop,
              flagVars, lockVars, frameVars, encoderVars
<1>5. CASE ControlStep
  BY <1>5 DEF ControlStep, ResetFailure, RequestDisconnect, Cancel, Notify, StopProcess, StopJoin,
              StopReset, Wake,
              flagVars, lockVars, frameVars, encoderVars
<1>6. ASSUME NEW t \in Threads, CloseStep(t) PROVE FramesOK'
  BY <1>6 DEF CloseStep, Invalidate, CloseStdin, Kill, Killed, FindPacketizer, JoinPacketizer,
              Release, AfterClose,
              flagVars, lockVars, frameVars, encoderVars
<1> QED
  BY <1>1, <1>2, <1>3, <1>4, <1>5, <1>6 DEF Next

\* Handles are numbers of what has been opened.
LEMMA NextEncoder == ASSUME Safety, [Next]_vars PROVE EncoderOK'
<1>0. /\ EncoderOK
      /\ at["present"] = "socket" => opened < Encoders
      /\ at["present"] = "pipes" => launched < opened
      /\ at["present"] = "process" => launched > 0
  BY DEF Safety, DirectInv, TypeOK, EncoderOK, StartInv
<1> USE <1>0, DirectAssumption DEF Step, At, EncoderOK, NoThread, None
<1>1. CASE Enter \/ PresentStep
  <2>1. CASE OpenVideoSocket
    BY <1>1, <2>1 DEF OpenVideoSocket
  <2>2. CASE CreatePipes
    BY <1>1, <2>2 DEF CreatePipes
  <2>3. CASE CreateProcess
    <3>1. /\ process' \in {process, launched} /\ alive' \in {alive, alive \cup {launched}}
          /\ pipe' \in {pipe, None} /\ outPipe' \in {outPipe, None}
          /\ UNCHANGED <<opened, launched, socket, packetizer, fd>>
          /\ launched > 0
      BY <1>1, <2>3 DEF CreateProcess
    <3> QED
      BY <3>1
  <2>4. CASE StartPacketizer
    BY <1>1, <2>4 DEF StartPacketizer
  <2>5. CASE Enter \/ Lock \/ EnsureSlots \/ Capture \/ CaptureNothing \/ Return
    BY <1>1, <2>5 DEF Enter, Lock, EnsureSlots, Capture, CaptureNothing, Return, encoderVars
  <2> QED
    BY <1>1, <2>1, <2>2, <2>3, <2>4, <2>5 DEF PresentStep
<1>2. CASE WorkerStep \/ SpuriousWakeup \/ WriteFrame
  BY <1>2 DEF WorkerStep, SpuriousWakeup, WriteFrame, Relock, WorkerExits, NothingToDo, Block,
              ToldToStop, Disconnect, TakeNewest, Map, WriteFails, FrameDone, ClearSlots, Pause,
              flagVars, lockVars, frameVars, encoderVars
<1>3. CASE ReadOutput \/ SendFrame \/ (\E p \in alive : ProcessEnds(p)) \/ UNCHANGED vars
  <2>1. CASE ReadOutput
    BY <1>3, <2>1 DEF ReadOutput, Packetizer
  <2>2. CASE SendFrame
    BY <1>3, <2>2 DEF SendFrame, Packetizer
  <2>3. CASE \E p \in alive : ProcessEnds(p)
    BY <1>3, <2>3 DEF ProcessEnds
  <2>4. CASE UNCHANGED vars
    BY <1>3, <2>4 DEF vars, encoderVars
  <2> QED
    BY <1>3, <2>1, <2>2, <2>3, <2>4
<1>4. CASE (\E b \in BOOLEAN : SetReceiverAvailable(b)) \/ Start \/ Stop
  BY <1>4 DEF SetReceiverAvailable, Start, Stop,
              flagVars, lockVars, frameVars, encoderVars
<1>5. CASE ControlStep
  BY <1>5 DEF ControlStep, ResetFailure, RequestDisconnect, Cancel, Notify, StopProcess, StopJoin,
              StopReset, Wake,
              flagVars, lockVars, frameVars, encoderVars
<1>6. ASSUME NEW t \in Threads, CloseStep(t) PROVE EncoderOK'
  <2>1. CASE Invalidate(t)
    BY <1>6, <2>1 DEF CloseStep, Invalidate
  <2>2. CASE CloseStdin(t)
    BY <1>6, <2>2 DEF CloseStep, CloseStdin
  <2>3. CASE Kill(t) \/ Killed(t)
    <3>1. /\ process' \in {process, None} /\ alive' \subseteq alive /\ outPipe' \in {outPipe, None}
          /\ UNCHANGED <<opened, launched, socket, pipe, packetizer, fd>>
      BY <1>6, <2>3 DEF CloseStep, Kill, Killed
    <3> QED
      BY <3>1
  <2>4. CASE FindPacketizer(t) \/ JoinPacketizer(t)
    <3>1. /\ packetizer' \in {packetizer, NoThread}
          /\ UNCHANGED <<opened, launched, socket, pipe, outPipe, process, alive, fd>>
      BY <1>6, <2>4 DEF CloseStep, FindPacketizer, JoinPacketizer
    <3> QED
      BY <3>1
  <2>5. CASE Release(t)
    BY <1>6, <2>5 DEF CloseStep, Release
  <2> QED
    BY <1>6, <2>1, <2>2, <2>3, <2>4, <2>5 DEF CloseStep
<1> QED
  BY <1>1, <1>2, <1>3, <1>4, <1>5, <1>6 DEF Next

\* The worker's frame is one of a slot.
LEMMA NextWork == ASSUME Safety, [Next]_vars PROVE WorkOK'
<1>0. /\ WorkOK
      /\ slots \in [Slots -> 0 .. Frames] \cup {NoSlots}
      /\ pipe \in 0 .. Encoders
  BY DirectAssumption DEF Safety, DirectInv, TypeOK, WorkOK, StartInv
<1> USE <1>0, DirectAssumption DEF Step, At, WorkOK, NoWork, Pending, None
<1>1. CASE Enter \/ PresentStep
  BY <1>1 DEF Enter, PresentStep, Lock, EnsureSlots, OpenVideoSocket, CreatePipes, CreateProcess,
              StartPacketizer, Capture, CaptureNothing, Return, Wake,
              flagVars, lockVars, frameVars, encoderVars
<1>2. CASE WorkerStep \/ SpuriousWakeup \/ WriteFrame
  <2>1. CASE TakeNewest
    BY <1>2, <2>1 DEF TakeNewest, Newest
  <2>2. CASE Map
    BY <1>2, <2>2 DEF Map
  <2>3. CASE WriteFails
    BY <1>2, <2>3 DEF WriteFails
  <2>4. CASE Disconnect \/ FrameDone \/ Pause
    <3>1. work' = NoWork \/ work' = work
      BY <1>2, <2>4 DEF Disconnect, FrameDone, Pause
    <3>2. NoWork \in [slot : Slots \cup {None}, seq : 0 .. Frames, pipe : 0 .. Encoders,
                     ok : BOOLEAN]
      OBVIOUS
    <3> QED
      BY <3>1, <3>2
  <2>5. CASE Relock \/ WorkerExits \/ NothingToDo \/ Block \/ ToldToStop \/ ClearSlots
           \/ SpuriousWakeup \/ WriteFrame
    BY <1>2, <2>5 DEF Relock, WorkerExits, NothingToDo, Block, ToldToStop, ClearSlots, SpuriousWakeup,
                WriteFrame
  <2> QED
    BY <1>2, <2>1, <2>2, <2>3, <2>4, <2>5 DEF WorkerStep
<1>3. CASE ReadOutput \/ SendFrame \/ (\E p \in alive : ProcessEnds(p)) \/ UNCHANGED vars
  BY <1>3 DEF ReadOutput, SendFrame, ProcessEnds, vars, Packetizer,
              flagVars, lockVars, frameVars, encoderVars
<1>4. CASE (\E b \in BOOLEAN : SetReceiverAvailable(b)) \/ Start \/ Stop
  BY <1>4 DEF SetReceiverAvailable, Start, Stop,
              flagVars, lockVars, frameVars, encoderVars
<1>5. CASE ControlStep
  BY <1>5 DEF ControlStep, ResetFailure, RequestDisconnect, Cancel, Notify, StopProcess, StopJoin,
              StopReset, Wake,
              flagVars, lockVars, frameVars, encoderVars
<1>6. ASSUME NEW t \in Threads, CloseStep(t) PROVE WorkOK'
  BY <1>6 DEF CloseStep, Invalidate, CloseStdin, Kill, Killed, FindPacketizer, JoinPacketizer,
              Release, AfterClose,
              flagVars, lockVars, frameVars, encoderVars
<1> QED
  BY <1>1, <1>2, <1>3, <1>4, <1>5, <1>6 DEF Next

----------------------------------------------------------------------------
(* The invariant, and what it says of the four properties.                  *)

LEMMA Starts == Init => Safety
<1> USE DirectAssumption DEF Init, Threads, Pending, NoThread, NoWork, None, Free
<1> SUFFICES ASSUME Init PROVE Safety
  OBVIOUS
<1>1. at["present"] = "idle" /\ at["control"] = "idle" /\ at["worker"] = "none"
  OBVIOUS
<1>2. AtInv
  BY DEF AtInv, PresentPlaces, WorkerPlaces
<1>3. FlagsOK /\ PlacesOK
  BY <1>1 DEF FlagsOK, PlacesOK, PresentPlaces, WorkerPlaces, ControlPlaces
<1>4. FramesOK /\ EncoderOK
  BY DEF FramesOK, EncoderOK
<1>5. WorkOK
  BY DEF WorkOK
<1>6. LockInv /\ LifeInv /\ GoneInv
  BY <1>1 DEF LockInv, LifeInv, GoneInv, Stopping, Stopped, ClosePlaces
<1>7. StartInv /\ SlotsInv /\ WorkerOwns
  BY <1>1 DEF StartInv, SlotsInv, WorkerOwns, ClosePlaces
<1>8. SocketInv /\ SocketOutlivesSend
  BY DEF SocketInv, SocketOutlivesSend
<1> QED
  BY <1>2, <1>3, <1>4, <1>5, <1>6, <1>7, <1>8
     DEF Safety, DirectInv, TypeOK, FlagsOK, PlacesOK, FramesOK, EncoderOK, WorkOK

LEMMA Parts == Safety <=>
  /\ FlagsOK /\ PlacesOK /\ FramesOK /\ EncoderOK /\ WorkOK
  /\ DirectInv /\ WorkerOwns
BY DEF Safety, TypeOK, FlagsOK, PlacesOK, FramesOK, EncoderOK, WorkOK

LEMMA Inductive == Safety /\ [Next]_vars => Safety'
<1> SUFFICES ASSUME Safety, [Next]_vars PROVE Safety'
  OBVIOUS
<1>1. FlagsOK /\ PlacesOK /\ AtInv /\ LockInv /\ LifeInv
  BY Parts DEF DirectInv
<1>2. FlagsOK' /\ PlacesOK' /\ FramesOK' /\ EncoderOK' /\ WorkOK'
  BY <1>1, NextFlags, NextPlaces, NextFrames, NextEncoder, NextWork
<1>3. AtInv' /\ LockInv' /\ LifeInv' /\ GoneInv' /\ StartInv' /\ SlotsInv' /\ SocketInv'
  BY <1>1, NextAt, NextLock, NextLife, NextGone, NextStart, NextSlots, NextSocket
<1>4. SocketOutlivesSend' /\ WorkerOwns'
  BY NextSend, NextOwns
<1> QED
  BY <1>2, <1>3, <1>4
     DEF Safety, DirectInv, TypeOK, FlagsOK, PlacesOK, FramesOK, EncoderOK, WorkOK

LEMMA AlwaysSafety == Spec => []Safety
BY Starts, Inductive, PTL DEF Spec

\* Every variable has its type, the numbers of frames and handles stay in bounds.
THEOREM TypeCorrect == Spec => []TypeOK
<1>1. Safety => TypeOK
  BY DEF Safety
<1> QED
  BY <1>1, AlwaysSafety, PTL

\* Neither a frame presented nor an encoder closed meanwhile takes the slot or the pipe
\* from the worker, which uses both without a lock (direct_mode.cpp:217-219,349,375,377).
THEOREM Owned == Spec => []WorkerOwns
<1>1. Safety => WorkerOwns
  BY DEF Safety
<1> QED
  BY <1>1, AlwaysSafety, PTL

\* FFmpeg gets the frames in the order they were presented in, whichever are left out
\* (direct_mode.cpp:349).
THEOREM InOrder == Spec => []NewestFirst
<1>1. Safety => NewestFirst
  <2> SUFFICES ASSUME Safety, at["worker"] \in {"map", "write"}
               PROVE work.seq > written /\ \A s \in Pending : slots[s] >= work.seq
    BY DEF NewestFirst
  <2>1. slots # NoSlots /\ slots[work.slot] = work.seq /\ work.slot \in Slots /\ work.seq > 0
    BY DEF Safety, DirectInv, SlotsInv, WorkerOwns
  <2>2. work.slot \in Pending
    BY <2>1 DEF Pending
  <2> QED
    BY <2>1, <2>2 DEF Safety, DirectInv, SlotsInv
<1> QED
  BY <1>1, AlwaysSafety, PTL

\* No socket is closed while the packetizer sends on it, by whichever thread
\* (direct_mode.cpp:318-331).
THEOREM SocketsKept == Spec => []SocketOutlivesSend
<1>1. Safety => SocketOutlivesSend
  BY DEF Safety, DirectInv
<1> QED
  BY <1>1, AlwaysSafety, PTL

\* Stop returns only when both threads have ended and every handle has been closed
\* (direct_mode.cpp:59-72), whatever the other threads did when it began.
THEOREM StopsClean == Spec => []StopLeavesNothing
<1>1. Safety => StopLeavesNothing
  BY DEF Safety, DirectInv, LifeInv, GoneInv, StopLeavesNothing, Stopping, Stopped, ClosePlaces
<1> QED
  BY <1>1, AlwaysSafety, PTL
=============================================================================

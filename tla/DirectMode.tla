----------------------------- MODULE DirectMode -----------------------------
(***************************************************************************)
(* The life of the encoder in the SteamVR driver (direct_mode.cpp).  Three *)
(* threads of vrserver share one object: the compositor presents frames    *)
(* and starts FFmpeg (PresentVirtual), the worker copies the newest frame  *)
(* into FFmpeg's stdin and closes a failed or unwanted encoder             *)
(* (EncoderThread), and the main thread switches the stream on and off     *)
(* and starts and stops everything (SetReceiverAvailable, Start, Stop).    *)
(* The packetizer thread sends what FFmpeg prints.  CloseEncoder may be    *)
(* run by each of the three, and the worker runs it under no lock.         *)
(*                                                                         *)
(* FFmpeg and the system calls are external: each may fail.  An encoder    *)
(* process, the pipe to its stdin and the pipe from its stdout have one    *)
(* number; sockets are numbered too; 0 is the invalid handle.              *)
(***************************************************************************)
EXTENDS Integers, FiniteSets

CONSTANTS
  Slots,      \* the staging slots: kStagingSlots of them
  Frames,     \* bound: frames presented
  Encoders,   \* bound: sockets opened, each for an encoder process
  NoSlots     \* slots_ is empty

ASSUME DirectAssumption ==
  /\ IsFiniteSet(Slots) /\ Slots # {}
  /\ Frames \in Nat /\ Encoders \in Nat
  /\ NoSlots \notin [Slots -> 0 .. Frames]

Threads == {"present", "worker", "control"}
Free == "free"
None == 0

VARIABLES
  running, accepting,     \* running_, accepting_
  failed,                 \* encoder_failed_
  available, disconnect,  \* receiver_available_, disconnect_requested_
  lifecycle, mutex,       \* who holds lifecycle_mutex_ and mutex_
  slots,                  \* slots_: the sequence of the pending frame, or 0
  sequence,               \* sequence_
  socket,                 \* video_socket_
  pipe, outPipe, process, \* pipe_, output_pipe_, process_
  packetizer,             \* packetizer_: where it is, and the socket of its send()
  alive,                  \* the FFmpeg processes that run
  opened, launched,       \* sockets and encoders so far
  at,                     \* where each thread is
  fd,                     \* CloseEncoder: the socket to be closed
  work,                   \* the worker's frame: its slot, its sequence, the pipe
                          \* it is written to, and whether all went well
  written,                \* the frame FFmpeg got last
  aborted                 \* std::terminate has been called

flagVars == <<running, accepting, failed, available, disconnect>>
lockVars == <<lifecycle, mutex>>
frameVars == <<slots, sequence, written>>
encoderVars == <<socket, pipe, outPipe, process, packetizer, alive, opened, launched>>
vars == <<flagVars, lockVars, frameVars, encoderVars, at, fd, work, aborted>>

NoThread == [pc |-> "none", fd |-> None]
NoWork == [slot |-> None, seq |-> 0, pipe |-> None, ok |-> FALSE]

Init ==
  /\ running = FALSE /\ accepting = FALSE /\ failed = FALSE
  /\ available = FALSE /\ disconnect = FALSE
  /\ lifecycle = Free /\ mutex = Free
  /\ slots = NoSlots /\ sequence = 0 /\ written = 0
  /\ socket = None /\ pipe = None /\ outPipe = None /\ process = None
  /\ packetizer = NoThread /\ alive = {}
  /\ opened = 0 /\ launched = 0
  /\ at = [t \in Threads |-> IF t = "worker" THEN "none" ELSE "idle"]
  /\ fd = [t \in Threads |-> None]
  /\ work = NoWork
  /\ aborted = FALSE

\* After std::terminate nothing of vrserver moves.
At(t, pc) == ~aborted /\ at[t] = pc
Step(t, from, to) == At(t, from) /\ at' = [at EXCEPT ![t] = to]

\* notify_one: the worker wakes up if it sleeps.
Wake(to) == IF at["worker"] = "wait" THEN [to EXCEPT !["worker"] = "relock"] ELSE to

Pending == IF slots = NoSlots THEN {} ELSE {s \in Slots : slots[s] # 0}
Unused == [s \in Slots |-> 0]

----------------------------------------------------------------------------
(* CloseEncoder, by thread t.                                               *)

\* Where the thread goes on.
AfterClose(t) ==
  CASE t = "present" -> "return"
    [] t = "worker" -> "clear"
    [] t = "control" -> "reset"

\* The socket is invalidated first, so that the packetizer's next send fails.
Invalidate(t) ==
  /\ Step(t, "close", "stdin")
  /\ fd' = [fd EXCEPT ![t] = socket]
  /\ socket' = None
  /\ UNCHANGED <<pipe, outPipe, process, packetizer, alive>>

CloseStdin(t) ==
  /\ Step(t, "stdin", "kill")
  /\ pipe' = None
  /\ UNCHANGED <<socket, outPipe, process, packetizer, alive, fd>>

Kill(t) ==
  /\ Step(t, "kill", IF process = None THEN "packetizer" ELSE "killed")
  /\ alive' = alive \ {process}
  /\ UNCHANGED <<socket, pipe, outPipe, process, packetizer, fd>>

\* Half a second is over, or the process is: in the first case the packetizer's
\* read is cancelled and its pipe is closed.
Killed(t) ==
  /\ Step(t, "killed", "packetizer")
  /\ outPipe' \in {outPipe, None}
  /\ process' = None
  /\ UNCHANGED <<socket, pipe, packetizer, alive, fd>>

\* Mutant: the packetizer is told to stop but not waited for.
JoinNothing(t) ==
  /\ Step(t, "packetizer", "release")
  /\ UNCHANGED <<socket, pipe, outPipe, process, packetizer, alive, fd>>

FindPacketizer(t) ==
  /\ Step(t, "packetizer", IF packetizer.pc = "none" THEN "release" ELSE "join")
  /\ UNCHANGED <<socket, pipe, outPipe, process, packetizer, alive, fd>>

JoinPacketizer(t) ==
  /\ packetizer.pc = "ended"
  /\ Step(t, "join", "release")
  /\ packetizer' = NoThread
  /\ UNCHANGED <<socket, pipe, outPipe, process, alive, fd>>

Release(t) ==
  /\ Step(t, "release", AfterClose(t))
  /\ outPipe' = None
  /\ fd' = [fd EXCEPT ![t] = None]
  /\ UNCHANGED <<socket, pipe, process, packetizer, alive>>

CloseStep(t) ==
  /\ \/ Invalidate(t) \/ CloseStdin(t) \/ Kill(t) \/ Killed(t)
     \/ FindPacketizer(t) \/ JoinPacketizer(t) \/ Release(t)
  /\ UNCHANGED <<flagVars, lockVars, frameVars, opened, launched, work, aborted>>

----------------------------------------------------------------------------
(* PresentVirtual, CopyVirtualFrame and StartEncoder, under both locks.  The *)
(* lock of the D3D context is taken inside of these, and never held across a *)
(* wait for one of them: it is left out.                                     *)

Enter ==
  /\ Step("present", "idle", "lock")
  /\ lifecycle = Free /\ lifecycle' = "present"
  /\ accepting /\ available /\ ~failed
  /\ sequence < Frames /\ opened < Encoders
  /\ UNCHANGED <<flagVars, mutex, frameVars, encoderVars, fd, work, aborted>>

\* It is too early for a frame, or the source cannot be opened: return.
Lock ==
  /\ mutex = Free /\ mutex' = "present"
  /\ \E to \in {"return", "slots"} : Step("present", "lock", to)
  /\ UNCHANGED <<flagVars, lifecycle, frameVars, encoderVars, fd, work, aborted>>

\* Mutant: when a texture cannot be created, the slots made so far are kept.
EnsureSlotsKept ==
  /\ \/ slots # NoSlots /\ Step("present", "slots", "capture") /\ UNCHANGED slots
     \/ /\ slots = NoSlots
        /\ Step("present", "slots", "return")
        /\ \E made \in SUBSET Slots \ {Slots} : slots' = [s \in made |-> 0]
     \/ /\ slots = NoSlots
        /\ Step("present", "slots", IF pipe # None THEN "capture" ELSE "socket")
        /\ slots' = Unused
  /\ UNCHANGED <<flagVars, lockVars, sequence, written, encoderVars, fd, work, aborted>>

\* No slots: create them, which may fail and then leaves none, and start the encoder
\* unless one runs.  Else it is taken to run.
EnsureSlots ==
  /\ \/ slots # NoSlots /\ Step("present", "slots", "capture") /\ UNCHANGED slots
     \/ slots = NoSlots /\ Step("present", "slots", "return") /\ UNCHANGED slots
     \/ /\ slots = NoSlots
        /\ Step("present", "slots", IF pipe # None THEN "capture" ELSE "socket")
        /\ slots' = Unused
  /\ UNCHANGED <<flagVars, lockVars, sequence, written, encoderVars, fd, work, aborted>>

OpenVideoSocket ==
  /\ \/ /\ Step("present", "socket", "pipes")
        /\ opened' = opened + 1 /\ socket' = opened'
        /\ UNCHANGED failed
     \/ /\ Step("present", "socket", "return")
        /\ failed' = TRUE
        /\ UNCHANGED <<opened, socket>>
  /\ UNCHANGED <<running, accepting, available, disconnect, lockVars, frameVars, pipe,
                 outPipe, process, packetizer, alive, launched, fd, work, aborted>>

\* Unless FFmpeg's command line is too long; the socket stays open then.
CreatePipes ==
  /\ \/ /\ Step("present", "pipes", "process")
        /\ launched' = launched + 1
        /\ pipe' = launched' /\ outPipe' = launched'
        /\ UNCHANGED failed
     \/ /\ Step("present", "pipes", "return")
        /\ failed' = TRUE
        /\ UNCHANGED <<launched, pipe, outPipe>>
  /\ UNCHANGED <<running, accepting, available, disconnect, lockVars, frameVars, socket,
                 process, packetizer, alive, opened, fd, work, aborted>>

CreateProcess ==
  /\ \/ /\ Step("present", "process", "thread")
        /\ process' = launched /\ alive' = alive \cup {launched}
        /\ UNCHANGED <<failed, pipe, outPipe>>
     \/ /\ Step("present", "process", "close")
        /\ failed' = TRUE
        /\ pipe' = None /\ outPipe' = None
        /\ UNCHANGED <<process, alive>>
  /\ UNCHANGED <<running, accepting, available, disconnect, lockVars, frameVars, socket,
                 packetizer, opened, launched, fd, work, aborted>>

\* Assigning to a std::thread that is joinable terminates vrserver.  FFmpeg
\* prints nothing before its first frame, so nothing comes between the start of
\* the thread and the reset of the flag.
StartPacketizer ==
  /\ Step("present", "thread", "capture")
  /\ IF packetizer.pc = "none"
     THEN packetizer' = [pc |-> "read", fd |-> None] /\ failed' = FALSE
          /\ UNCHANGED aborted
     ELSE aborted' = TRUE /\ UNCHANGED <<packetizer, failed>>
  /\ UNCHANGED <<running, accepting, available, disconnect, lockVars, frameVars, socket,
                 pipe, outPipe, process, alive, opened, launched, fd, work>>

\* Mutant: the slot of the oldest frame is used again.
UsableAny == Slots

\* Where a new frame may be copied to.
Usable == {s \in Slots : slots[s] = 0}

Capture ==
  /\ At("present", "capture")
  /\ \E s \in Usable : slots' = [slots EXCEPT ![s] = sequence + 1]
  /\ sequence' = sequence + 1
  /\ at' = Wake([at EXCEPT !["present"] = "idle"])
  /\ mutex' = Free /\ lifecycle' = Free
  /\ UNCHANGED <<flagVars, written, encoderVars, fd, work, aborted>>

\* No slot is free, or the copy fails.
CaptureNothing ==
  /\ Step("present", "capture", "return")
  /\ UNCHANGED <<flagVars, lockVars, frameVars, encoderVars, fd, work, aborted>>

Return ==
  /\ Step("present", "return", "idle")
  /\ mutex' = Free /\ lifecycle' = Free
  /\ UNCHANGED <<flagVars, frameVars, encoderVars, fd, work, aborted>>

PresentStep ==
  \/ Lock \/ EnsureSlots \/ OpenVideoSocket \/ CreatePipes \/ CreateProcess
  \/ StartPacketizer \/ Capture \/ CaptureNothing \/ Return

----------------------------------------------------------------------------
(* EncoderThread.                                                           *)

\* while (running_), then lock mutex_; also after a wakeup, where the loop of
\* wait() takes the lock again.
Relock ==
  /\ mutex = Free /\ mutex' = "worker"
  /\ \/ running /\ Step("worker", "top", "check")
     \/ Step("worker", "relock", "check")
  /\ UNCHANGED <<flagVars, lifecycle, frameVars, encoderVars, fd, work, aborted>>

WorkerExits ==
  /\ ~running
  /\ Step("worker", "top", "exit")
  /\ UNCHANGED <<flagVars, lockVars, frameVars, encoderVars, fd, work, aborted>>

\* The condition does not hold: the thread goes to sleep in two steps, of which
\* the second releases the lock.
NothingToDo ==
  /\ running /\ ~disconnect /\ Pending = {}
  /\ Step("worker", "check", "block")
  /\ UNCHANGED <<flagVars, lockVars, frameVars, encoderVars, fd, work, aborted>>

Block ==
  /\ Step("worker", "block", "wait")
  /\ mutex' = Free
  /\ UNCHANGED <<flagVars, lifecycle, frameVars, encoderVars, fd, work, aborted>>

SpuriousWakeup ==
  /\ Step("worker", "wait", "relock")
  /\ UNCHANGED <<flagVars, lockVars, frameVars, encoderVars, fd, work, aborted>>

ToldToStop ==
  /\ ~running
  /\ Step("worker", "check", "exit")
  /\ mutex' = Free
  /\ UNCHANGED <<flagVars, lifecycle, frameVars, encoderVars, fd, work, aborted>>

\* The receiver is gone: drop the frames and close the encoder.
Disconnect ==
  /\ running
  /\ disconnect \/ (~available /\ Pending # {})
  /\ Step("worker", "check", "close")
  /\ disconnect' = FALSE
  /\ slots' = IF slots = NoSlots THEN NoSlots ELSE Unused
  /\ work' = NoWork
  /\ mutex' = Free
  /\ UNCHANGED <<running, accepting, failed, available, lifecycle, sequence, written,
                 encoderVars, fd, aborted>>

Newest == {s \in Pending : \A u \in Pending : slots[u] <= slots[s]}

\* Mutant: the older frames stay in their slots.
WithoutOlderNone(s) == slots

WithoutOlder(s) == [u \in Slots |-> IF slots[u] < slots[s] THEN 0 ELSE slots[u]]

\* Take the newest frame and drop the older ones.
TakeNewest ==
  /\ At("worker", "check")
  /\ running /\ ~disconnect /\ available
  /\ at' = [at EXCEPT !["worker"] = "map"]
  /\ \E s \in Newest :
       /\ slots' = WithoutOlder(s)
       /\ work' = [slot |-> s, seq |-> slots[s], pipe |-> None, ok |-> FALSE]
  /\ mutex' = Free
  /\ UNCHANGED <<flagVars, lifecycle, sequence, written, encoderVars, fd, aborted>>

\* Map the staging texture, unless the encoder has failed; the GPU may be busy.
Map ==
  /\ At("worker", "map")
  /\ failed' = (failed \/ (process # None /\ process \notin alive))
  /\ \/ ~failed' /\ Step("worker", "map", "top") /\ UNCHANGED work
     \/ Step("worker", "map", "done") /\ UNCHANGED work
     \/ /\ ~failed'
        /\ Step("worker", "map", IF pipe = None THEN "done" ELSE "write")
        /\ work' = [work EXCEPT !.pipe = pipe, !.ok = TRUE]
  /\ UNCHANGED <<running, accepting, available, disconnect, lockVars, frameVars,
                 encoderVars, fd, aborted>>

WriteFrame ==
  /\ work.pipe \in alive
  /\ Step("worker", "write", "done")
  /\ written' = work.seq
  /\ UNCHANGED <<flagVars, lockVars, slots, sequence, encoderVars, fd, work, aborted>>

WriteFails ==
  /\ work.pipe \notin alive
  /\ Step("worker", "write", "done")
  /\ work' = [work EXCEPT !.ok = FALSE]
  /\ UNCHANGED <<flagVars, lockVars, frameVars, encoderVars, fd, aborted>>

\* The slot is free again; after a failure the encoder is closed.
FrameDone ==
  /\ At("worker", "done") /\ mutex = Free
  /\ slots' = [slots EXCEPT ![work.slot] = 0]
  /\ \/ /\ work.ok \/ ~running
        /\ at' = [at EXCEPT !["worker"] = "top"]
        /\ work' = NoWork
        /\ UNCHANGED failed
     \/ /\ ~work.ok /\ running
        /\ at' = [at EXCEPT !["worker"] = "close"]
        /\ failed' = TRUE
        /\ UNCHANGED work
  /\ UNCHANGED <<running, accepting, available, disconnect, lockVars, sequence, written,
                 encoderVars, fd, aborted>>

\* The encoder is closed; a pause follows only if it had failed.
ClearSlots ==
  /\ mutex = Free
  /\ slots' = NoSlots
  /\ Step("worker", "clear", IF work = NoWork THEN "top" ELSE "pause")
  /\ failed' = (failed /\ work # NoWork)
  /\ UNCHANGED <<running, accepting, available, disconnect, lockVars, sequence, written,
                 encoderVars, fd, work, aborted>>

Pause ==
  /\ Step("worker", "pause", "top")
  /\ failed' = (failed /\ ~(running /\ available))
  /\ work' = NoWork
  /\ UNCHANGED <<running, accepting, available, disconnect, lockVars, frameVars,
                 encoderVars, fd, aborted>>

WorkerStep ==
  \/ Relock \/ WorkerExits \/ NothingToDo \/ Block \/ ToldToStop \/ Disconnect
  \/ TakeNewest \/ Map \/ WriteFails \/ FrameDone \/ ClearSlots \/ Pause

----------------------------------------------------------------------------
(* PacketizerThread.                                                        *)

Packetizer(pc, sock) == packetizer' = [pc |-> pc, fd |-> sock]

\* Its pipe is closed or at its end, or it has read an access unit; what it has
\* read when the pipe ends is sent last.
ReadOutput ==
  /\ ~aborted /\ packetizer.pc = "read"
  /\ \/ outPipe \notin alive /\ Packetizer("ended", None) /\ UNCHANGED failed
     \/ /\ outPipe # None /\ outPipe \notin alive /\ ~failed /\ socket # None
        /\ Packetizer("last", socket)
        /\ UNCHANGED failed
     \/ outPipe \in alive /\ socket # None /\ Packetizer("send", socket) /\ UNCHANGED failed
     \/ outPipe \in alive /\ socket = None /\ Packetizer("ended", None) /\ failed' = TRUE
  /\ UNCHANGED <<running, accepting, available, disconnect, lockVars, frameVars, socket,
                 pipe, outPipe, process, alive, opened, launched, at, fd, work, aborted>>

\* Every packet goes to the socket of that moment; without one, or when send()
\* fails, the rest of the frame is not sent.
SendFrame ==
  /\ ~aborted
  /\ \/ /\ packetizer.pc \in {"send", "last"} /\ socket # None
        /\ Packetizer(packetizer.pc, socket)
        /\ UNCHANGED failed
     \/ packetizer.pc = "send" /\ Packetizer("read", None) /\ UNCHANGED failed
     \/ packetizer.pc = "send" /\ Packetizer("ended", None) /\ failed' = TRUE
     \/ packetizer.pc = "last" /\ Packetizer("ended", None) /\ UNCHANGED failed
  /\ UNCHANGED <<running, accepting, available, disconnect, lockVars, frameVars, socket,
                 pipe, outPipe, process, alive, opened, launched, at, fd, work, aborted>>

\* FFmpeg exits: it crashes, or its stdin has been closed.
ProcessEnds(p) ==
  /\ p \in alive
  /\ alive' = alive \ {p}
  /\ UNCHANGED <<flagVars, lockVars, frameVars, socket, pipe, outPipe, process,
                 packetizer, opened, launched, at, fd, work, aborted>>

----------------------------------------------------------------------------
(* The main thread: SetReceiverAvailable in every RunFrame, Start and Stop.  *)

SetReceiverAvailable(b) ==
  /\ Step("control", "idle",
          IF ~b THEN "request" ELSE IF available THEN "notify" ELSE "unfail")
  /\ available' = b
  /\ UNCHANGED <<running, accepting, failed, disconnect, lockVars, frameVars,
                 encoderVars, fd, work, aborted>>

ResetFailure ==
  /\ Step("control", "unfail", "notify")
  /\ failed' = FALSE
  /\ UNCHANGED <<running, accepting, available, disconnect, lockVars, frameVars,
                 encoderVars, fd, work, aborted>>

RequestDisconnect ==
  /\ Step("control", "request", "cancel")
  /\ disconnect' = TRUE
  /\ UNCHANGED <<running, accepting, failed, available, lockVars, frameVars, encoderVars,
                 fd, work, aborted>>

\* CancelSynchronousIo fails the worker's WriteFile if it is in it right now.
Cancel(from, to) ==
  /\ At("control", from)
  /\ IF at["worker"] = "write"
     THEN /\ at' = [at EXCEPT !["control"] = to, !["worker"] = "done"]
          /\ work' = [work EXCEPT !.ok = FALSE]
     ELSE at' = [at EXCEPT !["control"] = to] /\ UNCHANGED work
  /\ UNCHANGED <<flagVars, lockVars, frameVars, encoderVars, fd, aborted>>

Notify(from, to) ==
  /\ At("control", from)
  /\ at' = Wake([at EXCEPT !["control"] = to])
  /\ UNCHANGED <<flagVars, lockVars, frameVars, encoderVars, fd, work, aborted>>

\* The device may be missing.
Start ==
  /\ ~running /\ lifecycle = Free
  /\ At("control", "idle")
  /\ \/ /\ at' = [at EXCEPT !["worker"] = "top"]
        /\ running' = TRUE /\ accepting' = TRUE /\ failed' = FALSE
     \/ failed' = TRUE /\ UNCHANGED <<at, running, accepting>>
  /\ UNCHANGED <<available, disconnect, lockVars, frameVars, encoderVars, fd, work, aborted>>

\* The rest of Stop holds lifecycle_mutex_.
Stop ==
  /\ running /\ lifecycle = Free
  /\ Step("control", "idle", "stopCancel")
  /\ running' = FALSE /\ accepting' = FALSE
  /\ lifecycle' = "control"
  /\ UNCHANGED <<failed, available, disconnect, mutex, frameVars, encoderVars, fd, work,
                 aborted>>

StopProcess ==
  /\ Step("control", "stopProcess", "stopNotify")
  /\ alive' = alive \ {process}
  /\ UNCHANGED <<flagVars, lockVars, frameVars, socket, pipe, outPipe, process,
                 packetizer, opened, launched, fd, work, aborted>>

\* Mutant: Stop leaves the encoder to the worker.
StopJoinOnly ==
  /\ At("worker", "exit") /\ At("control", "stopJoin")
  /\ at' = [at EXCEPT !["control"] = "reset", !["worker"] = "none"]
  /\ UNCHANGED <<flagVars, lockVars, frameVars, encoderVars, fd, work, aborted>>

StopJoin ==
  /\ At("worker", "exit") /\ At("control", "stopJoin")
  /\ at' = [at EXCEPT !["control"] = "close", !["worker"] = "none"]
  /\ UNCHANGED <<flagVars, lockVars, frameVars, encoderVars, fd, work, aborted>>

StopReset ==
  /\ mutex = Free
  /\ Step("control", "reset", "idle")
  /\ slots' = NoSlots
  /\ lifecycle' = Free
  /\ UNCHANGED <<flagVars, mutex, sequence, written, encoderVars, fd, work, aborted>>

ControlStep ==
  \/ ResetFailure \/ RequestDisconnect
  \/ Cancel("cancel", "notify") \/ Notify("notify", "idle")
  \/ Cancel("stopCancel", "stopProcess") \/ StopProcess \/ Notify("stopNotify", "stopJoin")
  \/ StopJoin \/ StopReset

----------------------------------------------------------------------------
Next ==
  \/ Enter \/ PresentStep
  \/ WorkerStep \/ SpuriousWakeup \/ WriteFrame
  \/ ReadOutput \/ SendFrame
  \/ \E p \in alive : ProcessEnds(p)
  \/ \E b \in BOOLEAN : SetReceiverAvailable(b)
  \/ Start \/ Stop \/ ControlStep
  \/ \E t \in Threads : CloseStep(t)

Spec == Init /\ [][Next]_vars

\* Every thread runs and gets a lock that is free again and again, and FFmpeg ends
\* when nobody holds its stdin.  That FFmpeg reads its stdin is not assumed, nor
\* that a sleeping thread wakes up by itself.
FairSpec ==
  /\ Spec
  /\ SF_vars(PresentStep)
  /\ SF_vars(WorkerStep)
  /\ WF_vars(ControlStep)
  /\ WF_vars(ReadOutput \/ SendFrame)
  /\ \A t \in Threads : WF_vars(CloseStep(t))
  /\ \A p \in 1 .. Encoders : WF_vars(p # pipe /\ ProcessEnds(p))
----------------------------------------------------------------------------
ClosePlaces == {"close", "stdin", "kill", "killed", "packetizer", "join", "release"}
PresentPlaces == {"idle", "lock", "slots", "socket", "pipes", "process", "thread",
                  "capture", "return"}
WorkerPlaces == {"none", "top", "relock", "check", "block", "wait", "map", "write", "done",
                 "clear", "pause", "exit"}
ControlPlaces == {"idle", "unfail", "request", "cancel", "notify", "stopCancel",
                  "stopProcess", "stopNotify", "stopJoin", "reset"}

\* Every variable keeps its type; the staging slots are all there or none is, whatever
\* failed while they were made (direct_mode.cpp:95-106,149).
TypeOK ==
  /\ running \in BOOLEAN /\ accepting \in BOOLEAN /\ failed \in BOOLEAN
  /\ available \in BOOLEAN /\ disconnect \in BOOLEAN /\ aborted \in BOOLEAN
  /\ lifecycle \in {"present", "control", Free}
  /\ mutex \in {"present", "worker", Free}
  /\ slots \in [Slots -> 0 .. Frames] \cup {NoSlots}
  /\ sequence \in 0 .. Frames /\ written \in 0 .. Frames
  /\ opened \in 0 .. Encoders /\ launched \in 0 .. Encoders
  /\ socket \in 0 .. opened
  /\ pipe \in 0 .. launched /\ outPipe \in 0 .. launched /\ process \in 0 .. launched
  /\ alive \in SUBSET (1 .. launched)
  /\ packetizer \in [pc : {"none", "read", "send", "last", "ended"}, fd : 0 .. Encoders]
  /\ at["present"] \in PresentPlaces \cup ClosePlaces
  /\ at["worker"] \in WorkerPlaces \cup ClosePlaces
  /\ at["control"] \in ControlPlaces \cup ClosePlaces
  /\ fd \in [Threads -> 0 .. Encoders]
  /\ work \in [slot : Slots \cup {None}, seq : 0 .. Frames, pipe : 0 .. Encoders,
               ok : BOOLEAN]

\* The worker reads a slot and writes to FFmpeg without a lock; neither is taken
\* from under it, by a frame presented meanwhile or by an encoder that is closed
\* (direct_mode.cpp:217-219,349,375,377).
WorkerOwns ==
  /\ at["worker"] \in {"map", "write", "done"} =>
       slots # NoSlots /\ slots[work.slot] = work.seq
  /\ at["worker"] = "write" => pipe = work.pipe

\* FFmpeg never gets a frame older than one it has got, and no frame older than
\* the one being encoded is kept (direct_mode.cpp:349).
NewestFirst ==
  at["worker"] \in {"map", "write"} =>
    work.seq > written /\ \A s \in Pending : slots[s] >= work.seq

\* "Keep the SOCKET open until after join: closesocket racing send() is UB"
\* (direct_mode.cpp:320), also when encoders are closed and started at a time.
SocketOutlivesSend ==
  \A t \in Threads :
    at[t] = "release" /\ packetizer.pc \in {"send", "last"} => fd[t] # packetizer.fd

\* When Stop has returned no thread and no handle is left (direct_mode.cpp:59-72).
StopLeavesNothing ==
  ~running /\ at["control"] = "idle" =>
    /\ at["worker"] = "none" /\ at["present"] = "idle"
    /\ packetizer.pc = "none"
    /\ socket = None /\ pipe = None /\ outPipe = None /\ process = None
    /\ slots = NoSlots

\* Stop ends: it "lets the SteamVR shutdown thread join the worker promptly"
\* (direct_mode.cpp:63-65).  The code does not guarantee it: running_ is cleared
\* and the condition notified without mutex_, so the worker may have looked at the
\* condition before and go to sleep afterwards (:62,68,349).
StopEnds == at["control"] = "stopCancel" ~> at["control"] = "idle"
=============================================================================

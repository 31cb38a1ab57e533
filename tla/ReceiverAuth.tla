---------------------------- MODULE ReceiverAuth ----------------------------
(***************************************************************************)
(* Who may use the headset: the main loop of pi-receiver/main.c, the       *)
(* threads of its status server (pi-receiver/status.c), and the grants the *)
(* Steam hosts hold.  The main thread pairs with a host and streams until  *)
(* that host withdraws its grant; a handler thread per TCP request carries *)
(* the withdrawal in; a monitor thread publishes the receiver's state; the *)
(* tracking thread streams poses to the address registered last.  They     *)
(* share a few atomics and interleave between any two accesses.            *)
(*                                                                         *)
(* The device identity is created before the first host is paired and      *)
(* never changes; requests that carry another identity change nothing and  *)
(* are left out.  TRACE and PING requests only read.                       *)
(***************************************************************************)
EXTENDS Integers, FiniteSets

CONSTANTS
  Hosts,     \* PCs with Steam and the SteamVR driver
  Clients,   \* handler threads: a bound on the requests answered at a time
  NoHost

ASSUME AuthAssumption ==
  /\ IsFiniteSet(Hosts) /\ IsFiniteSet(Clients) /\ Clients # {}
  /\ NoHost \notin Hosts

States == {"STARTING", "READY", "STREAMING", "ERROR", "UNAUTHORIZED"}

VARIABLES
  granted,       \* the hosts whose Steam approves this device
  believed,      \* the hosts whose driver last read an approval from Steam's
                 \* files: steam_authorized_
  state,         \* server.state
  revoked,       \* server.authorization_revoked
  pairedHost,    \* server.paired_address
  target,        \* server.tracking_address
  main,          \* the main thread: where it is, and the update it is making
  monitor,       \* the monitor thread, likewise
  monitorStop,   \* monitor.stopping
  video,         \* the thread in svrt_run: "off", "run" or "done"
  videoStop,     \* context.stopping
  tracker,       \* the tracking thread and its snapshot of the authorization
  listener,      \* whether status_thread accepts connections
  client,        \* the handler threads
  quitting,      \* set by SIGINT and SIGTERM
  stopping       \* server.stopping

hostVars == <<granted, believed>>
serverVars == <<state, revoked, pairedHost, target>>
videoVars == <<monitor, monitorStop, video, videoStop>>
serviceVars == <<tracker, listener, client, stopping>>
vars == <<hostVars, serverVars, main, videoVars, serviceVars, quitting>>

Idle == [pc |-> "idle", host |-> NoHost, approved |-> TRUE]
At(pc) == [pc |-> pc, value |-> "UNAUTHORIZED", then |-> "none"]

Init ==
  /\ granted \in SUBSET Hosts
  /\ believed = Hosts
  /\ state = "UNAUTHORIZED" /\ revoked = FALSE
  /\ pairedHost = NoHost /\ target = NoHost
  /\ main = At("outer")
  /\ monitor = At("off") /\ monitorStop = FALSE
  /\ video = "off" /\ videoStop = FALSE
  /\ tracker = [pc |-> "load", authorized |-> FALSE]
  /\ listener = TRUE
  /\ client = [c \in Clients |-> Idle]
  /\ quitting = FALSE /\ stopping = FALSE

----------------------------------------------------------------------------
(* The hosts.                                                               *)

\* A user approves the device in Steam, or removes it.
ChangeGrant(h) ==
  /\ granted' = IF h \in granted THEN granted \ {h} ELSE granted \cup {h}
  /\ UNCHANGED <<believed, serverVars, main, videoVars, serviceVars, quitting>>

\* The driver reads localconfig.vdf again after a poll.
Recheck(h) ==
  /\ (h \in believed) # (h \in granted)
  /\ believed' = IF h \in granted THEN believed \cup {h} ELSE believed \ {h}
  /\ UNCHANGED <<granted, serverVars, main, videoVars, serviceVars, quitting>>

Signal ==
  /\ quitting' = TRUE
  /\ UNCHANGED <<hostVars, serverVars, main, videoVars, serviceVars>>

----------------------------------------------------------------------------
(* svrt_status_server_update, from the main thread and from the monitor: it *)
(* loads the revocation flag in one step and stores the state in another.   *)

\* Mutant: a revoked receiver reports a state of its own.
CheckedElsewhere(v) == IF revoked THEN "REVOKED" ELSE v

Checked(v) == IF revoked THEN "UNAUTHORIZED" ELSE v

UpdateThen(v, pc) == [pc |-> "store", value |-> Checked(v), then |-> pc]

----------------------------------------------------------------------------
(* main.                                                                    *)

MainAt(pc) == main.pc = pc /\ UNCHANGED <<hostVars, serviceVars, quitting>>
Goto(pc) == main' = At(pc)

MainStore ==
  /\ MainAt("store")
  /\ state' = main.value
  /\ Goto(main.then)
  /\ UNCHANGED <<revoked, pairedHost, target, videoVars>>

\* while (!quitting)
Outer ==
  /\ MainAt("outer")
  /\ main' = IF quitting THEN At("stop") ELSE UpdateThen("UNAUTHORIZED", "pairing")
  /\ UNCHANGED <<serverVars, videoVars>>

\* authorize_steam_link succeeds: a host approved the device.  Its address is published
\* if the file that names it can be read back; if not, main streams all the same.
Paired(h) ==
  /\ MainAt("pairing")
  /\ h \in granted
  /\ pairedHost' \in {h, pairedHost}
  /\ Goto(IF quitting THEN "stop" ELSE "reset")
  /\ UNCHANGED <<state, revoked, target, videoVars>>

\* It fails, or gives up because the process is told to stop.
NotPaired ==
  /\ MainAt("pairing")
  /\ Goto(IF quitting THEN "stop" ELSE "outer")
  /\ UNCHANGED <<serverVars, videoVars>>

\* Mutant: the flag of the last revocation is left set.
ResetNothing ==
  /\ MainAt("reset")
  /\ Goto("starting")
  /\ UNCHANGED <<serverVars, videoVars>>

Reset ==
  /\ MainAt("reset")
  /\ revoked' = FALSE
  /\ Goto("starting")
  /\ UNCHANGED <<state, pairedHost, target, videoVars>>

Starting ==
  /\ MainAt("starting")
  /\ main' = UpdateThen("STARTING", "inner")
  /\ UNCHANGED <<serverVars, videoVars>>

\* while (!quitting && !revoked)
Inner ==
  /\ MainAt("inner")
  /\ Goto(IF quitting \/ revoked THEN "leave" ELSE "open")
  /\ UNCHANGED <<serverVars, videoVars>>

\* svrt_open fails, or works.
Open ==
  /\ MainAt("open")
  /\ main' \in {UpdateThen("ERROR", "inner"), UpdateThen("READY", "launch")}
  /\ UNCHANGED <<serverVars, videoVars>>

Launch ==
  /\ MainAt("launch")
  /\ monitor' = At("top")
  /\ video' = "run"
  /\ Goto("running")
  /\ UNCHANGED <<serverVars, monitorStop, videoStop>>

\* Mutant: the wait for the video thread does not look at the signal.
RunningUntilRevoked ==
  /\ MainAt("running")
  /\ revoked \/ video = "done"
  /\ videoStop' = (videoStop \/ quitting \/ revoked)
  /\ Goto("join")
  /\ UNCHANGED <<serverVars, monitor, monitorStop, video>>

Running ==
  /\ MainAt("running")
  /\ quitting \/ revoked \/ video = "done"
  /\ videoStop' = (videoStop \/ quitting \/ revoked)
  /\ Goto("join")
  /\ UNCHANGED <<serverVars, monitor, monitorStop, video>>

\* Mutant: the monitor is told to stop but not waited for.
JoinVideoOnly ==
  /\ MainAt("join")
  /\ video = "done"
  /\ video' = "off"
  /\ videoStop' = FALSE
  /\ monitorStop' = TRUE
  /\ Goto("final")
  /\ UNCHANGED <<serverVars, monitor>>

\* The thread in svrt_run is joined; its context is not read again.
Join ==
  /\ MainAt("join")
  /\ video = "done"
  /\ video' = "off"
  /\ videoStop' = FALSE
  /\ monitorStop' = TRUE
  /\ Goto("joinMonitor")
  /\ UNCHANGED <<serverVars, monitor>>

JoinMonitor ==
  /\ MainAt("joinMonitor")
  /\ monitor.pc = "off"
  /\ monitorStop' = FALSE
  /\ Goto("final")
  /\ UNCHANGED <<serverVars, monitor, video, videoStop>>

\* The stream is over: one more update, then svrt_close and the inner loop again.
Final ==
  /\ MainAt("final")
  /\ \E v \in IF revoked \/ quitting THEN {"UNAUTHORIZED"} ELSE {"ERROR", "READY"} :
       main' = UpdateThen(v, "inner")
  /\ UNCHANGED <<serverVars, videoVars>>

\* A revoked host is forgotten; a mere stop keeps it.
Leave ==
  /\ MainAt("leave")
  /\ pairedHost' = IF revoked THEN NoHost ELSE pairedHost
  /\ main' = IF revoked THEN UpdateThen("UNAUTHORIZED", "outer") ELSE At("outer")
  /\ UNCHANGED <<state, revoked, target, videoVars>>

\* svrt_status_server_stop.
Stop ==
  /\ main.pc = "stop"
  /\ stopping' = TRUE
  /\ Goto("joinThreads")
  /\ UNCHANGED <<hostVars, serverVars, videoVars, tracker, listener, client, quitting>>

\* Mutant: only the tracking thread is joined before the handlers are counted.
JoinTracker ==
  /\ MainAt("joinThreads")
  /\ tracker.pc = "exit"
  /\ Goto("drain")
  /\ UNCHANGED <<serverVars, videoVars>>

JoinThreads ==
  /\ MainAt("joinThreads")
  /\ ~listener /\ tracker.pc = "exit"
  /\ Goto("drain")
  /\ UNCHANGED <<serverVars, videoVars>>

\* active_clients is zero.
Drain ==
  /\ MainAt("drain")
  /\ \A c \in Clients : client[c] = Idle
  /\ Goto("exit")
  /\ UNCHANGED <<serverVars, videoVars>>

MainStep ==
  \/ MainStore \/ Outer \/ NotPaired \/ Reset \/ Starting \/ Inner \/ Open
  \/ Launch \/ Running \/ Join \/ JoinMonitor \/ Final \/ Leave \/ Stop
  \/ JoinThreads \/ Drain
  \/ \E h \in Hosts : Paired(h)

----------------------------------------------------------------------------
(* monitor_receiver and svrt_run.                                           *)

MonitorStep ==
  /\ \/ /\ monitor.pc = "top"
        /\ IF monitorStop THEN monitor' = At("off")
           ELSE \E v \in {"READY", "STREAMING"} : monitor' = UpdateThen(v, "top")
        /\ UNCHANGED state
     \/ /\ monitor.pc = "store"
        /\ state' = monitor.value
        /\ monitor' = At("top")
  /\ UNCHANGED <<hostVars, revoked, pairedHost, target, main, monitorStop, video,
                 videoStop, serviceVars, quitting>>

VideoEnds ==
  /\ video = "run"
  /\ video' = "done"
  /\ UNCHANGED <<hostVars, serverVars, main, monitor, monitorStop, videoStop,
                 serviceVars, quitting>>

----------------------------------------------------------------------------
(* tracking_thread.                                                         *)

TrackerGoto(pc, auth) == tracker' = [pc |-> pc, authorized |-> auth]

\* Mutant: the registered address survives the loss of the authorization.
TargetKept == target
TargetAfter == IF tracker.authorized THEN target ELSE NoHost

TrackerStep ==
  /\ \/ /\ tracker.pc = "load"
        /\ IF stopping THEN TrackerGoto("exit", FALSE)
           ELSE TrackerGoto("copy", state # "UNAUTHORIZED")
        /\ UNCHANGED target
     \/ /\ tracker.pc = "copy"
        /\ target' = TargetAfter
        /\ TrackerGoto("poll", tracker.authorized)
     \/ /\ tracker.pc = "poll"
        /\ UNCHANGED target
        /\ TrackerGoto("load", FALSE)
  /\ UNCHANGED <<hostVars, state, revoked, pairedHost, main, videoVars, listener,
                 client, quitting, stopping>>

\* A hello datagram is waiting at the tracking port.
TrackerHello(h) ==
  /\ tracker.pc = "poll" /\ tracker.authorized
  /\ target' = h
  /\ TrackerGoto("load", FALSE)
  /\ UNCHANGED <<hostVars, state, revoked, pairedHost, main, videoVars, listener,
                 client, quitting, stopping>>

----------------------------------------------------------------------------
(* status_thread, and answer_client in a thread per connection.             *)

ListenerExits ==
  /\ stopping /\ listener
  /\ listener' = FALSE
  /\ UNCHANGED <<hostVars, serverVars, main, videoVars, tracker, client, quitting,
                 stopping>>

\* A host polls: its driver says whether Steam approves the device, as it last
\* knew, or asks without the identity because it has not learned it.
Connect(c, h, known) ==
  /\ listener
  /\ client[c] = Idle
  /\ client' = [client EXCEPT ![c] =
       [pc |-> "check", host |-> h, approved |-> known => h \in believed]]
  /\ UNCHANGED <<hostVars, serverVars, main, videoVars, tracker, listener, quitting,
                 stopping>>

ClientAt(c, pc, to) ==
  /\ client[c].pc = pc
  /\ client' = [client EXCEPT ![c].pc = to]
  /\ UNCHANGED <<hostVars, pairedHost, main, videoVars, tracker, listener, quitting,
                 stopping>>

\* request_from_paired_host, under the lock.
Check(c) ==
  /\ ClientAt(c, "check", IF client[c].host = pairedHost /\ ~client[c].approved
                          THEN "revoke" ELSE "read")
  /\ UNCHANGED <<state, revoked, target>>

Revoke(c) ==
  /\ ClientAt(c, "revoke", "unauthorize")
  /\ revoked' = TRUE
  /\ UNCHANGED <<state, target>>

Unauthorize(c) ==
  /\ ClientAt(c, "unauthorize", "read")
  /\ state' = "UNAUTHORIZED"
  /\ UNCHANGED <<revoked, target>>

\* The state decides whether the peer is registered for tracking; the reply
\* carries it, and the identity if the peer is proven.
Read(c) ==
  /\ ClientAt(c, "read", IF state = "UNAUTHORIZED" THEN "reply" ELSE "register")
  /\ UNCHANGED <<state, revoked, target>>

Register(c) ==
  /\ ClientAt(c, "register", "reply")
  /\ target' = client[c].host
  /\ UNCHANGED <<state, revoked>>

Reply(c) ==
  /\ client[c].pc = "reply"
  /\ client' = [client EXCEPT ![c] = Idle]
  /\ UNCHANGED <<hostVars, serverVars, main, videoVars, tracker, listener, quitting,
                 stopping>>

ClientStep(c) ==
  Check(c) \/ Revoke(c) \/ Unauthorize(c) \/ Read(c) \/ Register(c) \/ Reply(c)

Poll(h, known) == \E c \in Clients : Connect(c, h, known)

Next ==
  \/ \E h \in Hosts : ChangeGrant(h) \/ Recheck(h) \/ TrackerHello(h)
  \/ \E h \in Hosts, known \in BOOLEAN : Poll(h, known)
  \/ \E c \in Clients : ClientStep(c)
  \/ Signal
  \/ MainStep \/ MonitorStep \/ VideoEnds \/ TrackerStep \/ ListenerExits

Spec == Init /\ [][Next]_vars

\* Threads are scheduled and a stopped stream ends; a driver that knows the device
\* keeps polling and re-reading Steam's files; pairing succeeds some time if a host
\* keeps approving the device.
FairSpec ==
  /\ Spec
  /\ WF_vars(MainStep)
  /\ WF_vars(MonitorStep)
  /\ WF_vars(VideoEnds /\ videoStop)
  /\ WF_vars(TrackerStep)
  /\ WF_vars(ListenerExits)
  /\ \A c \in Clients : WF_vars(ClientStep(c))
  /\ \A h \in Hosts :
       /\ SF_vars(Poll(h, TRUE))
       /\ WF_vars(Recheck(h))
       /\ SF_vars(Paired(h))
----------------------------------------------------------------------------
MainPlaces ==
  {"outer", "pairing", "reset", "starting", "inner", "open", "launch", "running",
   "join", "joinMonitor", "final", "leave", "stop", "joinThreads", "drain", "exit"}

\* Types: what each thread of main.c and status.c may be at, hold and report.
TypeOK ==
  /\ granted \in SUBSET Hosts
  /\ believed \in SUBSET Hosts
  /\ state \in States
  /\ revoked \in BOOLEAN
  /\ pairedHost \in Hosts \cup {NoHost}
  /\ target \in Hosts \cup {NoHost}
  /\ main \in [pc : MainPlaces \cup {"store"}, value : States,
               then : {"pairing", "inner", "launch", "outer", "none"}]
  /\ main.pc = "store" => main.then # "none"
  /\ monitor \in [pc : {"off", "top", "store"}, value : States, then : {"top", "none"}]
  /\ monitorStop \in BOOLEAN
  /\ video \in {"off", "run", "done"}
  /\ videoStop \in BOOLEAN
  /\ tracker \in [pc : {"load", "copy", "poll", "exit"}, authorized : BOOLEAN]
  /\ listener \in BOOLEAN
  /\ client \in [Clients ->
       [pc : {"idle", "check", "revoke", "unauthorize", "read", "register", "reply"},
        host : Hosts \cup {NoHost}, approved : BOOLEAN]]
  /\ quitting \in BOOLEAN
  /\ stopping \in BOOLEAN

\* While the user is asked to pair, the receiver reports UNAUTHORIZED: the monitor
\* of the revoked stream cannot report it alive again (main.c:180-199,227-230).
PairingIsUnauthorized == main.pc = "pairing" => state = "UNAUTHORIZED"

\* Why these hold: outside the loop around the video stream the monitor is joined,
\* so the main thread and the handlers are the only writers of the state, and the
\* handlers write nothing but UNAUTHORIZED (main.c:166-195).
JoinedInv ==
  /\ main.pc \notin {"running", "join", "joinMonitor"} => monitor.pc = "off"
  /\ main.pc \notin {"running", "join"} => video = "off"
  /\ main.pc = "store" /\ main.then = "pairing" => main.value = "UNAUTHORIZED"
  /\ main.pc = "pairing" => state = "UNAUTHORIZED"
  /\ main.pc \in {"drain", "exit"} => ~listener /\ tracker.pc = "exit"
  /\ main.pc = "exit" => \A c \in Clients : client[c] = Idle

\* When main returns, no thread is left that uses the server on its stack
\* (status.c:460-476).
NothingOutlivesServer ==
  main.pc = "exit" =>
    /\ ~listener /\ tracker.pc = "exit" /\ monitor.pc = "off" /\ video = "off"
    /\ \A c \in Clients : client[c] = Idle

\* status.c:31-32: "an unapproved Steam device must publish no pose".  Poses are
\* marked connected unless the state is UNAUTHORIZED, so once the withdrawal has
\* been stored no update may undo it before the device is paired again.
RevokedPublishesNoPose ==
  revoked /\ (\A c \in Clients : client[c].pc # "unauthorize") =>
    state = "UNAUTHORIZED"

\* The receiver knows the address of the host it streams for, without which it believes
\* no revocation.
HostKnown == main.pc \in {"inner", "running"} => pairedHost # NoHost

\* A withdrawn approval takes effect for good, whatever update, request or pairing
\* it races with: in the end the receiver is unauthorized and streams poses to
\* nobody, unless it streams without having been able to read who its host is
\* (status.c:228-232,321-328,433-436; main.c:88-91,128-231).
RevocationHolds ==
  <>[](granted = {}) /\ []~quitting /\ <>[]HostKnown =>
    <>[](state = "UNAUTHORIZED" /\ target = NoHost)

\* The revocation has been stored, and no update under way will undo it.
Repaired ==
  /\ revoked /\ state = "UNAUTHORIZED"
  /\ main.pc = "store" => main.value = "UNAUTHORIZED"
  /\ monitor.pc = "store" => monitor.value = "UNAUTHORIZED"

\* The race behind RevokedPublishesNoPose reaches no further than the updates that were
\* under way: afterwards no step of any thread reports the device usable until it has
\* been paired again, which alone clears the flag (main.c:139, status.c:433-436).
RevocationSticks == [][Repaired /\ revoked' => Repaired']_vars

\* The receiver waits to be paired, or stops, and no request or hello from before the
\* withdrawal is still being dealt with.
Withdrawn ==
  /\ granted = {} /\ state = "UNAUTHORIZED" /\ target = NoHost
  /\ main.pc \in {"outer", "pairing", "store", "stop", "joinThreads", "drain", "exit"}
  /\ main.pc = "store" => main.value = "UNAUTHORIZED" /\ main.then \in {"pairing", "outer"}
  /\ monitor.pc = "off" /\ ~tracker.authorized
  /\ \A c \in Clients : client[c].pc # "register"

\* The safety half of RevocationHolds: as long as no host approves the device again, no
\* request, hello or update makes it usable or registers anyone for its poses
\* (status.c:228-241,321-342).
RevokedForGood ==
  [](Withdrawn /\ [](granted = {}) => [](state = "UNAUTHORIZED" /\ target = NoHost))

\* And an approval that stays is not undone for ever by revocations still under
\* way: in the end the receiver stays authorized (main.c:139).
ApprovalHolds ==
  <>[](granted = Hosts) /\ []~quitting => <>[](state # "UNAUTHORIZED")

\* Told to stop, the process ends whatever its threads are doing.
Terminates == quitting ~> main.pc = "exit"
=============================================================================

---------------------------- MODULE DriverThreads ----------------------------
(***************************************************************************)
(* The threads of the SteamVR driver and their life: the provider takes and *)
(* drops the OpenVR context, Activate starts the polling thread and the     *)
(* tracking thread of the link and the audio sender, RunFrame passes the    *)
(* link's state on to the sender, Deactivate stops and joins them, and the  *)
(* video worker last.  The polling thread looks up the host (HostLookup),   *)
(* connects and asks; what it makes of the answer is in ReceiverLink.  What *)
(* the video worker does is in DirectMode; here it is one that may miss     *)
(* being told to stop.                                                      *)
(***************************************************************************)
EXTENDS Integers, FiniteSets

CONSTANTS
  Contexts,   \* bound: lookups under way at a time
  NoContext,
  Settings    \* bound: what the settings say: how the host is given, whether to send sound

ASSUME ThreadsAssumption ==
  /\ NoContext \notin Contexts
  /\ Settings \subseteq [named : BOOLEAN, sound : BOOLEAN]

VARIABLES
  settled,        \* nothing outside the driver fails, or stops it, any more
  context,        \* the OpenVR context is held
  hmd,            \* "off", "on", or the thread Deactivate waits for
  cleaning,       \* it is Cleanup that deactivates
  named,          \* the receiver is given by a name, not by an address
  linkRunning,    \* running_ of the link
  link, tracking, \* where its two threads are
  port,           \* tracking_port_ # 0
  ready,          \* receiver_stream_ready(state_)
  lookup, mine, list, contexts,
  audioRunning, available, sender, capture, socket,
  sockets, winsock,
  video           \* the video worker: started, told to stop, asleep all the same, ended

Lookup ==
  INSTANCE HostLookup WITH
    Contexts <- Contexts, NoContext <- NoContext,
    calm <- settled, running <- linkRunning,
    lookup <- lookup, mine <- mine, list <- list, contexts <- contexts

Audio ==
  INSTANCE AudioSender WITH
    calm <- settled, running <- audioRunning, available <- available,
    sender <- sender, capture <- capture, socket <- socket,
    sockets <- sockets, winsock <- winsock

hmdVars == <<settled, context, hmd, cleaning, named>>
linkVars == <<linkRunning, link, tracking, port, ready>>
lookupVars == <<lookup, mine, list, contexts>>
senderVars == <<sender, capture, socket>>
audioVars == <<audioRunning, available, senderVars>>
processVars == <<sockets, winsock>>
vars == <<hmdVars, linkVars, lookupVars, audioVars, processVars, video>>

Init ==
  /\ settled = FALSE /\ context = FALSE
  /\ hmd = "off" /\ cleaning = FALSE /\ named = FALSE
  /\ linkRunning = FALSE /\ link = "off" /\ tracking = "off"
  /\ port = FALSE /\ ready = FALSE
  /\ Lookup!LookupInit
  /\ audioRunning = FALSE /\ available = FALSE
  /\ sender = "off" /\ capture = "none" /\ socket = FALSE
  /\ sockets = 0 /\ winsock = 0
  /\ video = "off"

Settle ==
  /\ hmd = "on"
  /\ ~settled /\ settled' = TRUE
  /\ UNCHANGED <<context, hmd, cleaning, named, linkVars, lookupVars, audioVars,
                 processVars, video>>

----------------------------------------------------------------------------
(* The provider and the device.                                             *)

\* A new device takes the place of the last one.
ProviderInit ==
  /\ ~context /\ hmd = "off"
  /\ context' = TRUE
  /\ available' = FALSE
  /\ UNCHANGED <<settled, hmd, cleaning, named, linkVars, lookupVars, audioRunning,
                 senderVars, processVars, video>>

\* SvrtAudioTransport::Start, if the settings say so.
StartAudio(wanted) ==
  /\ audioRunning' = wanted
  /\ sender' = IF wanted THEN "start" ELSE sender

Activate ==
  /\ context /\ hmd = "off" /\ hmd' = "on"
  /\ \E setting \in Settings :
       /\ named' = setting.named
       /\ StartAudio(setting.sound)
  /\ linkRunning' = TRUE /\ link' = "start" /\ tracking' = "start"
  /\ video' = "started"
  /\ ready' = FALSE
  /\ UNCHANGED <<settled, context, cleaning, port, lookupVars, available, capture,
                 socket, processVars>>

RunFrame ==
  /\ hmd = "on"
  /\ available' = ready
  /\ UNCHANGED <<hmdVars, linkVars, lookupVars, audioRunning, senderVars, processVars,
                 video>>

\* From vrserver, or from Cleanup, which does it whatever state the device is in.
Deactivate(byCleanup) ==
  /\ ~settled
  /\ hmd = "on" \/ (byCleanup /\ context /\ hmd = "off")
  /\ hmd' = "link"
  /\ cleaning' = byCleanup
  /\ linkRunning' = FALSE
  /\ UNCHANGED <<settled, context, named, link, tracking, port, ready, lookupVars,
                 audioVars, processVars, video>>

JoinLink ==
  /\ hmd = "link" /\ hmd' = "tracking"
  /\ link \in {"off", "ended"} /\ link' = "off"
  /\ UNCHANGED <<settled, context, cleaning, named, linkRunning, tracking, port, ready,
                 lookupVars, audioVars, processVars, video>>

JoinTracking ==
  /\ hmd = "tracking" /\ hmd' = "audio"
  /\ tracking \in {"off", "ended"} /\ tracking' = "off"
  /\ port' = FALSE /\ ready' = FALSE
  /\ audioRunning' = FALSE
  /\ UNCHANGED <<settled, context, cleaning, named, linkRunning, link, lookupVars,
                 available, senderVars, processVars, video>>

\* SvrtDirectMode::Stop tells the video worker to stop, unless Start found no graphics
\* device and made none; the worker may miss it and sleep on (DirectMode).
StopVideo ==
  video' \in IF video = "started" THEN {"off", "stopping", "asleep"} ELSE {video}

\* Mutant: the sender is told to stop but not waited for.
JoinAudioLater ==
  /\ hmd = "audio" /\ hmd' = "video"
  /\ sender' = IF sender = "ended" THEN "off" ELSE sender
  /\ StopVideo
  /\ UNCHANGED <<settled, context, cleaning, named, linkVars, lookupVars, audioRunning,
                 available, capture, socket, processVars>>

JoinAudio ==
  /\ hmd = "audio" /\ hmd' = "video"
  /\ sender \in {"off", "ended"} /\ sender' = "off"
  /\ StopVideo
  /\ UNCHANGED <<settled, context, cleaning, named, linkVars, lookupVars, audioRunning,
                 available, capture, socket, processVars>>

\* Cleanup drops the context last.
JoinVideo ==
  /\ hmd = "video" /\ hmd' = "off"
  /\ video \in {"off", "ended"} /\ video' = "off"
  /\ context' = (context /\ ~cleaning) /\ cleaning' = FALSE
  /\ UNCHANGED <<settled, named, linkVars, lookupVars, audioVars, processVars>>

Stop == JoinLink \/ JoinTracking \/ JoinAudio \/ JoinVideo

----------------------------------------------------------------------------
(* SvrtReceiverLink::Run and Poll.                                          *)

LinkGoes(from, to) == link = from /\ link' = to

\* Without an answer the last good state may hold, for a while.
PollFails(from) == LinkGoes(from, "poll") /\ ready' \in BOOLEAN

\* What is answered when nothing fails is READY.
PollAnswered ==
  LinkGoes("talk", "poll") /\ ready' \in (IF settled THEN {TRUE} ELSE BOOLEAN)

\* When Winsock cannot be had, the tracking thread is told to end as well.
LinkStart ==
  /\ \/ LinkGoes("start", "poll") /\ winsock' = winsock + 1 /\ UNCHANGED linkRunning
     \/ ~settled /\ LinkGoes("start", "ended") /\ linkRunning' = FALSE /\ UNCHANGED winsock
  /\ UNCHANGED <<hmdVars, tracking, port, ready, lookupVars, audioVars, sockets, video>>

PollBegins ==
  /\ linkRunning
  /\ \/ named /\ LinkGoes("poll", "resolve") /\ lookup' = "query"
     \/ ~named /\ LinkGoes("poll", "connect") /\ UNCHANGED lookup
  /\ UNCHANGED <<hmdVars, linkRunning, tracking, port, ready, mine, list, contexts,
                 audioVars, processVars, video>>

LinkEnds ==
  /\ ~linkRunning
  /\ LinkGoes("poll", "ended")
  /\ winsock' = winsock - 1
  /\ UNCHANGED <<hmdVars, linkRunning, tracking, port, ready, lookupVars, audioVars,
                 sockets, video>>

Resolve ==
  /\ link = "resolve"
  /\ Lookup!Resolve
  /\ UNCHANGED <<hmdVars, linkVars, audioVars, processVars, video>>

Resolved ==
  /\ lookup' = "idle"
  /\ \/ lookup = "found" /\ LinkGoes("resolve", "connect") /\ UNCHANGED ready
     \/ lookup = "none" /\ PollFails("resolve")
  /\ UNCHANGED <<hmdVars, linkRunning, tracking, port, mine, list, contexts, audioVars,
                 processVars, video>>

\* Try the addresses one after the other, then free the list.
Connect ==
  /\ list' = NoContext
  /\ \/ LinkGoes("connect", "talk") /\ sockets' = sockets + 1 /\ UNCHANGED ready
     \/ ~settled /\ PollFails("connect") /\ UNCHANGED sockets
  /\ UNCHANGED <<hmdVars, linkRunning, tracking, port, lookup, mine, contexts,
                 audioVars, winsock, video>>

\* Mutant: the socket is left open when the tracking thread has no port.
TalkUnclosed ==
  /\ \/ port /\ PollAnswered /\ sockets' = sockets - 1
     \/ port /\ ~settled /\ PollFails("talk") /\ sockets' = sockets - 1
     \/ ~port /\ PollFails("talk") /\ UNCHANGED sockets
  /\ UNCHANGED <<hmdVars, linkRunning, tracking, port, lookupVars, audioVars, winsock, video>>

\* Without a port for the poses the poll is given up.
Talk ==
  /\ \/ port /\ PollAnswered
     \/ (~port \/ ~settled) /\ PollFails("talk")
  /\ sockets' = sockets - 1
  /\ UNCHANGED <<hmdVars, linkRunning, tracking, port, lookupVars, audioVars, winsock, video>>

LinkStep ==
  \/ LinkStart \/ PollBegins \/ LinkEnds
  \/ Resolve \/ Resolved \/ Connect \/ Talk

----------------------------------------------------------------------------
(* SvrtReceiverLink::TrackingRun: the poses themselves are in ReceiverLink. *)

TrackingGoes(from, to) == tracking = from /\ tracking' = to

\* Without Winsock or a socket the thread ends, and leaves no port.
TrackingStep ==
  /\ \/ TrackingGoes("start", "receive") /\ port' = TRUE
        /\ winsock' = winsock + 1 /\ sockets' = sockets + 1
     \/ ~settled /\ TrackingGoes("start", "ended") /\ UNCHANGED <<port, sockets, winsock>>
     \/ ~linkRunning /\ TrackingGoes("receive", "ended") /\ UNCHANGED port
        /\ winsock' = winsock - 1 /\ sockets' = sockets - 1
  /\ UNCHANGED <<hmdVars, linkRunning, link, ready, lookupVars, audioVars, video>>

----------------------------------------------------------------------------
(* The audio sender, and Windows.                                           *)

AudioStep ==
  /\ Audio!AudioRun
  /\ UNCHANGED <<hmdVars, linkVars, lookupVars, audioRunning, available, video>>

DeviceChanges ==
  /\ Audio!DeviceChanges
  /\ UNCHANGED <<hmdVars, linkVars, lookupVars, audioRunning, available, video>>

CallBack(c) ==
  /\ Lookup!ResolveComplete(c)
  /\ UNCHANGED <<hmdVars, linkVars, audioVars, processVars, video>>

\* The video worker ends, or wakes up although nobody notified it.
VideoGoes(from, to) ==
  /\ video = from /\ video' = to
  /\ UNCHANGED <<hmdVars, linkVars, lookupVars, audioVars, processVars>>

VideoStep == VideoGoes("stopping", "ended")

VideoWakesUp == VideoGoes("asleep", "stopping")

Next ==
  \/ Settle \/ ProviderInit \/ Activate \/ RunFrame
  \/ \E byCleanup \in BOOLEAN : Deactivate(byCleanup)
  \/ Stop
  \/ LinkStep \/ TrackingStep \/ AudioStep \/ DeviceChanges
  \/ VideoStep \/ VideoWakesUp
  \/ \E c \in Contexts : CallBack(c)

Spec == Init /\ [][Next]_vars

\* The threads run, every call of Windows returns, vrserver calls RunFrame again and
\* again, and a lookup that was begun is answered or cancelled.  That a sleeping
\* worker wakes up by itself is not assumed.
FairSpec ==
  /\ Spec
  /\ WF_vars(Stop) /\ WF_vars(RunFrame)
  /\ WF_vars(LinkStep) /\ WF_vars(TrackingStep) /\ WF_vars(AudioStep)
  /\ WF_vars(VideoStep)
  /\ \A c \in Contexts : WF_vars(CallBack(c))

----------------------------------------------------------------------------
\* Types, with the counts of lookups, sockets and Winsock references in their ranges: a
\* socket or reference left open at every turn would leave them (receiver_link.cpp:429).
TypeOK ==
  /\ settled \in BOOLEAN /\ context \in BOOLEAN /\ cleaning \in BOOLEAN /\ named \in BOOLEAN
  /\ hmd \in {"off", "on", "link", "tracking", "audio", "video"}
  /\ linkRunning \in BOOLEAN /\ audioRunning \in BOOLEAN
  /\ link \in {"off", "start", "poll", "resolve", "connect", "talk", "ended"}
  /\ tracking \in {"off", "start", "receive", "ended"}
  /\ port \in BOOLEAN /\ ready \in BOOLEAN /\ available \in BOOLEAN
  /\ Lookup!LookupTypeOK
  /\ Audio!AudioTypeOK
  /\ sockets \in 0 .. 3 /\ winsock \in 0 .. 3
  /\ video \in {"off", "started", "stopping", "asleep", "ended"}

\* The context of a lookup outlives everyone who will touch it, and its addresses are
\* freed once (receiver_link.cpp:153-219).
LookupOwned == Lookup!Owned

\* When the OpenVR context is dropped, no thread that could call through it is left,
\* and no socket, no Winsock reference, capture or list of addresses; only lookups
\* that were given up may still call back (driver.cpp:457-467).
NothingLeft ==
  ~context =>
    /\ link = "off" /\ tracking = "off" /\ sender = "off" /\ video = "off"
    /\ sockets = 0 /\ winsock = 0
    /\ capture = "none"
    /\ mine = NoContext /\ list = NoContext

\* Deactivate returns, wherever the four threads are, unless the video worker missed
\* being told to stop: no other join waits for a thread that does not see its flag
\* (driver.cpp:178-182, receiver_link.cpp:257-263, audio.cpp:78-81).
DeactivateEnds ==
  hmd \in {"link", "tracking", "audio", "video"} ~> hmd = "off" \/ video = "asleep"

\* Once nothing fails any more, sound is sent again and again, whatever failed before:
\* lost polls and lookups, a socket that broke, a device that changed.  The threads
\* must have come up: a capture that cannot be opened ends the sender for good, and a
\* link without a port for the poses never gets an answer (receiver_link.cpp:429;
\* audio.cpp:127,145-150,160-177,214-220).
SoundFlows ==
  <>[](settled /\ link # "ended" /\ tracking # "ended"
       /\ sender \notin {"off", "cleanup", "ended"})
    => []<>(sender = "send")
=============================================================================

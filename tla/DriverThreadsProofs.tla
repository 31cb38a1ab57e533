------------------------- MODULE DriverThreadsProofs -------------------------
(***************************************************************************)
(* Proofs about DriverThreads, with the lookup and the audio sender it is   *)
(* composed of, for any number of lookups that are under way.               *)
(***************************************************************************)
EXTENDS DriverThreads, TLAPS

\* How far Deactivate has come, and when the OpenVR context is dropped.
JoinedInv ==
  /\ ~context => hmd = "off"
  /\ hmd \in {"off", "tracking", "audio", "video"} => link = "off"
  /\ hmd \in {"off", "audio", "video"} => tracking = "off"
  /\ hmd \in {"off", "video"} => sender = "off"
  /\ hmd = "off" => video = "off"

\* What the sender has at each place.
SenderInv ==
  /\ sender \in {"off", "start", "ended"} => capture = "none"
  /\ sender \in {"off", "start", "ended", "connect", "reopen"} => ~socket

One(held) == IF held THEN 1 ELSE 0

\* Who has a socket, and who has started Winsock.
SocketsInv ==
  sockets = One(link = "talk") + One(tracking = "receive") + One(socket)

WinsockInv ==
  winsock = One(link \in {"poll", "resolve", "connect", "talk"})
            + One(tracking = "receive")
            + One(sender \in {"look", "connect", "read", "send", "reopen", "cleanup"})

\* Which step of a lookup has a context, what may have become of its callback by
\* then, and until when the list of addresses is there.
LookupInv ==
  /\ link # "resolve" => lookup = "idle"
  /\ lookup \in {"wait", "abandon", "take", "release"} <=> mine # NoContext
  /\ lookup \in {"wait", "abandon"} => contexts[mine].callback # "none"
  /\ lookup \in {"take", "release"} => contexts[mine].callback \notin {"pending", "stored"}
  /\ lookup = "release" => ~contexts[mine].addresses
  /\ list # NoContext =>
       /\ (lookup = "release" /\ list = mine) \/ lookup = "found" \/ link = "connect"
       /\ contexts[list].callback \notin {"pending", "stored"}

ThreadsInv == JoinedInv /\ SenderInv /\ SocketsInv /\ WinsockInv /\ LookupInv

Safety == TypeOK /\ ThreadsInv /\ LookupOwned

----------------------------------------------------------------------------
(* The lookup.                                                              *)

Context == [references : 0 .. 2, event : BOOLEAN, addresses : BOOLEAN,
            callback : {"none", "pending", "stored", "signalled", "over"}]

LEMMA ReleasedOne ==
  ASSUME NEW x \in Context, x.references > 0
  PROVE  /\ Lookup!Released(x, 1) \in Context
         /\ Lookup!Released(x, 1) =
              IF x.references = 1 THEN Lookup!Unused
              ELSE [references |-> 1, event |-> x.event, addresses |-> x.addresses,
                    callback |-> x.callback]
BY DEF Context, Lookup!Released, Lookup!Unused

LEMMA LookupBegins ==
  ASSUME Lookup!LookupTypeOK, LookupInv, LookupOwned, link = "resolve",
         Lookup!NoQuery \/ Lookup!Wait \/ (\E c \in Contexts : Lookup!Query(c)),
         UNCHANGED link
  PROVE  Lookup!LookupTypeOK' /\ LookupInv' /\ LookupOwned'
<1> USE DEF LookupOwned, Lookup!Owned, Lookup!Users, LookupInv
<1>1. CASE Lookup!NoQuery
  BY <1>1 DEF Lookup!NoQuery, Lookup!LookupGoes, Lookup!LookupTypeOK
<1>2. CASE Lookup!Wait
  BY <1>2 DEF Lookup!Wait, Lookup!Signalled, Lookup!LookupTypeOK
<1>3. ASSUME NEW c \in Contexts, Lookup!Query(c)
      PROVE  Lookup!LookupTypeOK' /\ LookupInv' /\ LookupOwned'
  <2>1. PICK callback \in {"pending", "none"}, resolved \in BOOLEAN :
          /\ callback = "pending" => ~resolved
          /\ contexts' = [contexts EXCEPT ![c] =
                [references |-> 2, callback |-> callback, event |-> TRUE,
                 addresses |-> resolved]]
          /\ lookup = "query" /\ lookup' = IF callback = "pending" THEN "wait" ELSE "take"
    BY <1>3 DEF Lookup!Query, Lookup!LookupGoes
  <2>2. mine = NoContext /\ mine' = c /\ list = NoContext /\ list' = NoContext
    BY <1>3, <2>1 DEF Lookup!Query
  <2>3. Lookup!LookupTypeOK'
    BY <2>1, <2>2 DEF Lookup!LookupTypeOK
  <2>4. /\ \A b \in Contexts : b # c => contexts'[b] = contexts[b]
        /\ contexts'[c].references = 2 /\ contexts'[c].event = TRUE
        /\ contexts'[c].callback = callback /\ contexts'[c].addresses = resolved
    BY <2>1 DEF Lookup!LookupTypeOK
  <2>5. LookupInv'
    BY <2>1, <2>2, <2>4, ThreadsAssumption
  <2>6. LookupOwned'
    BY <2>1, <2>2, <2>4, ThreadsAssumption DEF Lookup!LookupTypeOK
  <2> QED
    BY <2>3, <2>5, <2>6
<1> QED
  BY <1>1, <1>2, <1>3

LEMMA LookupGivenUp ==
  ASSUME Lookup!LookupTypeOK, LookupInv, LookupOwned, link = "resolve",
         Lookup!Abandon, UNCHANGED link
  PROVE  Lookup!LookupTypeOK' /\ LookupInv' /\ LookupOwned'
<1>1. /\ mine \in Contexts /\ contexts[mine] \in Context /\ lookup = "abandon"
      /\ lookup' = "none" /\ mine' = NoContext /\ list = NoContext /\ list' = NoContext
      /\ contexts' = [contexts EXCEPT ![mine] = Lookup!Released(@, 1)]
  BY DEF Lookup!Abandon, Lookup!LookupGoes, LookupInv, Lookup!LookupTypeOK, Context
<1>2. contexts[mine].references = Lookup!Users(mine) /\ contexts[mine].references > 0
  BY <1>1 DEF LookupOwned, Lookup!Owned, Lookup!Users, LookupInv
<1>3. /\ Lookup!Released(contexts[mine], 1) \in Context
      /\ Lookup!Released(contexts[mine], 1) =
            IF contexts[mine].references = 1 THEN Lookup!Unused
            ELSE [references |-> 1, event |-> contexts[mine].event,
                  addresses |-> contexts[mine].addresses,
                  callback |-> contexts[mine].callback]
  BY <1>1, <1>2, ReleasedOne
<1>4. /\ \A b \in Contexts : b # mine => contexts'[b] = contexts[b]
      /\ contexts'[mine] = Lookup!Released(contexts[mine], 1)
  BY <1>1 DEF Lookup!LookupTypeOK
<1>5. Lookup!LookupTypeOK'
  BY <1>1, <1>3 DEF Lookup!LookupTypeOK, Context
<1>6. LookupInv'
  BY <1>1 DEF LookupInv
<1>7. LookupOwned'
  BY <1>1, <1>2, <1>3, <1>4, ThreadsAssumption
  DEF LookupInv, LookupOwned, Lookup!Owned, Lookup!Users, Lookup!Unused, Lookup!LookupTypeOK
<1> QED
  BY <1>5, <1>6, <1>7

LEMMA LookupTakes ==
  ASSUME Lookup!LookupTypeOK, LookupInv, LookupOwned, link = "resolve",
         Lookup!Take, UNCHANGED link
  PROVE  Lookup!LookupTypeOK' /\ LookupInv' /\ LookupOwned'
<1>1. /\ mine \in Contexts /\ contexts[mine] \in Context /\ lookup = "take"
      /\ lookup' = "release" /\ mine' = mine /\ list = NoContext
      /\ list' \in {mine, NoContext}
      /\ contexts' = [contexts EXCEPT ![mine].addresses = FALSE]
  BY DEF Lookup!Take, Lookup!LookupGoes, LookupInv, Lookup!LookupTypeOK, Context
<1>2. /\ \A b \in Contexts : b # mine => contexts'[b] = contexts[b]
      /\ contexts'[mine] = [contexts[mine] EXCEPT !.addresses = FALSE]
  BY <1>1 DEF Lookup!LookupTypeOK
<1>3. Lookup!LookupTypeOK'
  BY <1>1 DEF Lookup!LookupTypeOK
<1>4. /\ contexts'[mine].references = contexts[mine].references
      /\ contexts'[mine].callback = contexts[mine].callback
      /\ contexts'[mine].event = contexts[mine].event
      /\ contexts'[mine].addresses = FALSE
  BY <1>1, <1>2 DEF Context
<1>5. LookupInv'
  BY <1>1, <1>4, ThreadsAssumption DEF LookupInv
<1>6. LookupOwned'
  BY <1>1, <1>2, <1>4, ThreadsAssumption DEF LookupInv, LookupOwned, Lookup!Owned, Lookup!Users
<1> QED
  BY <1>3, <1>5, <1>6

LEMMA LookupReleases ==
  ASSUME Lookup!LookupTypeOK, LookupInv, LookupOwned, link = "resolve",
         Lookup!Release, UNCHANGED link
  PROVE  Lookup!LookupTypeOK' /\ LookupInv' /\ LookupOwned'
<1> DEFINE x == contexts[mine]
<1>1. /\ mine \in Contexts /\ x \in Context /\ lookup = "release"
      /\ lookup' = (IF list # NoContext THEN "found" ELSE "none")
      /\ mine' = NoContext /\ list' = list
      /\ contexts' = [contexts EXCEPT ![mine] =
                        Lookup!Released(@, IF @.callback = "none" THEN 2 ELSE 1)]
  BY DEF Lookup!Release, Lookup!LookupGoes, LookupInv, Lookup!LookupTypeOK, Context
<1>2. /\ x.references = (IF x.callback = "none" THEN 2 ELSE IF x.callback = "signalled" THEN 2 ELSE 1)
      /\ x.callback \in {"none", "signalled", "over"} /\ ~x.addresses /\ x.event = TRUE
  BY <1>1 DEF LookupOwned, Lookup!Owned, Lookup!Users, LookupInv, Context
<1>3. /\ \A b \in Contexts : b # mine => contexts'[b] = contexts[b]
      /\ contexts'[mine] = Lookup!Released(x, IF x.callback = "none" THEN 2 ELSE 1)
  BY <1>1 DEF Lookup!LookupTypeOK
<1>4. contexts'[mine] = IF x.callback = "signalled"
                        THEN [references |-> 1, event |-> x.event, addresses |-> x.addresses,
                              callback |-> x.callback]
                        ELSE Lookup!Unused
  <2>1. CASE x.callback = "none"
    BY <1>2, <1>3, <2>1 DEF Lookup!Released
  <2>2. CASE x.callback # "none"
    <3>1. contexts'[mine] = Lookup!Released(x, 1) /\ x.references > 0
      BY <1>2, <1>3, <2>2
    <3> QED
      BY <1>1, <1>2, <2>2, <3>1, ReleasedOne
  <2> QED
    BY <2>1, <2>2
<1>5. contexts'[mine] \in Context
  <2>1. Lookup!Unused \in Context
    BY DEF Context, Lookup!Unused
  <2>2. x.event \in BOOLEAN /\ x.addresses \in BOOLEAN
    BY <1>1 DEF Context
  <2>3. [references |-> 1, event |-> x.event, addresses |-> x.addresses,
         callback |-> "signalled"] \in Context
    BY <2>2 DEF Context
  <2> QED
    BY <1>4, <2>1, <2>3
<1>6. Lookup!LookupTypeOK'
  BY <1>1, <1>3, <1>5 DEF Lookup!LookupTypeOK, Context
<1>7. LookupInv'
  BY <1>1, <1>2, <1>3, <1>4 DEF LookupInv, Lookup!Unused
<1>8. LookupOwned'
  BY <1>1, <1>2, <1>3, <1>4, ThreadsAssumption
  DEF LookupInv, LookupOwned, Lookup!Owned, Lookup!Users, Lookup!Unused
<1> QED
  BY <1>6, <1>7, <1>8

\* The callback, whatever the polling thread is doing.
LEMMA LookupAnswered ==
  ASSUME Lookup!LookupTypeOK, LookupInv, LookupOwned,
         NEW c \in Contexts, Lookup!ResolveComplete(c), UNCHANGED link
  PROVE  Lookup!LookupTypeOK' /\ LookupInv' /\ LookupOwned'
<1> DEFINE x == contexts[c]
           y == contexts'[c]
<1>1. x \in Context /\ UNCHANGED <<lookup, mine, list>>
  BY DEF Lookup!ResolveComplete, Lookup!LookupTypeOK, Context
<1>2. x.references = Lookup!Users(c) /\ (x.event <=> Lookup!Users(c) > 0)
  BY DEF LookupOwned, Lookup!Owned
<1>3. \A b \in Contexts : b # c => contexts'[b] = contexts[b]
  BY DEF Lookup!ResolveComplete, Lookup!LookupTypeOK
<1>4. CASE x.callback \in {"pending", "stored"}
  <2>1. /\ y \in Context
        /\ y.references = x.references /\ y.event = x.event
        /\ y.callback \in {"stored", "signalled"}
        /\ y.callback = "signalled" => y.addresses = x.addresses
        /\ contexts' = [contexts EXCEPT ![c] = y]
    BY <1>1, <1>4 DEF Lookup!ResolveComplete, Lookup!LookupTypeOK, Context
  <2>2. Lookup!LookupTypeOK'
    BY <1>1, <2>1 DEF Lookup!LookupTypeOK, Context
  <2>3. list # c
    BY <1>4, ThreadsAssumption DEF LookupInv
  <2>4. mine = c => lookup \in {"wait", "abandon"}
    BY <1>4, ThreadsAssumption DEF LookupInv
  <2>5. LookupInv'
    BY <1>1, <1>3, <2>1, <2>3, <2>4, ThreadsAssumption DEF LookupInv, Lookup!LookupTypeOK
  <2>6. LookupOwned'
    BY <1>1, <1>2, <1>3, <1>4, <2>1, <2>3 DEF LookupOwned, Lookup!Owned, Lookup!Users
  <2> QED
    BY <2>2, <2>5, <2>6
<1>5. CASE x.callback = "signalled"
  <2> DEFINE z == [x EXCEPT !.callback = "over"]
  <2>1. z \in Context /\ z.references = x.references /\ z.event = x.event
        /\ z.addresses = x.addresses /\ z.callback = "over"
    BY <1>1 DEF Context
  <2>2. y = Lookup!Released(z, 1) /\ contexts' = [contexts EXCEPT ![c] = y]
    BY <1>5 DEF Lookup!ResolveComplete, Lookup!LookupTypeOK
  <2>3. x.references = (IF mine = c THEN 2 ELSE 1) /\ x.event = TRUE
    BY <1>1, <1>2, <1>5 DEF Lookup!Users, Context
  <2>4. y = IF mine = c THEN [references |-> 1, event |-> x.event, addresses |-> x.addresses,
                              callback |-> "over"]
            ELSE Lookup!Unused
    <3> HIDE DEF z
    <3>1. z.references > 0
      BY <2>1, <2>3
    <3> QED
      BY <2>1, <2>2, <2>3, <3>1, ReleasedOne
  <2>5. y \in Context
    BY <1>1, <2>4 DEF Context, Lookup!Unused
  <2>6. Lookup!LookupTypeOK'
    BY <1>1, <2>2, <2>5 DEF Lookup!LookupTypeOK, Context
  <2>7. LookupInv'
    BY <1>1, <1>3, <1>5, <2>4, ThreadsAssumption
    DEF LookupInv, Lookup!Unused, Lookup!LookupTypeOK
  <2>8. LookupOwned'
    BY <1>1, <1>3, <2>3, <2>4, <1>5 DEF LookupOwned, Lookup!Owned, Lookup!Users, Lookup!Unused
  <2> QED
    BY <2>6, <2>7, <2>8
<1> QED
  BY <1>4, <1>5 DEF Lookup!ResolveComplete

\* What a step of the lookup does to its own part of the state.
LEMMA ResolveSafe ==
  ASSUME Safety, Resolve
  PROVE  Lookup!LookupTypeOK' /\ LookupInv' /\ LookupOwned'
BY LookupBegins, LookupGivenUp, LookupTakes, LookupReleases
DEF Safety, TypeOK, ThreadsInv, Resolve, Lookup!Resolve, linkVars

LEMMA CallBackSafe ==
  ASSUME Safety, NEW c \in Contexts, CallBack(c)
  PROVE  Lookup!LookupTypeOK' /\ LookupInv' /\ LookupOwned'
BY LookupAnswered DEF Safety, TypeOK, ThreadsInv, CallBack, linkVars

\* The steps of the link that hand a lookup its work and take its result.
LEMMA LinkLookupSafe ==
  ASSUME Safety, LinkStart \/ PollBegins \/ LinkEnds \/ Resolved \/ Connect \/ Talk
  PROVE  Lookup!LookupTypeOK' /\ LookupInv' /\ LookupOwned'
<1> USE DEF Safety, TypeOK, ThreadsInv, LookupInv, LinkGoes, PollFails
<1>1. LookupInv' /\ Lookup!LookupTypeOK'
  <2>1. CASE LinkStart \/ LinkEnds
    BY <2>1 DEF LinkStart, LinkEnds, lookupVars, Lookup!LookupTypeOK
  <2>2. CASE PollBegins
    BY <2>2 DEF PollBegins, Lookup!LookupTypeOK
  <2>3. CASE Resolved
    BY <2>3 DEF Resolved, Lookup!LookupTypeOK
  <2>4. CASE Connect
    BY <2>4 DEF Connect, Lookup!LookupTypeOK
  <2>5. CASE Talk
    BY <2>5 DEF Talk, PollAnswered, lookupVars, Lookup!LookupTypeOK
  <2> QED
    BY <2>1, <2>2, <2>3, <2>4, <2>5
<1>2. UNCHANGED <<mine, contexts>> /\ list' \in {list, NoContext}
  BY DEF LinkStart, LinkEnds, PollBegins, Resolved, Connect, Talk, lookupVars
<1>3. LookupOwned'
  BY <1>2, ThreadsAssumption DEF LookupOwned, Lookup!Owned, Lookup!Users
<1> QED
  BY <1>1, <1>3

\* Nobody else touches a lookup, and whoever moves the link leaves it at rest.
LEMMA OthersLookupSafe ==
  ASSUME Safety, UNCHANGED <<lookup, mine, list, contexts>>,
         link' = link \/ (link \in {"off", "ended"} /\ link' \in {"off", "start"})
  PROVE  Lookup!LookupTypeOK' /\ LookupInv' /\ LookupOwned'
BY DEF Safety, TypeOK, ThreadsInv, LookupInv, Lookup!LookupTypeOK, LookupOwned,
       Lookup!Owned, Lookup!Users

LEMMA NextLookup ==
  ASSUME Safety, [Next]_vars
  PROVE  Lookup!LookupTypeOK' /\ LookupInv' /\ LookupOwned'
<1>1. CASE Resolve
  BY <1>1, ResolveSafe
<1>2. ASSUME NEW c \in Contexts, CallBack(c)
      PROVE  Lookup!LookupTypeOK' /\ LookupInv' /\ LookupOwned'
  BY <1>2, CallBackSafe
<1>3. CASE LinkStart \/ PollBegins \/ LinkEnds \/ Resolved \/ Connect \/ Talk
  BY <1>3, LinkLookupSafe
<1>4. CASE Settle \/ ProviderInit \/ RunFrame \/ (\E b \in BOOLEAN : Deactivate(b))
  BY <1>4, OthersLookupSafe DEF Settle, ProviderInit, RunFrame, Deactivate, lookupVars, linkVars
<1>5. CASE Activate
  <2>1. link = "off"
    BY <1>5 DEF Activate, Safety, ThreadsInv, JoinedInv
  <2> QED
    BY <1>5, <2>1, OthersLookupSafe DEF Activate, lookupVars
<1>6. CASE JoinLink \/ JoinTracking \/ JoinAudio \/ JoinVideo
  BY <1>6, OthersLookupSafe DEF JoinLink, JoinTracking, JoinAudio, JoinVideo, lookupVars, linkVars
<1>7. CASE TrackingStep \/ AudioStep \/ DeviceChanges \/ VideoStep \/ VideoWakesUp
  BY <1>7, OthersLookupSafe DEF TrackingStep, AudioStep, DeviceChanges, VideoStep, VideoWakesUp,
                                VideoGoes, lookupVars, linkVars
<1>8. CASE UNCHANGED vars
  BY <1>8, OthersLookupSafe DEF vars, lookupVars, linkVars
<1> QED
  BY <1>1, <1>2, <1>3, <1>4, <1>5, <1>6, <1>7, <1>8 DEF Next, Stop, LinkStep

----------------------------------------------------------------------------
(* The threads.                                                             *)

\* The joins.
LEMMA NextJoined == ASSUME Safety, [Next]_vars PROVE JoinedInv'
<1> USE DEF Safety, ThreadsInv, JoinedInv
<1>1. CASE Settle \/ ProviderInit \/ Activate \/ RunFrame \/ (\E b \in BOOLEAN : Deactivate(b))
  BY <1>1 DEF Settle, ProviderInit, Activate, StartAudio, RunFrame, Deactivate, hmdVars,
              linkVars, audioVars, senderVars
<1>2. CASE JoinLink \/ JoinTracking \/ JoinAudio \/ JoinVideo
  BY <1>2 DEF JoinLink, JoinTracking, JoinAudio, JoinVideo, linkVars, audioVars, senderVars
<1>3. CASE LinkStep
  BY <1>3 DEF LinkStep, LinkStart, PollBegins, LinkEnds, Resolve, Resolved, Connect, Talk,
              PollAnswered, LinkGoes, PollFails, hmdVars, linkVars, audioVars, senderVars
<1>4. CASE TrackingStep
  BY <1>4 DEF TrackingStep, TrackingGoes, hmdVars, linkVars, audioVars, senderVars
<1>7. CASE VideoStep \/ VideoWakesUp
  BY <1>7 DEF VideoStep, VideoWakesUp, VideoGoes, hmdVars, linkVars, audioVars, senderVars
<1>5. CASE AudioStep
  <2>1. sender # "off" /\ UNCHANGED <<hmdVars, linkVars, video>>
    BY <1>5 DEF AudioStep, Audio!AudioRun, Audio!Startup, Audio!InitializeCapture, Audio!Look,
                Audio!ConnectAudio, Audio!GetPacket, Audio!NoPackets, Audio!Send, Audio!End,
                Audio!SenderGoes
  <2> QED
    BY <2>1 DEF hmdVars, linkVars
<1>6. CASE DeviceChanges \/ (\E c \in Contexts : CallBack(c)) \/ UNCHANGED vars
  BY <1>6 DEF DeviceChanges, Audio!DeviceChanges, CallBack, vars, hmdVars, linkVars,
              audioVars, senderVars
<1> QED
  BY <1>1, <1>2, <1>3, <1>4, <1>5, <1>6, <1>7 DEF Next, Stop

\* What the sender does with its capture and its socket.
LEMMA AudioSafe ==
  ASSUME Safety, AudioStep
  PROVE  SenderInv' /\ SocketsInv' /\ WinsockInv'
<1> USE DEF Safety, ThreadsInv, SenderInv, SocketsInv, WinsockInv, One, TypeOK,
            AudioStep, Audio!SenderGoes, Audio!CloseSocket, linkVars
<1>1. CASE Audio!Startup
  BY <1>1 DEF Audio!Startup
<1>2. CASE Audio!InitializeCapture
  BY <1>2 DEF Audio!InitializeCapture
<1>3. CASE Audio!Look
  BY <1>3 DEF Audio!Look
<1>4. CASE Audio!ConnectAudio
  BY <1>4 DEF Audio!ConnectAudio
<1>5. CASE Audio!GetPacket
  BY <1>5 DEF Audio!GetPacket
<1>6. CASE Audio!NoPackets
  BY <1>6 DEF Audio!NoPackets
<1>7. CASE Audio!Send
  BY <1>7 DEF Audio!Send
<1>8. CASE Audio!End
  BY <1>8 DEF Audio!End
<1> QED
  BY <1>1, <1>2, <1>3, <1>4, <1>5, <1>6, <1>7, <1>8 DEF Audio!AudioRun

LEMMA NextCounted ==
  ASSUME Safety, [Next]_vars
  PROVE  SenderInv' /\ SocketsInv' /\ WinsockInv'
<1> USE DEF SenderInv, SocketsInv, WinsockInv, One
<1>0. /\ JoinedInv /\ SenderInv /\ SocketsInv /\ WinsockInv
      /\ sockets \in Int /\ winsock \in Int
  BY DEF Safety, ThreadsInv, TypeOK
<1>1. CASE Settle \/ ProviderInit \/ RunFrame \/ (\E b \in BOOLEAN : Deactivate(b))
  BY <1>0, <1>1 DEF Settle, ProviderInit, RunFrame, Deactivate, linkVars, audioVars, senderVars, processVars
<1>2. CASE Activate
  BY <1>0, <1>2 DEF JoinedInv, Activate, StartAudio, processVars
<1>3. CASE JoinLink \/ JoinTracking \/ JoinAudio \/ JoinVideo
  BY <1>0, <1>3 DEF JoinedInv, JoinLink, JoinTracking, JoinAudio, JoinVideo, linkVars, audioVars, senderVars, processVars
<1>4. CASE LinkStart \/ PollBegins \/ LinkEnds
  BY <1>0, <1>4 DEF LinkStart, PollBegins, LinkEnds, LinkGoes, audioVars, senderVars, processVars
<1>5. CASE Resolve \/ Resolved
  BY <1>0, <1>5 DEF Resolve, Resolved, LinkGoes, PollFails, linkVars, audioVars, senderVars, processVars
<1>6. CASE Connect \/ Talk
  <2>1. CASE Connect
    BY <1>0, <2>1 DEF Connect, LinkGoes, PollFails, audioVars, senderVars
  <2>2. CASE Talk
    <3>1. /\ link = "talk" /\ link' = "poll" /\ sockets' = sockets - 1
          /\ UNCHANGED <<tracking, sender, capture, socket, winsock>>
      BY <2>2 DEF Talk, PollAnswered, PollFails, LinkGoes, audioVars, senderVars
    <3> QED
      BY <1>0, <3>1
  <2> QED
    BY <1>6, <2>1, <2>2
<1>7. CASE TrackingStep
  BY <1>0, <1>7 DEF TrackingStep, TrackingGoes, audioVars, senderVars
<1>8. CASE AudioStep
  BY <1>8, AudioSafe
<1>9. CASE DeviceChanges
  BY <1>0, <1>9 DEF DeviceChanges, Audio!DeviceChanges, linkVars
<1>10. CASE (\E c \in Contexts : CallBack(c)) \/ VideoStep \/ VideoWakesUp \/ UNCHANGED vars
  BY <1>0, <1>10 DEF CallBack, VideoStep, VideoWakesUp, VideoGoes, vars, linkVars, audioVars,
                     senderVars, processVars
<1> QED
  BY <1>1, <1>2, <1>3, <1>4, <1>5, <1>6, <1>7, <1>8, <1>9, <1>10 DEF Next, Stop, LinkStep

\* The types of what is neither the lookup's nor the sender's: places and flags.
PlacesTypeOK ==
  /\ hmd \in {"off", "on", "link", "tracking", "audio", "video"}
  /\ link \in {"off", "start", "poll", "resolve", "connect", "talk", "ended"}
  /\ tracking \in {"off", "start", "receive", "ended"}
  /\ video \in {"off", "started", "stopping", "asleep", "ended"}

HmdFlagsTypeOK ==
  settled \in BOOLEAN /\ context \in BOOLEAN /\ cleaning \in BOOLEAN /\ named \in BOOLEAN

ThreadFlagsTypeOK ==
  /\ linkRunning \in BOOLEAN /\ audioRunning \in BOOLEAN
  /\ port \in BOOLEAN /\ ready \in BOOLEAN /\ available \in BOOLEAN

LEMMA NextPlaces == ASSUME PlacesTypeOK, [Next]_vars PROVE PlacesTypeOK'
<1> USE DEF PlacesTypeOK
<1>1. CASE Settle \/ ProviderInit \/ Activate \/ RunFrame \/ (\E b \in BOOLEAN : Deactivate(b))
  BY <1>1 DEF Settle, ProviderInit, Activate, RunFrame, Deactivate, hmdVars, linkVars
<1>2. CASE JoinLink \/ JoinTracking \/ JoinAudio \/ JoinVideo
  BY <1>2 DEF JoinLink, JoinTracking, JoinAudio, JoinVideo, StopVideo, linkVars
<1>3. CASE LinkStep
  BY <1>3 DEF LinkStep, LinkStart, PollBegins, LinkEnds, Resolve, Resolved, Connect, Talk,
              PollAnswered, LinkGoes, PollFails, hmdVars, linkVars
<1>4. CASE TrackingStep
  BY <1>4 DEF TrackingStep, TrackingGoes, hmdVars
<1>5. CASE AudioStep \/ DeviceChanges \/ (\E c \in Contexts : CallBack(c)) \/ UNCHANGED vars
  BY <1>5 DEF AudioStep, DeviceChanges, CallBack, vars, hmdVars, linkVars
<1>6. CASE VideoStep \/ VideoWakesUp
  BY <1>6 DEF VideoStep, VideoWakesUp, VideoGoes, hmdVars, linkVars
<1> QED
  BY <1>1, <1>2, <1>3, <1>4, <1>5, <1>6 DEF Next, Stop

LEMMA NextHmdFlags == ASSUME HmdFlagsTypeOK, [Next]_vars PROVE HmdFlagsTypeOK'
<1> USE DEF HmdFlagsTypeOK
<1>1. CASE Settle \/ ProviderInit \/ (\E b \in BOOLEAN : Deactivate(b))
  BY <1>1 DEF Settle, ProviderInit, Deactivate
<1>2. CASE Activate
  BY <1>2, ThreadsAssumption DEF Activate
<1>3. CASE JoinLink \/ JoinTracking \/ JoinAudio \/ JoinVideo
  BY <1>3 DEF JoinLink, JoinTracking, JoinAudio, JoinVideo
<1>4. CASE UNCHANGED hmdVars
  BY <1>4 DEF hmdVars
<1>5. RunFrame \/ LinkStep \/ TrackingStep \/ AudioStep \/ DeviceChanges
        \/ VideoStep \/ VideoWakesUp \/ (\E c \in Contexts : CallBack(c)) \/ UNCHANGED vars => UNCHANGED hmdVars
  BY DEF RunFrame, LinkStep, LinkStart, PollBegins, LinkEnds, Resolve, Resolved, Connect,
         Talk, TrackingStep, AudioStep, DeviceChanges, CallBack, VideoStep, VideoWakesUp,
         VideoGoes, vars
<1> QED
  BY <1>1, <1>2, <1>3, <1>4, <1>5 DEF Next, Stop

LEMMA NextThreadFlags == ASSUME ThreadFlagsTypeOK, [Next]_vars PROVE ThreadFlagsTypeOK'
<1> USE DEF ThreadFlagsTypeOK
<1>1. CASE Settle \/ ProviderInit \/ RunFrame \/ (\E b \in BOOLEAN : Deactivate(b))
  BY <1>1 DEF Settle, ProviderInit, RunFrame, Deactivate, linkVars, audioVars
<1>2. CASE Activate
  BY <1>2, ThreadsAssumption DEF Activate, StartAudio
<1>3. CASE JoinLink \/ JoinTracking \/ JoinAudio \/ JoinVideo
  BY <1>3 DEF JoinLink, JoinTracking, JoinAudio, JoinVideo, linkVars, audioVars
<1>4. CASE LinkStart \/ PollBegins \/ LinkEnds \/ Resolve
  BY <1>4 DEF LinkStart, PollBegins, LinkEnds, Resolve, linkVars, audioVars
<1>5. CASE Resolved \/ Connect \/ Talk
  <2>1. ready' \in BOOLEAN /\ UNCHANGED <<linkRunning, port, audioVars>>
    BY <1>5 DEF Resolved, Connect, Talk, PollAnswered, PollFails
  <2> QED
    BY <2>1 DEF audioVars
<1>6. CASE TrackingStep
  BY <1>6 DEF TrackingStep, audioVars
<1>7. CASE AudioStep \/ DeviceChanges \/ (\E c \in Contexts : CallBack(c)) \/ UNCHANGED vars
  BY <1>7 DEF AudioStep, DeviceChanges, CallBack, vars, linkVars, audioVars
<1>8. CASE VideoStep \/ VideoWakesUp
  BY <1>8 DEF VideoStep, VideoWakesUp, VideoGoes, linkVars, audioVars
<1> QED
  BY <1>1, <1>2, <1>3, <1>4, <1>5, <1>6, <1>7, <1>8 DEF Next, Stop, LinkStep

LEMMA NextAudioType == ASSUME Audio!AudioTypeOK, [Next]_vars PROVE Audio!AudioTypeOK'
<1> USE DEF Audio!AudioTypeOK
<1>1. CASE AudioStep
  <2>1. /\ sender' \in {"off", "start", "look", "connect", "read", "send", "reopen", "cleanup",
                       "ended"}
        /\ capture' \in {"none", "good", "stale"}
    BY <1>1 DEF AudioStep, Audio!AudioRun, Audio!Startup, Audio!InitializeCapture, Audio!Look,
                Audio!ConnectAudio, Audio!GetPacket, Audio!NoPackets, Audio!Send, Audio!End,
                Audio!SenderGoes
  <2>2. socket' \in BOOLEAN
    BY <1>1 DEF AudioStep, Audio!AudioRun, Audio!Startup, Audio!InitializeCapture, Audio!Look,
                Audio!ConnectAudio, Audio!GetPacket, Audio!NoPackets, Audio!Send, Audio!End,
                Audio!CloseSocket
  <2> QED
    BY <2>1, <2>2
<1>2. CASE DeviceChanges
  BY <1>2 DEF DeviceChanges, Audio!DeviceChanges
<1>3. CASE Activate
  BY <1>3 DEF Activate, StartAudio
<1>4. CASE JoinAudio
  BY <1>4 DEF JoinAudio
<1>5. CASE UNCHANGED senderVars
  BY <1>5 DEF senderVars
<1>6. Settle \/ ProviderInit \/ RunFrame \/ (\E b \in BOOLEAN : Deactivate(b)) \/ JoinLink
        \/ JoinTracking \/ JoinVideo \/ VideoStep \/ VideoWakesUp \/ LinkStep \/ TrackingStep \/ (\E c \in Contexts : CallBack(c))
        \/ UNCHANGED vars => UNCHANGED senderVars
  BY DEF Settle, ProviderInit, RunFrame, Deactivate, JoinLink, JoinTracking, JoinVideo,
         VideoStep, VideoWakesUp, VideoGoes, LinkStep,
         LinkStart, PollBegins, LinkEnds, Resolve, Resolved, Connect, Talk, TrackingStep,
         CallBack, vars, audioVars
<1> QED
  BY <1>1, <1>2, <1>3, <1>4, <1>5, <1>6 DEF Next, Stop

\* Three of the threads have at most a socket and a reference each.
LEMMA TypeFromParts ==
  ASSUME PlacesTypeOK, HmdFlagsTypeOK, ThreadFlagsTypeOK, Lookup!LookupTypeOK,
         Audio!AudioTypeOK, SocketsInv, WinsockInv
  PROVE  TypeOK
<1>1. \A held : One(held) \in {0, 1}
  BY DEF One
<1>2. sockets \in 0 .. 3 /\ winsock \in 0 .. 3
  BY <1>1 DEF SocketsInv, WinsockInv
<1> QED
  BY <1>2 DEF TypeOK, PlacesTypeOK, HmdFlagsTypeOK, ThreadFlagsTypeOK

LEMMA SafetyInductive ==
  /\ Init => Safety
  /\ Safety /\ [Next]_vars => Safety'
<1>1. ASSUME Init PROVE Safety
  <2>1. /\ PlacesTypeOK /\ HmdFlagsTypeOK /\ ThreadFlagsTypeOK /\ Audio!AudioTypeOK
    BY <1>1 DEF Init, PlacesTypeOK, HmdFlagsTypeOK, ThreadFlagsTypeOK, Audio!AudioTypeOK
  <2>4. JoinedInv /\ SenderInv /\ SocketsInv /\ WinsockInv
    BY <1>1 DEF Init, JoinedInv, SenderInv, SocketsInv, WinsockInv, One
  <2>2. Lookup!LookupTypeOK /\ LookupInv
    BY <1>1 DEF Init, Lookup!LookupInit, Lookup!LookupTypeOK, Lookup!Unused, LookupInv
  <2>3. LookupOwned
    BY <1>1, ThreadsAssumption
    DEF Init, Lookup!LookupInit, LookupOwned, Lookup!Owned, Lookup!Users, Lookup!Unused
  <2> QED
    BY <2>1, <2>2, <2>3, <2>4, TypeFromParts DEF Safety, ThreadsInv
<1>2. ASSUME Safety, [Next]_vars PROVE Safety'
  <2>1. PlacesTypeOK /\ HmdFlagsTypeOK /\ ThreadFlagsTypeOK /\ Audio!AudioTypeOK
    BY <1>2 DEF Safety, TypeOK, PlacesTypeOK, HmdFlagsTypeOK, ThreadFlagsTypeOK
  <2>2. PlacesTypeOK' /\ HmdFlagsTypeOK' /\ ThreadFlagsTypeOK' /\ Audio!AudioTypeOK'
    BY <1>2, <2>1, NextPlaces, NextHmdFlags, NextThreadFlags, NextAudioType
  <2>3. /\ SenderInv' /\ SocketsInv' /\ WinsockInv'
        /\ Lookup!LookupTypeOK' /\ LookupInv' /\ LookupOwned' /\ JoinedInv'
    BY <1>2, NextCounted, NextLookup, NextJoined
  <2>4. TypeOK'
    BY <2>2, <2>3, TypeFromParts, PTL
  <2> QED
    BY <2>3, <2>4 DEF Safety, ThreadsInv
<1> QED
  BY <1>1, <1>2

LEMMA AlwaysSafety == Spec => []Safety
BY SafetyInductive, PTL DEF Spec

\* Every variable keeps its type: there are never more than three sockets at a time.
THEOREM TypeCorrect == Spec => []TypeOK
BY AlwaysSafety, PTL DEF Safety

\* However many lookups were given up before, a context lives exactly as long as the
\* polling thread or a callback will touch it, and its addresses have one owner.
THEOREM ContextsOwned == Spec => []LookupOwned
BY AlwaysSafety, PTL DEF Safety

\* When the OpenVR context is gone, so are the threads and everything they held.
THEOREM CleanupLeavesNothing == Spec => []NothingLeft
<1>1. Safety => NothingLeft
  <2> SUFFICES ASSUME Safety, ~context PROVE NothingLeft
    BY DEF NothingLeft
  <2>1. link = "off" /\ tracking = "off" /\ sender = "off" /\ video = "off"
    BY DEF Safety, ThreadsInv, JoinedInv
  <2>2. sockets = 0 /\ winsock = 0 /\ capture = "none"
    BY <2>1 DEF Safety, ThreadsInv, SenderInv, SocketsInv, WinsockInv, One
  <2>3. mine = NoContext /\ list = NoContext
    BY <2>1 DEF Safety, ThreadsInv, LookupInv
  <2> QED
    BY <2>1, <2>2, <2>3 DEF NothingLeft
<1> QED
  BY <1>1, AlwaysSafety, PTL
=============================================================================

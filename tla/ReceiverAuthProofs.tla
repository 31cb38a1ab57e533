------------------------- MODULE ReceiverAuthProofs -------------------------
(***************************************************************************)
(* Proofs that, for any number of hosts and of concurrent requests, the    *)
(* receiver reports UNAUTHORIZED while it asks to be paired, and that no   *)
(* thread outlives the status server.  JoinedInv is the inductive          *)
(* invariant; the types it needs are those of the records.                 *)
(***************************************************************************)
EXTENDS ReceiverAuth, TLAPS

\* Every variable keeps its type, so the updates of records and functions below
\* have the values they seem to have.
THEOREM TypeCorrect == Spec => []TypeOK
<1> USE DEF TypeOK, MainPlaces, States, At, hostVars, serverVars, videoVars, serviceVars
<1>1. Init => TypeOK
  <2> SUFFICES ASSUME Init PROVE TypeOK
    OBVIOUS
  <2>1. main \in [pc : MainPlaces \cup {"store"}, value : States,
                 then : {"pairing", "inner", "launch", "outer", "none"}]
      /\ main.pc # "store"
    BY DEF Init
  <2>2. monitor \in [pc : {"off", "top", "store"}, value : States,
                    then : {"top", "none"}]
    BY DEF Init
  <2>3. client \in [Clients ->
          [pc : {"idle", "check", "revoke", "unauthorize", "read", "register",
                 "reply"},
           host : Hosts \cup {NoHost}, approved : BOOLEAN]]
    BY DEF Init, Idle
  <2>4. tracker \in [pc : {"load", "copy", "poll", "exit"}, authorized : BOOLEAN]
    BY DEF Init
  <2>5. /\ granted \in SUBSET Hosts /\ believed \in SUBSET Hosts
        /\ state \in States
        /\ pairedHost \in Hosts \cup {NoHost} /\ target \in Hosts \cup {NoHost}
    BY DEF Init
  <2>6. /\ listener \in BOOLEAN /\ video \in {"off", "run", "done"}
        /\ videoStop \in BOOLEAN /\ revoked \in BOOLEAN /\ quitting \in BOOLEAN
        /\ stopping \in BOOLEAN /\ monitorStop \in BOOLEAN
    BY DEF Init
  <2> QED BY <2>1, <2>2, <2>3, <2>4, <2>5, <2>6
<1>2. TypeOK /\ [Next]_vars => TypeOK'
  <2> SUFFICES ASSUME TypeOK, [Next]_vars
               PROVE  TypeOK'
    OBVIOUS
  <2>1. ASSUME NEW h \in Hosts, ChangeGrant(h) PROVE TypeOK'
    BY <2>1 DEF ChangeGrant
  <2>2. ASSUME NEW h \in Hosts, Recheck(h) PROVE TypeOK'
    BY <2>2 DEF Recheck
  <2>3. ASSUME NEW h \in Hosts, TrackerHello(h) PROVE TypeOK'
    BY <2>3 DEF TrackerHello, TrackerGoto
  <2>4. ASSUME NEW h \in Hosts, NEW known \in BOOLEAN, NEW c \in Clients,
               Connect(c, h, known) PROVE TypeOK'
    BY <2>4 DEF Connect
  <2>5. ASSUME NEW c \in Clients, ClientStep(c) PROVE TypeOK'
    <3>1. CASE Check(c)
      BY <3>1 DEF Check, ClientAt
    <3>2. CASE Revoke(c)
      BY <3>2 DEF Revoke, ClientAt
    <3>3. CASE Unauthorize(c)
      BY <3>3 DEF Unauthorize, ClientAt
    <3>4. CASE Read(c)
      BY <3>4 DEF Read, ClientAt
    <3>5. CASE Register(c)
      BY <3>5 DEF Register, ClientAt
    <3>6. CASE Reply(c)
      BY <3>6 DEF Reply, Idle
    <3> QED BY <2>5, <3>1, <3>2, <3>3, <3>4, <3>5, <3>6 DEF ClientStep
  <2>6. CASE Signal
    BY <2>6 DEF Signal
  <2>7. CASE MainStep
    <3>1. CASE MainStore
      BY <3>1 DEF MainStore, MainAt, Goto, UpdateThen, Checked
    <3>2. CASE Outer
      BY <3>2 DEF Outer, MainAt, Goto, UpdateThen, Checked
    <3>3. CASE NotPaired
      BY <3>3 DEF NotPaired, MainAt, Goto, UpdateThen, Checked
    <3>4. CASE Reset
      <4>1. revoked' \in BOOLEAN /\ main' = At("starting")
        BY <3>4 DEF Reset, Goto
      <4>2. UNCHANGED <<granted, believed, state, pairedHost, target, videoVars,
                        tracker, listener, client, quitting, stopping>>
        BY <3>4 DEF Reset, MainAt
      <4> QED BY <4>1, <4>2
    <3>5. CASE Starting
      BY <3>5 DEF Starting, MainAt, Goto, UpdateThen, Checked
    <3>6. CASE Inner
      BY <3>6 DEF Inner, MainAt, Goto, UpdateThen, Checked
    <3>7. CASE Open
      BY <3>7 DEF Open, MainAt, Goto, UpdateThen, Checked
    <3>8. CASE Launch
      BY <3>8 DEF Launch, MainAt, Goto, UpdateThen, Checked
    <3>9. CASE Running
      BY <3>9 DEF Running, MainAt, Goto, UpdateThen, Checked
    <3>10. CASE Join
      <4>1. monitorStop' \in BOOLEAN /\ videoStop' \in BOOLEAN
        BY <3>10 DEF Join
      <4>2. video' = "off" /\ main' = At("joinMonitor")
        BY <3>10 DEF Join, Goto
      <4>3. UNCHANGED <<hostVars, serverVars, monitor, tracker, listener, client,
                        quitting, stopping>>
        BY <3>10 DEF Join, MainAt
      <4> QED BY <4>1, <4>2, <4>3
    <3>11. CASE JoinMonitor
      <4>1. monitorStop' \in BOOLEAN /\ main' = At("final")
        BY <3>11 DEF JoinMonitor, Goto
      <4>2. UNCHANGED <<hostVars, serverVars, monitor, video, videoStop, tracker,
                        listener, client, quitting, stopping>>
        BY <3>11 DEF JoinMonitor, MainAt
      <4> QED BY <4>1, <4>2
    <3>12. CASE Final
      BY <3>12 DEF Final, MainAt, Goto, UpdateThen, Checked
    <3>13. CASE Leave
      BY <3>13 DEF Leave, MainAt, Goto, UpdateThen, Checked
    <3>14. CASE Stop
      BY <3>14 DEF Stop, MainAt, Goto, UpdateThen, Checked
    <3>15. CASE JoinThreads
      BY <3>15 DEF JoinThreads, MainAt, Goto, UpdateThen, Checked
    <3>16. CASE Drain
      BY <3>16 DEF Drain, MainAt, Goto, UpdateThen, Checked
    <3>17. ASSUME NEW h \in Hosts, Paired(h) PROVE TypeOK'
      BY <3>17 DEF Paired, MainAt, Goto
    <3> QED
      BY <2>7, <3>1, <3>2, <3>3, <3>4, <3>5, <3>6, <3>7, <3>8, <3>9, <3>10, <3>11,
         <3>12, <3>13, <3>14, <3>15, <3>16, <3>17 DEF MainStep
  <2>8. CASE MonitorStep
    BY <2>8 DEF MonitorStep, UpdateThen, Checked
  <2>9. CASE VideoEnds
    BY <2>9 DEF VideoEnds
  <2>10. CASE ListenerExits
    <3>1. listener' \in BOOLEAN
      BY <2>10 DEF ListenerExits
    <3>2. UNCHANGED <<hostVars, serverVars, main, videoVars, tracker, client, quitting,
                      stopping>>
      BY <2>10 DEF ListenerExits
    <3> QED BY <3>1, <3>2
  <2>11. CASE TrackerStep
    <3>1. target' \in Hosts \cup {NoHost}
      BY <2>11 DEF TrackerStep, TargetAfter
    <3>2. tracker' \in [pc : {"load", "copy", "poll", "exit"}, authorized : BOOLEAN]
      <4>1. PICK a \in BOOLEAN, pc \in {"load", "copy", "poll", "exit"} :
              tracker' = [pc |-> pc, authorized |-> a]
        BY <2>11 DEF TrackerStep, TrackerGoto
      <4> QED BY <4>1
    <3>3. UNCHANGED <<hostVars, state, revoked, pairedHost, main, videoVars, listener,
                      client, quitting, stopping>>
      BY <2>11 DEF TrackerStep
    <3> QED BY <3>1, <3>2, <3>3
  <2>12. CASE UNCHANGED vars
    BY <2>12 DEF vars
  <2> QED
    BY <2>1, <2>2, <2>3, <2>4, <2>5, <2>6, <2>7, <2>8, <2>9, <2>10, <2>11, <2>12
    DEF Next, Poll
<1> QED BY <1>1, <1>2, PTL DEF Spec
----------------------------------------------------------------------------
\* JoinedInv does not depend on what the environment and the handlers do beyond
\* their program counters; the stores of the main thread and of the monitor are
\* the steps that matter.
LEMMA Joined == Spec => []JoinedInv
<1> USE DEF At
<1>1. Init => JoinedInv
  BY DEF Init, JoinedInv
<1>2. TypeOK /\ JoinedInv /\ [Next]_vars => JoinedInv'
  <2> SUFFICES ASSUME TypeOK, JoinedInv, [Next]_vars
               PROVE  JoinedInv'
    OBVIOUS
  <2> USE DEF JoinedInv, hostVars, serverVars, videoVars, serviceVars
  <2>1. ASSUME NEW h \in Hosts, ChangeGrant(h) \/ Recheck(h) PROVE JoinedInv'
    BY <2>1 DEF ChangeGrant, Recheck
  <2>2. ASSUME NEW h \in Hosts, TrackerHello(h) PROVE JoinedInv'
    BY <2>2 DEF TrackerHello
  <2>3. ASSUME NEW h \in Hosts, NEW known \in BOOLEAN, NEW c \in Clients,
               Connect(c, h, known) PROVE JoinedInv'
    BY <2>3 DEF Connect
  <2>4. ASSUME NEW c \in Clients, ClientStep(c) PROVE JoinedInv'
    <3>1. client[c] # Idle
      BY <2>4 DEF ClientStep, ClientAt, Check, Revoke, Unauthorize, Read, Register,
                  Reply, Idle
    <3>2. main.pc # "exit"
      BY <3>1
    <3>3. state' \in {state, "UNAUTHORIZED"}
      BY <2>4 DEF ClientStep, Check, Revoke, Unauthorize, Read, Register, Reply
    <3>4. UNCHANGED <<main, videoVars, listener, tracker>>
      BY <2>4 DEF ClientStep, ClientAt, Check, Revoke, Unauthorize, Read, Register,
                  Reply
    <3> QED BY <3>2, <3>3, <3>4
  <2>5. CASE Signal
    BY <2>5 DEF Signal
  <2>6. CASE MainStep
    <3> USE DEF MainAt, Goto, UpdateThen
    <3>1. CASE MainStore
      BY <3>1 DEF MainStore, TypeOK, MainPlaces
    <3>2. CASE Outer
      BY <3>2 DEF Outer, Checked
    <3>3. CASE NotPaired
      BY <3>3 DEF NotPaired
    <3>4. CASE Reset
      BY <3>4 DEF Reset
    <3>5. CASE Starting
      BY <3>5 DEF Starting
    <3>6. CASE Inner
      BY <3>6 DEF Inner
    <3>7. CASE Open
      BY <3>7 DEF Open
    <3>8. CASE Launch
      BY <3>8 DEF Launch
    <3>9. CASE Running
      BY <3>9 DEF Running
    <3>10. CASE Join
      BY <3>10 DEF Join
    <3>11. CASE JoinMonitor
      BY <3>11 DEF JoinMonitor
    <3>12. CASE Final
      BY <3>12 DEF Final
    <3>13. CASE Leave
      BY <3>13 DEF Leave, Checked
    <3>14. CASE Stop
      BY <3>14 DEF Stop
    <3>15. CASE JoinThreads
      BY <3>15 DEF JoinThreads
    <3>16. CASE Drain
      BY <3>16 DEF Drain
    <3>17. ASSUME NEW h \in Hosts, Paired(h) PROVE JoinedInv'
      BY <3>17 DEF Paired
    <3> QED
      BY <2>6, <3>1, <3>2, <3>3, <3>4, <3>5, <3>6, <3>7, <3>8, <3>9, <3>10, <3>11,
         <3>12, <3>13, <3>14, <3>15, <3>16, <3>17 DEF MainStep
  <2>7. CASE MonitorStep
    <3>1. main.pc \in {"running", "join", "joinMonitor"} /\ monitor.pc # "off"
      BY <2>7 DEF MonitorStep
    <3> QED BY <2>7, <3>1 DEF MonitorStep
  <2>8. CASE VideoEnds \/ ListenerExits
    BY <2>8 DEF VideoEnds, ListenerExits
  <2>9. CASE TrackerStep
    BY <2>9 DEF TrackerStep, TrackerGoto
  <2>10. CASE UNCHANGED vars
    BY <2>10 DEF vars
  <2> QED
    BY <2>1, <2>2, <2>3, <2>4, <2>5, <2>6, <2>7, <2>8, <2>9, <2>10 DEF Next, Poll
<1> QED BY <1>1, <1>2, TypeCorrect, PTL DEF Spec

\* The receiver reports UNAUTHORIZED as long as it waits to be paired: no monitor,
\* handler or main-thread update in flight can report it usable again.
THEOREM UnauthorizedWhilePairing == Spec => []PairingIsUnauthorized
<1>1. JoinedInv => PairingIsUnauthorized
  BY DEF JoinedInv, PairingIsUnauthorized
<1> QED BY <1>1, Joined, PTL

\* When main returns, every thread that uses the server on its stack has ended.
THEOREM ThreadsEndBeforeServer == Spec => []NothingOutlivesServer
<1>1. JoinedInv => NothingOutlivesServer
  BY DEF JoinedInv, NothingOutlivesServer
<1> QED BY <1>1, Joined, PTL
----------------------------------------------------------------------------
(* What a revocation leaves.                                                *)

\* An update that begins after the revocation stores UNAUTHORIZED.
LEMMA UpdatesChecked == ASSUME revoked, NEW v PROVE Checked(v) = "UNAUTHORIZED"
BY DEF Checked

LEMMA RepairedStep == TypeOK /\ Repaired /\ [Next]_vars /\ revoked' => Repaired'
<1> SUFFICES ASSUME TypeOK, Repaired, [Next]_vars, revoked' PROVE Repaired'
  OBVIOUS
<1> USE DEF Repaired, hostVars, serverVars, videoVars, serviceVars
<1>1. ASSUME NEW h \in Hosts, ChangeGrant(h) \/ Recheck(h) \/ TrackerHello(h)
      PROVE  Repaired'
  BY <1>1 DEF ChangeGrant, Recheck, TrackerHello
<1>2. ASSUME NEW h \in Hosts, NEW known \in BOOLEAN, NEW c \in Clients, Connect(c, h, known)
      PROVE  Repaired'
  BY <1>2 DEF Connect
<1>3. ASSUME NEW c \in Clients, ClientStep(c) PROVE Repaired'
  <2>1. state' \in {state, "UNAUTHORIZED"} /\ UNCHANGED <<main, videoVars>>
    BY <1>3 DEF ClientStep, ClientAt, Check, Revoke, Unauthorize, Read, Register, Reply
  <2> QED
    BY <2>1
<1>4. CASE MainStep
  <2>1. CASE MainStore
    BY <2>1 DEF MainStore, MainAt, Goto, At
  <2>2. ASSUME NEW v, NEW pc, main' = UpdateThen(v, pc), state' = state,
               monitor' = monitor
        PROVE  Repaired'
    BY <2>2, UpdatesChecked DEF UpdateThen
  <2>3. ASSUME NEW pc, main' = At(pc), pc # "store", state' = state,
               monitor'.pc # "store" \/ monitor' = monitor
        PROVE  Repaired'
    BY <2>3 DEF At
  <2>4. CASE Outer \/ Starting \/ Open \/ Final \/ Leave
    BY <2>2, <2>3, <2>4 DEF Outer, Starting, Open, Final, Leave, MainAt, Goto
  <2>5. CASE NotPaired \/ Reset \/ Inner \/ Running \/ Join \/ JoinMonitor
    BY <2>3, <2>5 DEF NotPaired, Reset, Inner, Running, Join, JoinMonitor, MainAt, Goto
  <2>6. CASE Launch \/ Stop \/ JoinThreads \/ Drain
    BY <2>3, <2>6 DEF Launch, Stop, JoinThreads, Drain, MainAt, Goto, At
  <2>7. ASSUME NEW h \in Hosts, Paired(h) PROVE Repaired'
    BY <2>3, <2>7 DEF Paired, MainAt, Goto
  <2> QED
    BY <1>4, <2>1, <2>4, <2>5, <2>6, <2>7 DEF MainStep
<1>5. CASE MonitorStep
  BY <1>5, UpdatesChecked DEF MonitorStep, UpdateThen, At
<1>6. CASE Signal \/ VideoEnds \/ TrackerStep \/ ListenerExits \/ UNCHANGED vars
  BY <1>6 DEF Signal, VideoEnds, TrackerStep, ListenerExits, vars
<1> QED
  BY <1>1, <1>2, <1>3, <1>4, <1>5, <1>6 DEF Next, Poll

\* How far the race of an update with a revocation reaches: once the updates that were
\* under way have been stored, nothing undoes the revocation but the next pairing.
THEOREM RevocationIsNotUndone == Spec => RevocationSticks
BY RepairedStep, TypeCorrect, PTL DEF Spec, RevocationSticks

LEMMA WithdrawnStep ==
  TypeOK /\ Withdrawn /\ [Next]_vars /\ granted' = {} => Withdrawn'
<1> SUFFICES ASSUME TypeOK, Withdrawn, [Next]_vars, granted' = {} PROVE Withdrawn'
  OBVIOUS
<1> USE DEF Withdrawn, hostVars, serverVars, videoVars, serviceVars
<1>1. ASSUME NEW h \in Hosts, ChangeGrant(h) \/ Recheck(h) PROVE Withdrawn'
  BY <1>1 DEF ChangeGrant, Recheck
<1>2. ASSUME NEW h \in Hosts, NEW known \in BOOLEAN, NEW c \in Clients, Connect(c, h, known)
      PROVE  Withdrawn'
  BY <1>2 DEF Connect, TypeOK
<1>3. ASSUME NEW c \in Clients, ClientStep(c) PROVE Withdrawn'
  <2>1. /\ state' = "UNAUTHORIZED" /\ target' = NoHost
        /\ UNCHANGED <<granted, main, monitor, tracker>>
    BY <1>3 DEF ClientStep, ClientAt, Check, Revoke, Unauthorize, Read, Register, Reply
  <2>2. client'[c].pc # "register" /\ \A x \in Clients \ {c} : client'[x] = client[x]
    BY <1>3 DEF ClientStep, ClientAt, Check, Revoke, Unauthorize, Read, Register, Reply,
                TypeOK, Idle
  <2> QED
    BY <2>1, <2>2
<1>4. CASE MainStep
  <2>1. /\ UNCHANGED <<granted, target, monitor, tracker, client>>
        /\ state' = "UNAUTHORIZED"
        /\ main'.pc \in {"outer", "pairing", "store", "stop", "joinThreads", "drain", "exit"}
        /\ main'.pc = "store" =>
             main'.value = "UNAUTHORIZED" /\ main'.then \in {"pairing", "outer"}
    <3>1. CASE MainStore
      BY <3>1 DEF MainStore, MainAt, Goto, At
    <3>2. CASE Outer
      BY <3>2 DEF Outer, MainAt, UpdateThen, Checked, At
    <3>3. CASE NotPaired
      BY <3>3 DEF NotPaired, MainAt, Goto, At
    <3>4. CASE Stop \/ JoinThreads \/ Drain
      BY <3>4 DEF Stop, JoinThreads, Drain, MainAt, Goto, At
    <3>5. ASSUME NEW h \in Hosts, Paired(h) PROVE FALSE
      BY <3>5 DEF Paired
    <3>6. CASE Reset \/ Starting \/ Inner \/ Open \/ Launch \/ Running \/ Join
               \/ JoinMonitor \/ Final \/ Leave
      BY <3>6 DEF Reset, Starting, Inner, Open, Launch, Running, Join, JoinMonitor, Final,
                  Leave, MainAt
    <3> QED
      BY <1>4, <3>1, <3>2, <3>3, <3>4, <3>5, <3>6 DEF MainStep
  <2> QED
    BY <2>1
<1>5. CASE MonitorStep
  BY <1>5 DEF MonitorStep
<1>6. CASE TrackerStep
  <2>1. CASE tracker.pc = "load"
    <3>1. /\ target' = NoHost
          /\ tracker' \in {[pc |-> p, authorized |-> FALSE] : p \in {"exit", "copy"}}
      BY <1>6, <2>1 DEF TrackerStep, TrackerGoto
    <3>2. UNCHANGED <<granted, state, main, monitor, client>>
      BY <1>6 DEF TrackerStep
    <3> QED
      BY <3>1, <3>2
  <2>2. CASE tracker.pc # "load"
    <3>1. /\ target' = NoHost
          /\ tracker' \in {[pc |-> p, authorized |-> FALSE] : p \in {"poll", "load"}}
      BY <1>6, <2>2 DEF TrackerStep, TrackerGoto, TargetAfter, TypeOK
    <3>2. UNCHANGED <<granted, state, main, monitor, client>>
      BY <1>6 DEF TrackerStep
    <3> QED
      BY <3>1, <3>2
  <2> QED
    BY <2>1, <2>2
<1>7. ASSUME NEW h \in Hosts, TrackerHello(h) PROVE Withdrawn'
  BY <1>7 DEF TrackerHello
<1>8. CASE Signal \/ VideoEnds \/ ListenerExits \/ UNCHANGED vars
  BY <1>8 DEF Signal, VideoEnds, ListenerExits, vars
<1> QED
  BY <1>1, <1>2, <1>3, <1>4, <1>5, <1>6, <1>7, <1>8 DEF Next, Poll

\* While no host approves the device, a receiver that has given it up keeps it given up:
\* it is not reported usable and nobody is registered for its poses.
THEOREM WithdrawalLasts == Spec => RevokedForGood
<1>1. TypeOK /\ Withdrawn /\ [Next]_vars /\ (granted = {})' => Withdrawn'
  BY WithdrawnStep
<1>2. Withdrawn => state = "UNAUTHORIZED" /\ target = NoHost
  BY DEF Withdrawn
<1> QED
  BY <1>1, <1>2, TypeCorrect, PTL DEF Spec, RevokedForGood
=============================================================================

------------------------------ MODULE Pairing ------------------------------
(***************************************************************************)
(* Pairing the headset with a Steam host (steam_link_pairing.c), as main.c *)
(* and gui/pairing.c wait for it.  Three threads: main, the pairing thread *)
(* (worker), and the library's thread, which runs the callbacks one after  *)
(* the other.  The files of the device's identity and of the paired host   *)
(* survive a crash; everything else is lost in it.  Each is replaced by a  *)
(* rename that nobody makes durable: a loss of power may bring back what   *)
(* was there before.                                                       *)
(*                                                                         *)
(* The library and the Steam hosts are external: a host answers the search *)
(* again and again, and approves or rejects the device, or is silent.  A   *)
(* deadline may pass at any time, except that no callback takes as long as *)
(* the 120 seconds of the second one.                                      *)
(***************************************************************************)
EXTENDS Integers, FiniteSets

CONSTANTS
  Hosts,      \* the Steam hosts in the network
  Ids,        \* bound: the identities the device may draw are 1 .. Ids
  NoHost      \* no host; also the file that does not exist

ASSUME PairingAssumption == Ids \in Nat /\ NoHost \notin Hosts

None == 0

VARIABLES
  headless,               \* how the receiver is started
  main, quitting,         \* where main is; the flag its signals set
  result,                 \* the state and the identity main has seen in this attempt
  steamId, pairedHost,    \* what main told the status server
  state, deviceId,        \* pairing->state, pairing->device_id
  stopping,               \* pairing->stopping
  worker, id,             \* where the pairing thread is, and its device_id
  hostFound, host,        \* worker.host_found, worker.host
  authorizationOk, authorizationDone,
  library,                \* the callback the library is in, and its host
  discovering,            \* it searches
  asked,                  \* the host it has asked for authorization
  identity, marker,       \* the two files
  approvals               \* what the hosts know: pairs of a host and an identity

mainVars == <<headless, main, quitting, result, steamId, pairedHost>>
sharedVars == <<state, deviceId, stopping>>
authVars == <<authorizationOk, authorizationDone>>
libraryVars == <<library, discovering, asked>>
fileVars == <<identity, marker>>
vars == <<mainVars, sharedVars, worker, id, hostFound, host, authVars, libraryVars,
          fileVars, approvals>>

Idle == [in |-> "none", host |-> NoHost]
NothingSeen == [state |-> "SEARCHING", id |-> None]

\* What svrt_steam_link_pairing_start begins with.
NothingYet ==
  /\ state' = "SEARCHING" /\ deviceId' = None /\ stopping' = FALSE
  /\ id' = None
  /\ hostFound' = FALSE /\ host' = NoHost
  /\ authorizationOk' = FALSE /\ authorizationDone' = FALSE
  /\ library' = Idle /\ discovering' = FALSE /\ asked' = NoHost

Init ==
  /\ headless \in BOOLEAN
  /\ main = "outer" /\ quitting = FALSE
  /\ result = NothingSeen
  /\ steamId = None /\ pairedHost = NoHost
  /\ state = "SEARCHING" /\ deviceId = None /\ stopping = FALSE
  /\ worker = "none" /\ id = None
  /\ hostFound = FALSE /\ host = NoHost
  /\ authorizationOk = FALSE /\ authorizationDone = FALSE
  /\ library = Idle /\ discovering = FALSE /\ asked = NoHost
  /\ identity = None /\ marker = NoHost
  /\ approvals = {}

\* Whatever ends the receiver's threads, it is started again.
StartsAgain ==
  /\ main' = "outer" /\ quitting' = FALSE
  /\ result' = NothingSeen
  /\ steamId' = None /\ pairedHost' = NoHost
  /\ worker' = "none"
  /\ NothingYet
  /\ UNCHANGED <<headless, approvals>>

\* The receiver is killed, or has ended.
Restart == StartsAgain /\ UNCHANGED <<identity, marker>>

\* What a loss of power does beyond a Restart, which comes first: the files are what they
\* were before, with an identity drawn earlier or none, and a host that has approved the
\* device or none.
PowerLoss ==
  /\ main = "outer" /\ worker = "none"
  /\ StartsAgain
  /\ identity' \in 0 .. Ids
  /\ marker' \in {NoHost} \cup {a[1] : a \in approvals}

----------------------------------------------------------------------------
(* main: the outer loop, authorize_steam_link and the pairing screen.       *)

MainGoes(from, to) == main = from /\ main' = to

\* The thread may fail to start.
Start ==
  /\ ~quitting
  /\ \/ MainGoes("outer", IF headless THEN "show" ELSE "open")
        /\ worker' = "load" /\ NothingYet
     \/ MainGoes("outer", "outer")
        /\ UNCHANGED <<sharedVars, worker, id, hostFound, host, authVars, libraryVars>>
  /\ UNCHANGED <<headless, quitting, result, steamId, pairedHost, fileVars, approvals>>

\* The screen may not open; the pairing is given up then.
OpenScreen ==
  /\ \E to \in {"show", "result"} : MainGoes("open", to)
  /\ UNCHANGED <<headless, quitting, result, steamId, pairedHost, sharedVars, worker, id,
                 hostFound, host, authVars, libraryVars, fileVars, approvals>>

\* Mutant: a signal does not end the loop.
EnoughVerdict == state = "PAIRED" \/ (headless /\ state = "FAILED")

\* When the loop around the snapshots ends.  The screen shows a failure until the
\* receiver is stopped.
Enough == quitting \/ state = "PAIRED" \/ (headless /\ state = "FAILED")

Show ==
  /\ Enough
  /\ MainGoes("show", "result")
  /\ UNCHANGED <<headless, quitting, result, steamId, pairedHost, sharedVars, worker, id,
                 hostFound, host, authVars, libraryVars, fileVars, approvals>>

Look ==
  /\ MainGoes("result", "stop")
  /\ result' = [state |-> state, id |-> deviceId]
  /\ UNCHANGED <<headless, quitting, steamId, pairedHost, sharedVars, worker, id,
                 hostFound, host, authVars, libraryVars, fileVars, approvals>>

StopPairing ==
  /\ MainGoes("stop", "join")
  /\ stopping' = TRUE
  /\ UNCHANGED <<headless, quitting, result, steamId, pairedHost, state, deviceId, worker,
                 id, hostFound, host, authVars, libraryVars, fileVars, approvals>>

\* The address is read from the file, unless that fails or the library could not print it.
JoinPairing ==
  /\ worker = "ended" /\ worker' = "none"
  /\ MainGoes("join", IF result.state = "PAIRED" /\ ~quitting THEN "stream" ELSE "outer")
  /\ steamId' = result.id /\ result' = NothingSeen
  /\ pairedHost' \in {pairedHost}
       \cup (IF result.state = "PAIRED" /\ marker # NoHost THEN {marker} ELSE {})
  /\ UNCHANGED <<headless, quitting, sharedVars, id, hostFound, host, authVars,
                 libraryVars, fileVars, approvals>>

\* The host has withdrawn its approval.
Forget ==
  /\ pairedHost # NoHost
  /\ MainGoes("stream", "outer")
  /\ marker' = NoHost /\ pairedHost' = NoHost
  /\ UNCHANGED <<headless, quitting, result, steamId, sharedVars, worker, id, hostFound,
                 host, authVars, libraryVars, identity, approvals>>

Exit ==
  /\ quitting
  /\ main \in {"outer", "stream"} /\ main' = "exit"
  /\ UNCHANGED <<headless, quitting, result, steamId, pairedHost, sharedVars, worker, id,
                 hostFound, host, authVars, libraryVars, fileVars, approvals>>

Quit ==
  /\ main # "exit"
  /\ ~quitting /\ quitting' = TRUE
  /\ UNCHANGED <<headless, main, result, steamId, pairedHost, sharedVars, worker, id,
                 hostFound, host, authVars, libraryVars, fileVars, approvals>>

MainStep == Start \/ OpenScreen \/ Show \/ Look \/ StopPairing \/ JoinPairing \/ Exit

----------------------------------------------------------------------------
(* pairing_thread.                                                          *)

WorkerGoes(from, to) == worker = from /\ worker' = to

\* Mutant: the identity may be zero.
DrawnOrZero == 0 .. Ids

\* Random identities are new ones, and never zero.
Drawn ==
  {i \in 1 .. Ids : i # identity /\ \A a \in approvals : a[2] # i}

\* The file is there, and can be read and parsed.
ReadIdentity ==
  /\ identity # None
  /\ WorkerGoes("load", "publish") /\ id' = identity
  /\ UNCHANGED <<state, identity>>

\* Mutant: the identity is used although it could not be saved.
CreateIdentityUnsaved(i) ==
  /\ WorkerGoes("load", "publish") /\ id' = i
  /\ identity' \in {i, identity} /\ UNCHANGED state

\* It is not there, or it is not usable: the new one takes its place.
CreateIdentity(i) ==
  WorkerGoes("load", "publish") /\ id' = i /\ identity' = i /\ UNCHANGED state

NoIdentity ==
  WorkerGoes("load", "ended") /\ state' = "FAILED" /\ UNCHANGED <<id, identity>>

LoadIdentity ==
  /\ ReadIdentity \/ NoIdentity \/ \E i \in Drawn : CreateIdentity(i)
  /\ UNCHANGED <<mainVars, deviceId, stopping, hostFound, host, authVars, libraryVars,
                 marker, approvals>>

Publish ==
  /\ WorkerGoes("publish", "client")
  /\ deviceId' = id
  /\ UNCHANGED <<mainVars, state, stopping, id, hostFound, host, authVars, libraryVars,
                 fileVars, approvals>>

\* Draw a PIN and start the library, either of which may fail, and the search.
StartClient ==
  /\ \/ WorkerGoes("client", "search") /\ discovering' = TRUE /\ UNCHANGED state
     \/ WorkerGoes("client", "ended") /\ state' = "FAILED" /\ UNCHANGED discovering
  /\ UNCHANGED <<mainVars, deviceId, stopping, id, hostFound, host, authVars, library,
                 asked, fileVars, approvals>>

\* stopping, a host, or the deadline ends the search; what then follows is decided
\* by a second look.
Search ==
  /\ WorkerGoes("search", IF ~hostFound THEN "nobody"
                          ELSE IF stopping THEN "leave" ELSE "select")
  /\ UNCHANGED <<mainVars, sharedVars, id, hostFound, host, authVars, libraryVars,
                 fileVars, approvals>>

NobodyFound ==
  /\ WorkerGoes("nobody", "leave")
  /\ state' = "FAILED"
  /\ UNCHANGED <<mainVars, deviceId, stopping, id, hostFound, host, authVars, libraryVars,
                 fileVars, approvals>>

\* Stop the search and ask for the PIN.
Select ==
  /\ WorkerGoes("select", "request")
  /\ discovering' = FALSE
  /\ state' = "AUTHORIZING"
  /\ UNCHANGED <<mainVars, deviceId, stopping, id, hostFound, host, authVars, library,
                 asked, fileVars, approvals>>

RequestAuthorization ==
  /\ \/ WorkerGoes("request", "wait") /\ asked' = host /\ UNCHANGED state
     \/ WorkerGoes("request", "leave") /\ state' = "FAILED" /\ UNCHANGED asked
  /\ UNCHANGED <<mainVars, deviceId, stopping, id, hostFound, host, authVars, library,
                 discovering, fileVars, approvals>>

\* stopping, an answer, or the deadline ends the wait.
AwaitAnswer ==
  /\ stopping \/ authorizationDone \/ library = Idle
  /\ WorkerGoes("wait", "answer")
  /\ UNCHANGED <<mainVars, sharedVars, id, hostFound, host, authVars, libraryVars,
                 fileVars, approvals>>

\* The file is replaced by rename: it is the old one or the new one.
SavePairedHost ==
  \/ marker' = host /\ WorkerGoes("answer", "leave") /\ state' = "PAIRED"
  \/ WorkerGoes("answer", "done") /\ UNCHANGED <<marker, state>>

\* authorization_ok, authorization_done and authorization_ok again are looked at one
\* after the other.
Answer ==
  /\ \/ authorizationOk /\ SavePairedHost
     \/ ~authorizationOk /\ WorkerGoes("answer", "done") /\ UNCHANGED <<marker, state>>
  /\ UNCHANGED <<mainVars, deviceId, stopping, id, hostFound, host, authVars, libraryVars,
                 identity, approvals>>

NoAnswer ==
  /\ ~authorizationDone
  /\ WorkerGoes("done", "leave")
  /\ state' = "FAILED"
  /\ UNCHANGED <<mainVars, deviceId, stopping, id, hostFound, host, authVars, libraryVars,
                 fileVars, approvals>>

\* Rejected: "a local marker must never outlive the host-side grant".
Answered ==
  /\ authorizationDone
  /\ WorkerGoes("done", "leave")
  /\ IF authorizationOk THEN state' = "FAILED" /\ UNCHANGED marker
     ELSE marker' = NoHost /\ UNCHANGED state
  /\ UNCHANGED <<mainVars, deviceId, stopping, id, hostFound, host, authVars, libraryVars,
                 identity, approvals>>

StopClient ==
  /\ WorkerGoes("leave", "join")
  /\ discovering' = FALSE
  /\ UNCHANGED <<mainVars, sharedVars, id, hostFound, host, authVars, library, asked,
                 fileVars, approvals>>

JoinClient ==
  /\ library = Idle
  /\ WorkerGoes("join", "ended")
  /\ UNCHANGED <<mainVars, sharedVars, id, hostFound, host, authVars, libraryVars,
                 fileVars, approvals>>

WorkerStep ==
  \/ LoadIdentity \/ Publish \/ StartClient \/ Search \/ NobodyFound \/ Select
  \/ RequestAuthorization \/ AwaitAnswer \/ Answer \/ NoAnswer \/ Answered
  \/ StopClient \/ JoinClient

----------------------------------------------------------------------------
(* The library and its callbacks.                                           *)

Calls(callback, h) == library = Idle /\ library' = [in |-> callback, host |-> h]

\* Mutant: every host that answers is taken.
MayBeTaken == TRUE

\* discovered: the first host that answers is taken.
MayTake == ~hostFound

HostAnswers(h) ==
  /\ discovering /\ MayTake
  /\ Calls("discovered", h)
  /\ UNCHANGED <<mainVars, sharedVars, worker, id, hostFound, host, authVars, discovering,
                 asked, fileVars, approvals>>

TakeHost ==
  /\ library.in = "discovered"
  /\ library' = [library EXCEPT !.in = "taken"]
  /\ host' = library.host /\ hostFound' = TRUE
  /\ UNCHANGED <<mainVars, sharedVars, worker, id, authVars, discovering, asked, fileVars,
                 approvals>>

ShowHost ==
  /\ library.in = "taken" /\ library' = Idle
  /\ state' = "SEARCHING"
  /\ UNCHANGED <<mainVars, deviceId, stopping, worker, id, hostFound, host, authVars,
                 discovering, asked, fileVars, approvals>>

\* The library answers once, and not after it has been stopped.
Answers(callback) ==
  /\ ~authorizationDone /\ worker \in {"wait", "answer", "done", "leave"}
  /\ Calls(callback, NoHost)

\* The user enters the PIN; the answer may be lost, or come too late.
Approve ==
  /\ asked # NoHost
  /\ approvals' = approvals \cup {<<asked, id>>}
  /\ Answers("success") \/ UNCHANGED library
  /\ UNCHANGED <<mainVars, sharedVars, worker, id, hostFound, host, authVars, discovering,
                 asked, fileVars>>

Reject ==
  /\ asked # NoHost
  /\ Answers("failed")
  /\ UNCHANGED <<mainVars, sharedVars, worker, id, hostFound, host, authVars, discovering,
                 asked, fileVars, approvals>>

\* Mutant: done is set before ok.
AuthorizationSuccessDone ==
  /\ \/ library.in = "success" /\ library' = [library EXCEPT !.in = "ok"]
        /\ authorizationDone' = TRUE /\ UNCHANGED authorizationOk
     \/ library.in = "ok" /\ library' = Idle
        /\ authorizationOk' = TRUE /\ UNCHANGED authorizationDone
  /\ UNCHANGED <<mainVars, sharedVars, worker, id, hostFound, host, discovering, asked,
                 fileVars, approvals>>

AuthorizationSuccess ==
  /\ \/ library.in = "success" /\ library' = [library EXCEPT !.in = "ok"]
        /\ authorizationOk' = TRUE /\ UNCHANGED authorizationDone
     \/ library.in = "ok" /\ library' = Idle
        /\ authorizationDone' = TRUE /\ UNCHANGED authorizationOk
  /\ UNCHANGED <<mainVars, sharedVars, worker, id, hostFound, host, discovering, asked,
                 fileVars, approvals>>

AuthorizationFailed ==
  /\ \/ library.in = "failed" /\ library' = [library EXCEPT !.in = "rejected"]
        /\ authorizationOk' = FALSE /\ authorizationDone' = TRUE /\ UNCHANGED state
     \/ library.in = "rejected" /\ library' = Idle
        /\ state' = "FAILED" /\ UNCHANGED authVars
  /\ UNCHANGED <<mainVars, deviceId, stopping, worker, id, hostFound, host, discovering,
                 asked, fileVars, approvals>>

Callback == TakeHost \/ ShowHost \/ AuthorizationSuccess \/ AuthorizationFailed

----------------------------------------------------------------------------
Next ==
  \/ MainStep \/ Forget \/ Quit \/ Restart \/ PowerLoss
  \/ WorkerStep \/ Callback
  \/ \E h \in Hosts : HostAnswers(h)
  \/ Approve \/ Reject

Spec == Init /\ [][Next]_vars

\* Every thread runs, and a deadline passes; nothing is assumed of the hosts.
FairSpec ==
  Spec /\ WF_vars(MainStep) /\ WF_vars(WorkerStep) /\ WF_vars(Callback)

----------------------------------------------------------------------------
States == {"SEARCHING", "AUTHORIZING", "PAIRED", "FAILED"}
WithIdentity == {"publish", "client", "search", "nobody", "select", "request", "wait",
                 "answer", "done", "leave", "join"}

\* Types; the device never takes the identity zero (steam_link_pairing.c:109-111).
TypeOK ==
  /\ headless \in BOOLEAN /\ quitting \in BOOLEAN /\ stopping \in BOOLEAN
  /\ main \in {"outer", "open", "show", "result", "stop", "join", "stream", "exit"}
  /\ result \in [state : States, id : 0 .. Ids]
  /\ steamId \in 0 .. Ids /\ deviceId \in 0 .. Ids /\ id \in 0 .. Ids
  /\ pairedHost \in Hosts \cup {NoHost}
  /\ state \in States
  /\ worker \in WithIdentity \cup {"none", "load", "ended"}
  /\ worker \in WithIdentity => id # None
  /\ hostFound \in BOOLEAN /\ discovering \in BOOLEAN
  /\ authorizationOk \in BOOLEAN /\ authorizationDone \in BOOLEAN
  /\ host \in Hosts \cup {NoHost} /\ asked \in Hosts \cup {NoHost}
  /\ library \in [in : {"none", "discovered", "taken", "success", "ok", "failed",
                        "rejected"}, host : Hosts \cup {NoHost}]
  /\ identity \in 0 .. Ids
  /\ marker \in Hosts \cup {NoHost}
  /\ approvals \in SUBSET (Hosts \X (0 .. Ids))

\* The receiver streams for the host that has approved it in this pairing, under the
\* identity it has approved: not for the second host that answered the search, and
\* not for the host of an earlier pairing whose file could not be replaced
\* (steam_link_pairing.c:143-150,267; main.c:81-91).
StreamsToApprover ==
  main = "stream" =>
    /\ <<asked, steamId>> \in approvals
    /\ pairedHost \in {asked, NoHost}

\* How the attempt ended, for a host that was asked.
Outcome ==
  IF worker \notin {"ended", "none"} \/ asked = NoHost THEN "open"
  ELSE IF state \in {"PAIRED", "FAILED"} THEN state ELSE "none"

\* The pair main streams for: the address in the file, when it could be printed.
Serving ==
  IF main = "stream" THEN <<IF pairedHost = NoHost THEN asked ELSE pairedHost, steamId>>
  ELSE <<NoHost, None>>

\* The pairing implements what it promises the user of the host: one host is asked
\* in an attempt, under one identity, which by then is in the file, for the next start
\* to find if power and file hold, and which is the one saved before or one no host
\* knows; once it was asked the attempt ends with a verdict unless main has stopped it,
\* whichever way the answer, the deadline and the three flags interleave; and the
\* receiver streams for that host only (:89-112,143-150,191-195,263-287; main.c:69-91).
Contract ==
  INSTANCE Consent WITH
    Hosts <- Hosts, Ids <- Ids, NoHost <- NoHost,
    device <- id, saved <- identity, asked <- asked, approvals <- approvals,
    givenUp <- stopping, outcome <- Outcome, serving <- Serving
KeepsConsent == Contract!Spec

\* A signal ends the receiver wherever the pairing is (main.c:69,128-137).
PairingEnds == quitting ~> main = "exit" \/ ~quitting
=============================================================================

----------------------------- MODULE AudioSender -----------------------------
(***************************************************************************)
(* SvrtAudioTransport::Run (audio.cpp): the thread that captures what       *)
(* Windows plays and sends it to the receiver.  The capture is lost when    *)
(* the default device changes, and opened again; the socket is closed       *)
(* while the receiver is not available and after every failure.  The thread *)
(* ends when it is stopped, or when the capture cannot be opened.           *)
(*                                                                         *)
(* Windows' audio and the network are external.  The sleeps are left out,   *)
(* and a packet is sent in one piece.                                       *)
(***************************************************************************)
EXTENDS Integers

VARIABLES
  calm,       \* no call of Windows fails any more, and the device stays
  running,    \* running_
  available,  \* receiver_available_
  sender,     \* where Run is
  capture,    \* the capture client: "none", "good", or "stale" after a change
  socket,     \* whether it has a socket
  sockets,    \* how many sockets the process has open
  winsock     \* how many WSAStartups have had no WSACleanup yet

audioVars == <<sender, capture, socket, sockets, winsock>>

SenderGoes(from, to) == sender = from /\ sender' = to

CloseSocket ==
  /\ socket' = FALSE
  /\ sockets' = IF socket THEN sockets - 1 ELSE sockets

\* Without Winsock the thread ends at once, without a capture after it has given
\* Winsock back.
Startup ==
  /\ \/ SenderGoes("start", "look") /\ winsock' = winsock + 1 /\ capture' = "good"
     \/ ~calm /\ SenderGoes("start", "cleanup") /\ winsock' = winsock + 1 /\ UNCHANGED capture
     \/ ~calm /\ SenderGoes("start", "ended") /\ UNCHANGED <<winsock, capture>>
  /\ UNCHANGED <<socket, sockets>>

\* Mutant: the old client is kept.
InitializeCaptureKept ==
  /\ \/ SenderGoes("reopen", "look") /\ UNCHANGED capture
     \/ ~calm /\ SenderGoes("reopen", "cleanup") /\ capture' = "none"
  /\ UNCHANGED <<socket, sockets, winsock>>

\* initialize_capture, again: there is a device, it has a format that can be sent, and
\* it can be captured; or the thread ends.
InitializeCapture ==
  /\ \/ SenderGoes("reopen", "look") /\ capture' = "good"
     \/ ~calm /\ SenderGoes("reopen", "cleanup") /\ capture' = "none"
  /\ UNCHANGED <<socket, sockets, winsock>>

\* Mutant: while the receiver is away the thread does not look at its flag.
LookForReceiver ==
  /\ \/ ~running /\ available /\ SenderGoes("look", "cleanup") /\ UNCHANGED <<socket, sockets>>
     \/ ~available /\ SenderGoes("look", "look") /\ CloseSocket
     \/ running /\ available /\ SenderGoes("look", IF socket THEN "read" ELSE "connect")
        /\ UNCHANGED <<socket, sockets>>
  /\ UNCHANGED <<capture, winsock>>

\* The top of the loop.
Look ==
  /\ \/ ~running /\ SenderGoes("look", "cleanup") /\ UNCHANGED <<socket, sockets>>
     \/ running /\ ~available /\ SenderGoes("look", "look") /\ CloseSocket
     \/ running /\ available /\ SenderGoes("look", IF socket THEN "read" ELSE "connect")
        /\ UNCHANGED <<socket, sockets>>
  /\ UNCHANGED <<capture, winsock>>

ConnectAudio ==
  /\ \/ SenderGoes("connect", "read") /\ socket' = TRUE /\ sockets' = sockets + 1
     \/ ~calm /\ SenderGoes("connect", "look") /\ UNCHANGED <<socket, sockets>>
  /\ UNCHANGED <<capture, winsock>>

\* GetNextPacketSize and GetBuffer, which fail on a stale client; another error of
\* either ends the thread.
GetPacket ==
  /\ \/ capture = "good" /\ SenderGoes("read", "send") /\ UNCHANGED <<socket, sockets>>
     \/ capture = "stale" /\ SenderGoes("read", "reopen") /\ CloseSocket
     \/ ~calm /\ SenderGoes("read", "cleanup") /\ UNCHANGED <<socket, sockets>>
  /\ UNCHANGED <<capture, winsock>>

\* Nothing has been played.
NoPackets ==
  /\ ~calm
  /\ capture = "good" /\ SenderGoes("read", "look")
  /\ UNCHANGED <<capture, socket, sockets, winsock>>

Send ==
  /\ \/ SenderGoes("send", "look") /\ UNCHANGED <<socket, sockets>>
     \/ ~calm /\ SenderGoes("send", "look") /\ CloseSocket
  /\ UNCHANGED <<capture, winsock>>

End ==
  /\ SenderGoes("cleanup", "ended")
  /\ CloseSocket
  /\ capture' = "none"
  /\ winsock' = winsock - 1

AudioRun ==
  \/ Startup \/ InitializeCapture \/ Look \/ ConnectAudio
  \/ GetPacket \/ NoPackets \/ Send \/ End

\* The user changes or unplugs the default device.
DeviceChanges ==
  /\ ~calm
  /\ capture = "good" /\ capture' = "stale"
  /\ UNCHANGED <<sender, socket, sockets, winsock>>

AudioTypeOK ==
  /\ sender \in {"off", "start", "look", "connect", "read", "send", "reopen", "cleanup",
                 "ended"}
  /\ capture \in {"none", "good", "stale"}
  /\ socket \in BOOLEAN
=============================================================================

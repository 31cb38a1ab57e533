--------------------------- MODULE PairingProofs ---------------------------
(***************************************************************************)
(* Proofs about the pairing, for any number of hosts and identities: the   *)
(* receiver streams for the host that approved it, and the pairing         *)
(* implements what Consent promises, whatever the files hold after a       *)
(* restart or a loss of power.  PairingInv is the inductive invariant, and *)
(* VerdictInv what the refinement needs beyond it.                         *)
(***************************************************************************)
EXTENDS Pairing, TLAPS

AtHome == {"outer", "stream", "exit"}
Unasked == {"load", "publish", "client", "search", "nobody", "select", "request"}
Over == {"leave", "join", "ended", "none"}

\* The pairing thread lives as long as main waits for it.
ThreadInv == (worker = "none") <=> main \in AtHome

\* The identity in use is the one in the file, until the next attempt loads it anew.
IdentityInv ==
  /\ worker = "load" => id = None
  /\ worker \in WithIdentity => id = identity
  /\ worker \in WithIdentity \ {"publish"} => deviceId = id
  /\ asked # NoHost => id = identity /\ id # None
  /\ \A a \in approvals : a[2] # None

\* The host in use is the first that answered, and the one that is asked.
HostInv ==
  /\ worker \in Unasked => asked = NoHost
  /\ worker \in {"select", "request"} => hostFound
  /\ hostFound => host # NoHost
  /\ library.in = "discovered" => ~hostFound /\ library.host # NoHost
  /\ asked # NoHost => hostFound /\ host = asked

\* What the library says of a host, the host has said.
AnswerInv ==
  /\ library.in = "success" \/ authorizationOk =>
       asked # NoHost /\ <<asked, id>> \in approvals
  /\ authorizationOk => library.in = "ok" \/ (authorizationDone /\ library.in = "none")
  /\ library.in = "success" => ~authorizationDone
  /\ library.in = "ok" => authorizationOk

\* What main takes for paired has been approved and is in the file.
OutcomeInv ==
  /\ state = "PAIRED" =>
       authorizationOk /\ worker \in Over /\ deviceId = id /\ (worker # "none" => marker = asked)
  /\ main \in {"stop", "join"} /\ result.state = "PAIRED" =>
       authorizationOk /\ worker \in Over /\ result.id = id /\ marker = asked
  /\ pairedHost # NoHost => main \in {"stream", "exit"} \/ (main = "outer" /\ quitting)

PairingInv ==
  /\ ThreadInv /\ IdentityInv /\ HostInv /\ AnswerInv /\ OutcomeInv
  /\ StreamsToApprover

\* Every variable keeps its type; the device's identity is never zero.
THEOREM TypeCorrect == Spec => []TypeOK
<1> USE PairingAssumption DEF TypeOK, States, WithIdentity, None, vars, mainVars,
      sharedVars, authVars, libraryVars, fileVars
<1>1. Init => TypeOK
  <2> SUFFICES ASSUME Init PROVE TypeOK
    OBVIOUS
  <2>1. /\ headless \in BOOLEAN /\ quitting \in BOOLEAN /\ stopping \in BOOLEAN
        /\ hostFound \in BOOLEAN /\ discovering \in BOOLEAN
        /\ authorizationOk \in BOOLEAN /\ authorizationDone \in BOOLEAN
    BY Zenon DEF Init
  <2> QED
    BY <2>1 DEF Init, NothingSeen, Idle
<1>2. TypeOK /\ [Next]_vars => TypeOK'
  <2> SUFFICES ASSUME TypeOK, [Next]_vars PROVE TypeOK'
    OBVIOUS
  <2>1. CASE Start
    <3>1. hostFound' \in BOOLEAN /\ discovering' \in BOOLEAN
         /\ authorizationOk' \in BOOLEAN /\ authorizationDone' \in BOOLEAN
         /\ stopping' \in BOOLEAN
      BY <2>1, Zenon DEF Start, NothingYet
    <3> QED
      BY <2>1, <3>1 DEF Start, MainGoes, NothingYet, Idle
  <2>2. CASE OpenScreen
    BY <2>2 DEF OpenScreen, MainGoes
  <2>3. CASE Show
    BY <2>3 DEF Show, MainGoes
  <2>4. CASE Look
    BY <2>4 DEF Look, MainGoes
  <2>5. CASE StopPairing
    BY <2>5 DEF StopPairing, MainGoes
  <2>6. CASE JoinPairing
    BY <2>6 DEF JoinPairing, MainGoes, NothingSeen
  <2>7. CASE Exit
    BY <2>7 DEF Exit
  <2>8. CASE Forget
    BY <2>8 DEF Forget, MainGoes
  <2>9. CASE Quit
    BY <2>9 DEF Quit
  <2>10. CASE Restart
    <3>1. hostFound' \in BOOLEAN /\ discovering' \in BOOLEAN
         /\ authorizationOk' \in BOOLEAN /\ authorizationDone' \in BOOLEAN
         /\ stopping' \in BOOLEAN /\ quitting' \in BOOLEAN
      BY <2>10, Zenon DEF Restart, StartsAgain, NothingYet
    <3> QED
      BY <2>10, <3>1 DEF Restart, StartsAgain, NothingYet, NothingSeen, Idle
  <2>11. CASE LoadIdentity
    BY <2>11 DEF LoadIdentity, WorkerGoes, ReadIdentity, CreateIdentity,
       NoIdentity, Drawn
  <2>12. CASE Publish
    BY <2>12 DEF Publish, WorkerGoes
  <2>13. CASE StartClient
    <3>1. discovering' \in BOOLEAN
      BY <2>13, Zenon DEF StartClient
    <3> QED
      BY <2>13, <3>1 DEF StartClient, WorkerGoes
  <2>14. CASE Search
    BY <2>14 DEF Search, WorkerGoes
  <2>15. CASE NobodyFound
    BY <2>15 DEF NobodyFound, WorkerGoes
  <2>16. CASE Select
    <3>1. discovering' \in BOOLEAN
      BY <2>16, Zenon DEF Select
    <3> QED
      BY <2>16, <3>1 DEF Select, WorkerGoes
  <2>17. CASE RequestAuthorization
    BY <2>17 DEF RequestAuthorization, WorkerGoes
  <2>18. CASE AwaitAnswer
    BY <2>18 DEF AwaitAnswer, WorkerGoes
  <2>19. CASE Answer
    BY <2>19 DEF Answer, WorkerGoes, SavePairedHost
  <2>20. CASE NoAnswer
    BY <2>20 DEF NoAnswer, WorkerGoes
  <2>21. CASE Answered
    BY <2>21 DEF Answered, WorkerGoes
  <2>22. CASE StopClient
    <3>1. discovering' \in BOOLEAN
      BY <2>22, Zenon DEF StopClient
    <3> QED
      BY <2>22, <3>1 DEF StopClient, WorkerGoes
  <2>23. CASE JoinClient
    BY <2>23 DEF JoinClient, WorkerGoes
  <2>24. CASE TakeHost
    BY <2>24 DEF TakeHost
  <2>25. CASE ShowHost
    BY <2>25 DEF ShowHost, Idle
  <2>26. CASE AuthorizationSuccess
    <3>1. authorizationOk' \in BOOLEAN /\ authorizationDone' \in BOOLEAN
      BY <2>26, Zenon DEF AuthorizationSuccess
    <3> QED
      BY <2>26, <3>1 DEF AuthorizationSuccess, Idle
  <2>27. CASE AuthorizationFailed
    <3>1. authorizationOk' \in BOOLEAN /\ authorizationDone' \in BOOLEAN
      BY <2>27, Zenon DEF AuthorizationFailed
    <3> QED
      BY <2>27, <3>1 DEF AuthorizationFailed, Idle
  <2>28. CASE Approve
    <3>1. approvals' \in SUBSET (Hosts \X (0 .. Ids))
      BY <2>28 DEF Approve
    <3> QED
      BY <2>28, <3>1 DEF Approve, Answers, Calls, Idle
  <2>29. CASE Reject
    BY <2>29 DEF Reject, Answers, Calls, Idle
  <2>30. ASSUME NEW h \in Hosts, HostAnswers(h) PROVE TypeOK'
    BY <2>30 DEF HostAnswers, Calls, MayTake, Idle
  <2>31. CASE UNCHANGED vars
    BY <2>31
  <2>32. CASE PowerLoss
    <3>1. hostFound' \in BOOLEAN /\ discovering' \in BOOLEAN
         /\ authorizationOk' \in BOOLEAN /\ authorizationDone' \in BOOLEAN
         /\ stopping' \in BOOLEAN /\ quitting' \in BOOLEAN
      BY <2>32, Zenon DEF PowerLoss, StartsAgain, NothingYet
    <3>2. marker' \in Hosts \cup {NoHost}
      BY <2>32 DEF PowerLoss
    <3> QED
      BY <2>32, <3>1, <3>2 DEF PowerLoss, StartsAgain, NothingYet, NothingSeen, Idle
  <2> QED
    BY <2>1, <2>2, <2>3, <2>4, <2>5, <2>6, <2>7, <2>8, <2>9, <2>10, <2>11,
       <2>12, <2>13, <2>14, <2>15, <2>16, <2>17, <2>18, <2>19, <2>20, <2>21,
       <2>22, <2>23, <2>24, <2>25, <2>26, <2>27, <2>28, <2>29, <2>30, <2>31, <2>32
    DEF Next, MainStep, WorkerStep, Callback
<1> QED BY <1>1, <1>2, PTL DEF Spec

LEMMA PairingInvariant == Spec => []PairingInv
<1>1. Init => PairingInv
  BY PairingAssumption DEF Init, NothingSeen, Idle, PairingInv, ThreadInv, IdentityInv,
     HostInv, AnswerInv, OutcomeInv, StreamsToApprover,
     AtHome, Unasked, Over, WithIdentity, None
<1>2. TypeOK /\ PairingInv /\ [Next]_vars => PairingInv'
  <2> SUFFICES ASSUME TypeOK, PairingInv, [Next]_vars PROVE PairingInv'
    OBVIOUS
  <2> USE PairingAssumption DEF TypeOK, PairingInv, ThreadInv, IdentityInv,
        HostInv, AnswerInv, OutcomeInv, StreamsToApprover,
        AtHome, Unasked, Over, WithIdentity, None, vars, mainVars, sharedVars,
        authVars, libraryVars, fileVars
  <2>1. CASE Start
    BY <2>1 DEF Start, MainGoes, NothingYet, Idle
  <2>2. CASE OpenScreen
    BY <2>2 DEF OpenScreen, MainGoes
  <2>3. CASE Show
    BY <2>3 DEF Show, MainGoes
  <2>4. CASE Look
    BY <2>4 DEF Look, MainGoes
  <2>5. CASE StopPairing
    BY <2>5 DEF StopPairing, MainGoes
  <2>6. CASE JoinPairing
    BY <2>6 DEF JoinPairing, MainGoes, NothingSeen
  <2>7. CASE Exit
    BY <2>7 DEF Exit
  <2>8. CASE Forget
    BY <2>8 DEF Forget, MainGoes
  <2>9. CASE Quit
    BY <2>9 DEF Quit
  <2>10. CASE Restart
    BY <2>10 DEF Restart, StartsAgain, NothingYet, NothingSeen, Idle
  <2>11. CASE LoadIdentity
    BY <2>11 DEF LoadIdentity, WorkerGoes, ReadIdentity, CreateIdentity,
       NoIdentity, Drawn
  <2>12. CASE Publish
    BY <2>12 DEF Publish, WorkerGoes
  <2>13. CASE StartClient
    BY <2>13 DEF StartClient, WorkerGoes
  <2>14. CASE Search
    BY <2>14 DEF Search, WorkerGoes
  <2>15. CASE NobodyFound
    BY <2>15 DEF NobodyFound, WorkerGoes
  <2>16. CASE Select
    BY <2>16 DEF Select, WorkerGoes
  <2>17. CASE RequestAuthorization
    BY <2>17 DEF RequestAuthorization, WorkerGoes
  <2>18. CASE AwaitAnswer
    BY <2>18 DEF AwaitAnswer, WorkerGoes
  <2>19. CASE Answer
    BY <2>19 DEF Answer, WorkerGoes, SavePairedHost
  <2>20. CASE NoAnswer
    BY <2>20 DEF NoAnswer, WorkerGoes
  <2>21. CASE Answered
    BY <2>21 DEF Answered, WorkerGoes
  <2>22. CASE StopClient
    BY <2>22 DEF StopClient, WorkerGoes
  <2>23. CASE JoinClient
    BY <2>23 DEF JoinClient, WorkerGoes
  <2>24. CASE TakeHost
    BY <2>24 DEF TakeHost
  <2>25. CASE ShowHost
    BY <2>25 DEF ShowHost, Idle
  <2>26. CASE AuthorizationSuccess
    BY <2>26 DEF AuthorizationSuccess, Idle
  <2>27. CASE AuthorizationFailed
    BY <2>27 DEF AuthorizationFailed, Idle
  <2>28. CASE Approve
    BY <2>28 DEF Approve, Answers, Calls, Idle
  <2>29. CASE Reject
    BY <2>29 DEF Reject, Answers, Calls, Idle
  <2>30. ASSUME NEW h \in Hosts, HostAnswers(h) PROVE PairingInv'
    BY <2>30 DEF HostAnswers, Calls, MayTake, Idle
  <2>31. CASE UNCHANGED vars
    BY <2>31
  <2>32. CASE PowerLoss
    BY <2>32 DEF PowerLoss, StartsAgain, NothingYet, NothingSeen, Idle
  <2> QED
    BY <2>1, <2>2, <2>3, <2>4, <2>5, <2>6, <2>7, <2>8, <2>9, <2>10, <2>11,
       <2>12, <2>13, <2>14, <2>15, <2>16, <2>17, <2>18, <2>19, <2>20, <2>21,
       <2>22, <2>23, <2>24, <2>25, <2>26, <2>27, <2>28, <2>29, <2>30, <2>31, <2>32
    DEF Next, MainStep, WorkerStep, Callback
<1> QED BY <1>1, <1>2, TypeCorrect, PTL DEF Spec

\* The receiver streams for the host that has approved it in this pairing, under
\* the identity it has approved, whichever hosts answered before and whatever file
\* an earlier pairing left.
THEOREM StreamsForApprover == Spec => []StreamsToApprover
<1>1. PairingInv => StreamsToApprover
  BY DEF PairingInv
<1> QED BY <1>1, PairingInvariant, PTL

----------------------------------------------------------------------------
(* The pairing implements Consent.                                          *)

\* The library calls nothing before the search and nothing after it was stopped.
QuietInv ==
  /\ worker \in {"load", "publish", "client", "join", "ended", "none"} => ~discovering
  /\ worker \in {"load", "publish", "client", "ended", "none"} => library = Idle

\* An answer comes after the host was taken and shown, and is kept.
KeptInv ==
  /\ authorizationDone \/ library.in \in {"success", "ok", "failed", "rejected"} =>
       asked # NoHost
  /\ authorizationDone => library.in \notin {"discovered", "taken"}
  /\ authorizationDone /\ ~authorizationOk => library.in = "rejected" \/ state = "FAILED"
  /\ main \in {"stop", "join"} /\ result.state = "PAIRED" => state = "PAIRED"

\* Unless main has stopped it, a pairing that asked a host leaves with a verdict, or
\* with the callback that is about to give one.
LeavesInv ==
  /\ main = "join" => stopping
  /\ worker = "none" /\ asked # NoHost => stopping
  /\ worker \in {"answer", "done", "leave", "join", "ended"} /\ asked # NoHost /\ ~stopping =>
       library.in \notin {"discovered", "taken"}
  /\ worker \in {"leave", "join", "ended"} /\ asked # NoHost /\ ~stopping =>
       state \in {"PAIRED", "FAILED"} \/ library.in = "rejected"

VerdictInv == QuietInv /\ KeptInv /\ LeavesInv

LEMMA VerdictInvariant == Spec => []VerdictInv
<1>1. Init => VerdictInv
  BY PairingAssumption DEF Init, NothingSeen, Idle, VerdictInv, QuietInv, KeptInv, LeavesInv
<1>2. TypeOK /\ PairingInv /\ VerdictInv /\ [Next]_vars => VerdictInv'
  <2> SUFFICES ASSUME TypeOK, PairingInv, VerdictInv, [Next]_vars PROVE VerdictInv'
    OBVIOUS
  <2> USE PairingAssumption DEF TypeOK, PairingInv, ThreadInv, IdentityInv,
        HostInv, AnswerInv, OutcomeInv, VerdictInv, QuietInv, KeptInv, LeavesInv,
        AtHome, Unasked, Over, WithIdentity, None, vars, mainVars, sharedVars,
        authVars, libraryVars, fileVars
  <2>1. CASE Start
    BY <2>1 DEF Start, MainGoes, NothingYet, Idle
  <2>2. CASE OpenScreen
    BY <2>2 DEF OpenScreen, MainGoes
  <2>3. CASE Show
    BY <2>3 DEF Show, MainGoes
  <2>4. CASE Look
    BY <2>4 DEF Look, MainGoes
  <2>5. CASE StopPairing
    BY <2>5 DEF StopPairing, MainGoes
  <2>6. CASE JoinPairing
    BY <2>6 DEF JoinPairing, MainGoes, NothingSeen
  <2>7. CASE Exit
    BY <2>7 DEF Exit
  <2>8. CASE Forget
    BY <2>8 DEF Forget, MainGoes
  <2>9. CASE Quit
    BY <2>9 DEF Quit
  <2>10. CASE Restart
    BY <2>10 DEF Restart, StartsAgain, NothingYet, NothingSeen, Idle
  <2>11. CASE LoadIdentity
    BY <2>11 DEF LoadIdentity, WorkerGoes, ReadIdentity, CreateIdentity,
       NoIdentity, Drawn
  <2>12. CASE Publish
    BY <2>12 DEF Publish, WorkerGoes
  <2>13. CASE StartClient
    BY <2>13 DEF StartClient, WorkerGoes
  <2>14. CASE Search
    BY <2>14 DEF Search, WorkerGoes
  <2>15. CASE NobodyFound
    BY <2>15 DEF NobodyFound, WorkerGoes
  <2>16. CASE Select
    BY <2>16 DEF Select, WorkerGoes
  <2>17. CASE RequestAuthorization
    BY <2>17 DEF RequestAuthorization, WorkerGoes
  <2>18. CASE AwaitAnswer
    BY <2>18 DEF AwaitAnswer, WorkerGoes, Idle
  <2>19. CASE Answer
    BY <2>19 DEF Answer, WorkerGoes, SavePairedHost
  <2>20. CASE NoAnswer
    BY <2>20 DEF NoAnswer, WorkerGoes
  <2>21. CASE Answered
    BY <2>21 DEF Answered, WorkerGoes
  <2>22. CASE StopClient
    BY <2>22 DEF StopClient, WorkerGoes
  <2>23. CASE JoinClient
    BY <2>23 DEF JoinClient, WorkerGoes
  <2>24. CASE TakeHost
    BY <2>24 DEF TakeHost, Idle
  <2>25. CASE ShowHost
    BY <2>25 DEF ShowHost, Idle
  <2>26. CASE AuthorizationSuccess
    BY <2>26 DEF AuthorizationSuccess, Idle
  <2>27. CASE AuthorizationFailed
    BY <2>27 DEF AuthorizationFailed, Idle
  <2>28. CASE Approve
    BY <2>28 DEF Approve, Answers, Calls, Idle
  <2>29. CASE Reject
    BY <2>29 DEF Reject, Answers, Calls, Idle
  <2>30. ASSUME NEW h \in Hosts, HostAnswers(h) PROVE VerdictInv'
    BY <2>30 DEF HostAnswers, Calls, MayTake, Idle
  <2>31. CASE UNCHANGED vars
    BY <2>31
  <2>32. CASE PowerLoss
    BY <2>32 DEF PowerLoss, StartsAgain, NothingYet, NothingSeen, Idle
  <2> QED
    BY <2>1, <2>2, <2>3, <2>4, <2>5, <2>6, <2>7, <2>8, <2>9, <2>10, <2>11,
       <2>12, <2>13, <2>14, <2>15, <2>16, <2>17, <2>18, <2>19, <2>20, <2>21,
       <2>22, <2>23, <2>24, <2>25, <2>26, <2>27, <2>28, <2>29, <2>30, <2>31, <2>32
    DEF Next, MainStep, WorkerStep, Callback
<1> QED BY <1>1, <1>2, TypeCorrect, PairingInvariant, PTL DEF Spec

\* For any number of hosts and identities the pairing implements what it promises the
\* user of a host: the contract of Consent.
THEOREM ImplementsConsent == Spec => KeepsConsent
<1>1. Init => Contract!Init
  BY DEF Init, NothingSeen, Contract!Init, Outcome, Serving, Contract!Nobody, None
<1>2. TypeOK /\ PairingInv /\ VerdictInv /\ [Next]_vars =>
        [Contract!Next]_(Contract!consentVars)
  <2> DEFINE Promised == [Contract!Next]_(Contract!consentVars)
  <2> SUFFICES ASSUME TypeOK, PairingInv, VerdictInv, [Next]_vars PROVE Promised
    OBVIOUS
  <2> USE PairingAssumption DEF TypeOK, PairingInv, ThreadInv, IdentityInv,
        HostInv, AnswerInv, OutcomeInv, VerdictInv, QuietInv, KeptInv, LeavesInv,
        AtHome, Unasked, Over, WithIdentity, None, vars, mainVars, sharedVars,
        authVars, libraryVars, fileVars, Outcome, Serving, Contract!consentVars,
        Contract!Next, Contract!Nobody
  <2>1. CASE Start
    BY <2>1 DEF Start, MainGoes, NothingYet, Idle, Contract!Again, Contract!Afresh
  <2>2. CASE OpenScreen
    BY <2>2 DEF OpenScreen, MainGoes
  <2>3. CASE Show
    BY <2>3 DEF Show, MainGoes
  <2>4. CASE Look
    BY <2>4 DEF Look, MainGoes
  <2>5. CASE StopPairing
    BY <2>5 DEF StopPairing, MainGoes, Contract!GiveUp
  <2>6. CASE JoinPairing
    BY <2>6 DEF JoinPairing, MainGoes, NothingSeen, Contract!Serve
  <2>7. CASE Exit
    BY <2>7 DEF Exit, Contract!EndService
  <2>8. CASE Forget
    BY <2>8 DEF Forget, MainGoes, Contract!EndService
  <2>9. CASE Quit
    BY <2>9 DEF Quit
  <2>10. CASE Restart
    BY <2>10 DEF Restart, StartsAgain, NothingYet, NothingSeen, Idle, Contract!Again, Contract!Afresh
  <2>11. CASE LoadIdentity
    BY <2>11 DEF LoadIdentity, WorkerGoes, ReadIdentity, CreateIdentity,
       NoIdentity, Drawn, Contract!Identify
  <2>12. CASE Publish
    BY <2>12 DEF Publish, WorkerGoes
  <2>13. CASE StartClient
    BY <2>13 DEF StartClient, WorkerGoes
  <2>14. CASE Search
    BY <2>14 DEF Search, WorkerGoes
  <2>15. CASE NobodyFound
    BY <2>15 DEF NobodyFound, WorkerGoes
  <2>16. CASE Select
    BY <2>16 DEF Select, WorkerGoes
  <2>17. CASE RequestAuthorization
    BY <2>17 DEF RequestAuthorization, WorkerGoes, Contract!Ask
  <2>18. CASE AwaitAnswer
    BY <2>18 DEF AwaitAnswer, WorkerGoes
  <2>19. CASE Answer
    BY <2>19 DEF Answer, WorkerGoes, SavePairedHost
  <2>20. CASE NoAnswer
    BY <2>20 DEF NoAnswer, WorkerGoes
  <2>21. CASE Answered
    BY <2>21 DEF Answered, WorkerGoes
  <2>22. CASE StopClient
    BY <2>22 DEF StopClient, WorkerGoes
  <2>23. CASE JoinClient
    BY <2>23 DEF JoinClient, WorkerGoes, Contract!Conclude, Idle
  <2>24. CASE TakeHost
    BY <2>24 DEF TakeHost
  <2>25. CASE ShowHost
    BY <2>25 DEF ShowHost, Idle
  <2>26. CASE AuthorizationSuccess
    BY <2>26 DEF AuthorizationSuccess, Idle
  <2>27. CASE AuthorizationFailed
    BY <2>27 DEF AuthorizationFailed, Idle
  <2>28. CASE Approve
    BY <2>28 DEF Approve, Answers, Calls, Idle, Contract!Approve
  <2>29. CASE Reject
    BY <2>29 DEF Reject, Answers, Calls, Idle
  <2>30. ASSUME NEW h \in Hosts, HostAnswers(h) PROVE Promised
    BY <2>30 DEF HostAnswers, Calls, MayTake, Idle
  <2>31. CASE UNCHANGED vars
    BY <2>31
  <2>32. CASE PowerLoss
    BY <2>32 DEF PowerLoss, StartsAgain, NothingYet, NothingSeen, Idle, Contract!AfterPowerLoss,
       Contract!Afresh
  <2> QED
    BY <2>1, <2>2, <2>3, <2>4, <2>5, <2>6, <2>7, <2>8, <2>9, <2>10, <2>11,
       <2>12, <2>13, <2>14, <2>15, <2>16, <2>17, <2>18, <2>19, <2>20, <2>21,
       <2>22, <2>23, <2>24, <2>25, <2>26, <2>27, <2>28, <2>29, <2>30, <2>31, <2>32
    DEF Next, MainStep, WorkerStep, Callback
<1> QED
  BY <1>1, <1>2, TypeCorrect, PairingInvariant, VerdictInvariant, PTL
     DEF Spec, KeepsConsent, Contract!Spec
=============================================================================

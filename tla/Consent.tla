------------------------------ MODULE Consent ------------------------------
(***************************************************************************)
(* What a pairing promises the user of a Steam host, whatever threads,     *)
(* deadlines, files and restarts do: one host is asked in an attempt,      *)
(* under one identity, which is saved before; an attempt that has asked a  *)
(* host ends with a verdict unless the user gives it up, PAIRED is said    *)
(* only of a host that has approved, and the receiver serves that host     *)
(* only, under the identity that was approved.  Not promised is that the   *)
(* identity is kept from one attempt to the next: when what was saved      *)
(* cannot be read, another takes its place.                                *)
(***************************************************************************)
EXTENDS Integers

CONSTANTS
  Hosts,      \* the Steam hosts
  Ids,        \* bound: identities are 1 .. Ids
  NoHost      \* no host

VARIABLES
  device,     \* the identity of the device in this attempt, 0 until there is one
  saved,      \* the identity that is saved
  asked,      \* the host asked in this attempt
  approvals,  \* what the hosts know: pairs of a host and an identity
  givenUp,    \* nobody waits for this attempt any more
  outcome,    \* how it ended; "open" before, "none" without a verdict
  serving     \* the pair the receiver streams for, or Nobody

consentVars == <<device, saved, asked, approvals, givenUp, outcome, serving>>

Nobody == <<NoHost, 0>>

Init ==
  /\ device = 0 /\ saved = 0 /\ asked = NoHost /\ approvals = {}
  /\ givenUp = FALSE /\ outcome = "open" /\ serving = Nobody

\* The identity is the one saved before, or one that no host knows.
Identify(i) ==
  /\ device = 0
  /\ i = saved \/ \A a \in approvals : a[2] # i
  /\ device' = i /\ saved' = i
  /\ UNCHANGED <<asked, approvals, givenUp, outcome, serving>>

Ask(h) ==
  /\ device # 0 /\ outcome = "open"
  /\ asked = NoHost /\ asked' = h
  /\ UNCHANGED <<device, saved, approvals, givenUp, outcome, serving>>

Approve ==
  /\ asked # NoHost
  /\ approvals' = approvals \cup {<<asked, device>>}
  /\ UNCHANGED <<device, saved, asked, givenUp, outcome, serving>>

GiveUp ==
  /\ givenUp' = TRUE
  /\ UNCHANGED <<device, saved, asked, approvals, outcome, serving>>

Conclude ==
  /\ outcome = "open" /\ asked # NoHost
  /\ \/ outcome' = "PAIRED" /\ <<asked, device>> \in approvals
     \/ outcome' = "FAILED"
     \/ outcome' = "none" /\ givenUp
  /\ UNCHANGED <<device, saved, asked, approvals, givenUp, serving>>

Serve ==
  /\ outcome = "PAIRED"
  /\ serving' = <<asked, device>>
  /\ UNCHANGED <<device, saved, asked, approvals, givenUp, outcome>>

\* The host withdraws its approval, or the receiver ends.
EndService ==
  /\ serving' = Nobody
  /\ UNCHANGED <<device, saved, asked, approvals, givenUp, outcome>>

\* Another attempt, after whatever ended the last one: a crash, too.
Afresh ==
  /\ device' = 0 /\ asked' = NoHost /\ givenUp' = FALSE /\ outcome' = "open"
  /\ serving' = Nobody
  /\ UNCHANGED approvals

Again == Afresh /\ UNCHANGED saved

\* A loss of power may bring back what was saved earlier, or nothing.
AfterPowerLoss == Afresh /\ saved' \in 0 .. Ids

Next ==
  \/ \E i \in 1 .. Ids : Identify(i)
  \/ \E h \in Hosts : Ask(h)
  \/ Approve \/ GiveUp \/ Conclude \/ Serve \/ EndService \/ Again \/ AfterPowerLoss

Spec == Init /\ [][Next]_consentVars
=============================================================================

----------------------------- MODULE HostLookup -----------------------------
(***************************************************************************)
(* resolve_with_timeout (receiver_link.cpp): a name is looked up by Windows *)
(* while the polling thread waits for at most 750 ms or until the link is   *)
(* stopped.  The callback may come after the thread has given up, so the    *)
(* two share a counted context: whoever lets go of it last frees it, and    *)
(* the addresses in it unless the thread has taken them.                    *)
(*                                                                         *)
(* Windows is external: it answers at once or calls back later, once.      *)
(***************************************************************************)
EXTENDS Integers, FiniteSets

CONSTANTS
  Contexts,   \* bound: contexts that exist at a time
  NoContext   \* no context; also no list of addresses

VARIABLES
  calm,       \* Windows answers in time, and with addresses
  running,    \* running_
  lookup,     \* where resolve_with_timeout is; "found" or "none" when it has returned
  mine,       \* its context
  list,       \* *addresses, named after the context it came from
  contexts    \* references, where the callback is, event, addresses

lookupVars == <<lookup, mine, list, contexts>>

\* A context that has been deleted, or not been allocated yet.
Unused == [references |-> 0, callback |-> "none", event |-> FALSE, addresses |-> FALSE]

LookupInit ==
  /\ lookup = "idle"
  /\ mine = NoContext /\ list = NoContext
  /\ contexts = [c \in Contexts |-> Unused]

\* n calls of release_resolve_context.
Released(context, n) ==
  IF context.references = n THEN Unused
  ELSE [context EXCEPT !.references = @ - n]

LookupGoes(from, to) == lookup = from /\ lookup' = to

\* No event, or a name that is not UTF-8.
NoQuery ==
  /\ ~calm
  /\ LookupGoes("query", "none")
  /\ UNCHANGED <<mine, list, contexts>>

\* GetAddrInfoExW leaves the callback pending, or has succeeded or failed.
Query(c) ==
  /\ contexts[c] = Unused
  /\ mine' = c
  /\ \E callback \in {"pending", "none"}, resolved \in BOOLEAN :
       /\ callback = "pending" => ~resolved
       /\ calm => callback = "pending" \/ resolved
       /\ contexts' = [contexts EXCEPT ![c] =
            [references |-> 2, callback |-> callback, event |-> TRUE, addresses |-> resolved]]
       /\ LookupGoes("query", IF callback = "pending" THEN "wait" ELSE "take")
  /\ UNCHANGED list

Signalled(c) == contexts[c].callback \in {"signalled", "over"}

\* The event, the end of the link, or the deadline ends the wait; then the event is
\* looked at once more.
Wait ==
  /\ lookup = "wait"
  /\ IF Signalled(mine) THEN lookup' = "take"
     ELSE (~running \/ ~calm) /\ lookup' = "abandon"
  /\ UNCHANGED <<mine, list, contexts>>

\* Cancel, and leave the context to the callback.
Abandon ==
  /\ LookupGoes("abandon", "none")
  /\ contexts' = [contexts EXCEPT ![mine] = Released(@, 1)]
  /\ mine' = NoContext
  /\ UNCHANGED list

\* Mutant: context->addresses is not reset.
TakeShared ==
  /\ LookupGoes("take", "release")
  /\ list' = IF contexts[mine].addresses THEN mine ELSE NoContext
  /\ UNCHANGED <<mine, contexts>>

Take ==
  /\ LookupGoes("take", "release")
  /\ list' = IF contexts[mine].addresses THEN mine ELSE NoContext
  /\ contexts' = [contexts EXCEPT ![mine].addresses = FALSE]
  /\ UNCHANGED mine

\* Without a callback both references are the thread's.
Release ==
  /\ LookupGoes("release", IF list # NoContext THEN "found" ELSE "none")
  /\ contexts' = [contexts EXCEPT ![mine] =
                    Released(@, IF @.callback = "none" THEN 2 ELSE 1)]
  /\ mine' = NoContext
  /\ UNCHANGED list

Resolve ==
  \/ NoQuery \/ \E c \in Contexts : Query(c)
  \/ Wait \/ Abandon \/ Take \/ Release

\* resolve_complete: the result, the event, the reference.
ResolveComplete(c) ==
  /\ \/ /\ contexts[c].callback = "pending"
        /\ \E resolved \in BOOLEAN :
             /\ calm /\ mine = c => resolved
             /\ contexts' = [contexts EXCEPT ![c].callback = "stored",
                                             ![c].addresses = resolved]
     \/ /\ contexts[c].callback = "stored"
        /\ contexts' = [contexts EXCEPT ![c].callback = "signalled"]
     \/ /\ contexts[c].callback = "signalled"
        /\ contexts' = [contexts EXCEPT ![c] = Released([@ EXCEPT !.callback = "over"], 1)]
  /\ UNCHANGED <<lookup, mine, list>>

----------------------------------------------------------------------------
LookupTypeOK ==
  /\ lookup \in {"idle", "query", "wait", "abandon", "take", "release",
                 "found", "none"}
  /\ mine \in Contexts \cup {NoContext} /\ list \in Contexts \cup {NoContext}
  /\ contexts \in [Contexts -> [references : 0 .. 2, event : BOOLEAN, addresses : BOOLEAN,
                     callback : {"none", "pending", "stored", "signalled", "over"}]]

\* Those who will still touch the context.
Users(c) ==
  (IF mine # c THEN 0 ELSE IF contexts[c].callback = "none" THEN 2 ELSE 1)
    + (IF contexts[c].callback \in {"pending", "stored", "signalled"} THEN 1 ELSE 0)

\* A context, its event and its addresses live as long as the thread or the callback
\* will touch them, and no longer; a list of addresses has one owner, so it is freed
\* once, whichever of the answer, the deadline and the end of the link comes first
\* (receiver_link.cpp:153-165,197-219).
Owned ==
  \A c \in Contexts :
    /\ contexts[c].references = Users(c)
    /\ contexts[c].event <=> Users(c) > 0
    /\ contexts[c].addresses => Users(c) > 0 /\ list # c
=============================================================================

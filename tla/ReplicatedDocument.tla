------------------------- MODULE ReplicatedDocument -------------------------
(***************************************************************************)
(* What a WeWrite session promises: there is ONE history of the shared     *)
(* document.  Each client walks along it from the empty document, one      *)
(* version at a time, in its own time; it may lag behind or stop, but it   *)
(* never skips a version and never goes back.  It leaves the history only  *)
(* together with the session, and for good.                                *)
(***************************************************************************)
EXTENDS Document

VARIABLES
  versions,   \* the history: a sequence of documents, which only grows
  at,         \* for each client, the version it has reached, or 0: it has left
  shown,      \* for each client, the document that it shows
  members     \* the clients in the session

vars == <<versions, at, shown, members>>

Init ==
  /\ versions = <<EmptyDocument>>
  /\ at = [c \in Client |-> 1]
  /\ shown = [c \in Client |-> EmptyDocument]
  /\ members = Client

\* The client that is furthest ahead brings a new version into existence.
NewVersion ==
  /\ Len(versions') = Len(versions) + 1
  /\ \A i \in DOMAIN versions : versions'[i] = versions[i]

MayQuit(c) == members' \in {members, members \ {c}}

Advance(c) ==
  /\ at[c] # 0
  /\ at' = [at EXCEPT ![c] = @ + 1]
  /\ \/ at[c] < Len(versions) /\ UNCHANGED versions
     \/ at[c] = Len(versions) /\ NewVersion
  /\ shown' = [shown EXCEPT ![c] = versions'[at'[c]]]
  /\ MayQuit(c)

Quit(c) ==
  /\ members' = members \ {c}
  /\ UNCHANGED <<versions, at, shown>>

\* Nothing is promised of what c shows from now on; it is no member any more.
LeaveHistory(c) ==
  /\ at[c] # 0
  /\ at' = [at EXCEPT ![c] = 0]
  /\ shown' = [shown EXCEPT ![c] = EmptyDocument]
  /\ members' = members \ {c}
  /\ UNCHANGED versions

Next == \E c \in Client : Advance(c) \/ Quit(c) \/ LeaveHistory(c)

Spec == Init /\ [][Next]_vars

=============================================================================

------------------------- MODULE ReplicationHistory -------------------------
(***************************************************************************)
(* Replication with history variables.  rendered and strayed record what   *)
(* each client took out of its queue and whether an update of its stacks   *)
(* has raised.  versions is the document after each action of the order,   *)
(* written down by the first client that renders the action.  With them,   *)
(* Replication implements ReplicatedDocument: the versions are the history *)
(* and a client is at the version that follows the last action it          *)
(* rendered, or has left the history together with the session.            *)
(***************************************************************************)
EXTENDS Replication

VARIABLES
  versions,   \* the document after each action of the order
  rendered,   \* the actions each client took out of incomingActions, in order
  strayed     \* has an update of the client's stacks raised?

historyVars == <<vars, versions, rendered, strayed>>

HInit ==
  /\ Init
  /\ versions = <<EmptyDocument>>
  /\ rendered = [c \in Client |-> <<>>]
  /\ strayed = [c \in Client |-> FALSE]

Takes(c) == rendered' = [rendered EXCEPT ![c] = Append(@, Head(incomingActions[c]))]

\* No client has rendered an action beyond the last version.
IsFirstToRender(c) == ~strayed[c] /\ Len(rendered[c]) + 1 = Len(versions)

HRenderNext(c) ==
  /\ RenderNext(c)
  /\ Takes(c)
  /\ versions' = IF IsFirstToRender(c)
                 THEN Append(versions, Render(Doc(c), Head(incomingActions[c])))
                 ELSE versions
  /\ UNCHANGED strayed

HStacksRaise(c) ==
  /\ StacksRaise(c)
  /\ Takes(c)
  /\ strayed' = [strayed EXCEPT ![c] = TRUE]
  /\ UNCHANGED versions

HNext ==
  \E c \in Client :
    \/ HRenderNext(c)
    \/ HStacksRaise(c)
    \/ /\ \/ MainThread(c)
          \/ ReceiveEvent(c)
          \/ DeferRender(c)
          \/ BeginRender(c)
          \/ FinishRender(c)
          \/ LeaveCompletes(c)
       /\ UNCHANGED <<versions, rendered, strayed>>

HSpec == HInit /\ [][HNext]_historyVars

----------------------------------------------------------------------------
\* A client that is in the session, or that no race over its stacks threw out of it.
Reliable(c) == membership[c] = "in" \/ ~strayed[c]

\* Clients that took the same number of actions out of their queues have the same
\* document: the copies can differ only by lag, whatever each client was doing when
\* the actions arrived.  What a client does not share with the others can make a
\* rendering raise before it has changed the document (updateUndoRedoStacks), but
\* then the client is no longer in the session, whatever it renders after that.
Convergence ==
  \A c, d \in Client :
    Reliable(c) /\ Reliable(d) /\ Len(rendered[c]) = Len(rendered[d]) => Doc(c) = Doc(d)

\* What a client has taken out of incomingActions for rendering, and after it what
\* waits there, are together exactly what was broadcast, up to the last event that
\* arrived: events that join the queue at any time, renderings that are put off,
\* interrupted by an exception or go on after it lose no action, repeat none and
\* take none out of order.
EachActionOnceInOrder ==
  \A c \in Client :
    /\ delivered[c] <= Len(log)
    /\ rendered[c] \o incomingActions[c] = SubSeq(order, 1, Upto(delivered[c]))

----------------------------------------------------------------------------
\* The refinement: a client shows the version after the actions it rendered.

Position == [c \in Client |-> Len(rendered[c]) + 1]

Abstract ==
  INSTANCE ReplicatedDocument WITH
    at <- [c \in Client |-> IF strayed[c] THEN 0 ELSE Position[c]],
    shown <- [c \in Client |-> IF strayed[c] THEN EmptyDocument ELSE Doc(c)],
    members <- {c \in Client : membership[c] = "in"}

\* Every step of every client is a step along the one history, a step out of the
\* session, or none.
OneHistory == Abstract!Spec

\* A client's copy of the document (globalTruthText and userCursors) is the
\* version of the history that its position names: rendering is a function of
\* the order of the actions, as long as the stacks of the client let it finish.
ShowsItsVersion ==
  \A c \in Client :
    ~strayed[c] => /\ Position[c] \in DOMAIN versions
                   /\ Doc(c) = versions[Position[c]]

HTypeOK ==
  /\ TypeOK
  /\ versions \in Seq(Document)
  /\ rendered \in [Client -> Seq(SentAction)]
  /\ strayed \in [Client -> BOOLEAN]

=============================================================================

----------------------------- MODULE Replication -----------------------------
(***************************************************************************)
(* How an edit gets from the client that made it into the document of      *)
(* every client: TextCollabrifyClient (sendActions, receivedEvent) and the *)
(* part of TextViewDelegate's renderIncomingEdits that the other clients   *)
(* can observe.  What only the local user sees of a step is elsewhere: the *)
(* text view and the edits not yet sent in TextViewDelegate and Typing,    *)
(* the undo and redo stacks in EditStacks and UndoRedo; of the stacks, all *)
(* that remains here is that the main thread can make an update raise.     *)
(*                                                                         *)
(* The Collabrify server is outside the repository.  It puts all broadcast *)
(* events in one order and delivers them to each client in that order.     *)
(* Because a client may lag arbitrarily far behind, appending an event to  *)
(* the order when it is broadcast loses no behaviour.                      *)
(*                                                                         *)
(* Each client has a main thread (input, the timer) and the thread of the  *)
(* Collabrify framework, on which events arrive and are rendered.          *)
(***************************************************************************)
EXTENDS Document, FiniteSets, SequencesExt

CONSTANTS
  Owner,          \* the participant who created the session
  Series,         \* the edit series that clients broadcast
  FaultyNetwork,  \* may a broadcast return -1 within an open session?
  MaxEvents       \* bound on the events of a session

ASSUME OwnerAssumption == Owner \in Client
ASSUME SeriesAssumption == Series \subseteq Seq(Action)
ASSUME FaultyNetworkAssumption == FaultyNetwork \in BOOLEAN
ASSUME MaxEventsAssumption == MaxEvents \in Nat

VARIABLES
  order,             \* server: every action broadcast so far, in order
  log,               \* server: the events; one event is a stretch of order
  membership,        \* framework: is the client in the session?
  delivered,         \* framework: number of events handed to the client
  incomingActions,   \* received actions not rendered yet
  rendering,         \* framework thread: what it is doing
  observing,         \* is the text view there to render what arrives?
  timerValid,        \* is the half-second timer of the delegate running?
  globalTruthText,   \* the text of the client's copy of the document
  userCursors        \* the cursors in the client's copy of the document

serverVars == <<order, log>>
documentVars == <<globalTruthText, userCursors>>
vars == <<order, log, membership, delivered, incomingActions, rendering,
          observing, timerValid, globalTruthText, userCursors>>

Event == [from : Nat, upto : Nat]

TypeOK ==
  /\ order \in Seq(SentAction)
  /\ log \in Seq(Event)
  /\ membership \in [Client -> {"in", "leaving", "out"}]
  /\ delivered \in [Client -> Nat]
  /\ incomingActions \in [Client -> Seq(SentAction)]
  /\ rendering \in [Client -> {"idle", "notified", "rendering"}]
  /\ observing \in [Client -> BOOLEAN]
  /\ timerValid \in [Client -> BOOLEAN]
  /\ globalTruthText \in [Client -> Text]
  /\ userCursors \in [Client -> CursorMap]

Init ==
  /\ order = <<>>
  /\ log = <<>>
  /\ membership = [c \in Client |-> "in"]
  /\ delivered = [c \in Client |-> 0]
  /\ incomingActions = [c \in Client |-> <<>>]
  /\ rendering = [c \in Client |-> "idle"]
  /\ observing = [c \in Client |-> FALSE]
  /\ timerValid = [c \in Client |-> FALSE]
  /\ globalTruthText = [c \in Client |-> EmptyDocument.text]
  /\ userCursors = [c \in Client |-> EmptyDocument.cursors]

----------------------------------------------------------------------------
\* The document as client c has it, and the session.

Doc(c) == [text |-> globalTruthText[c], cursors |-> userCursors[c]]

\* When the owner leaves, leaveAndDeleteSession ends the session for everyone.
SessionOpen == membership[Owner] # "out"

CanBroadcast(c) == membership[c] # "out" /\ SessionOpen

\* Number of actions in the first n events.
Upto(n) == IF n = 0 THEN 0 ELSE log[n].upto

\* Number of actions that client c has taken out of its queue, going by what is
\* left of what was delivered.
Rendered(c) == Upto(delivered[c]) - Len(incomingActions[c])

\* Every running timer will broadcast once more: keep room for that.
TimersRunning == {c \in Client : timerValid[c]}
HasRoom(n) == Len(log) + n <= MaxEvents

----------------------------------------------------------------------------
\* Main thread

\* broadcast:eventType: puts the series in the order ...
Broadcast(c, series) ==
  /\ CanBroadcast(c)
  /\ HasRoom(1)
  /\ order' = order \o OnTheWireAll(c, series)
  /\ log' = Append(log, [from |-> Len(order), upto |-> Len(order) + Len(series)])

\* ... or returns -1, and sendActions drops the series.
BroadcastFails(c) ==
  /\ FaultyNetwork \/ ~CanBroadcast(c)
  /\ UNCHANGED serverVars

SendActions(c, series) == Broadcast(c, series) \/ BroadcastFails(c)

\* joinedSession of the splash screen: the controller of the text view is made
\* and observes the notifications from now on.
ShowTextView(c) ==
  /\ membership[c] = "in"
  /\ ~observing[c]
  /\ observing' = [observing EXCEPT ![c] = TRUE]
  /\ UNCHANGED <<serverVars, membership, delivered, incomingActions, rendering,
                 timerValid, documentVars>>

\* Input that goes into the current edit: the timer is (re)started.
Edit(c) ==
  /\ observing[c]
  /\ ~timerValid[c]
  /\ timerValid' = [timerValid EXCEPT ![c] = TRUE]
  /\ UNCHANGED <<serverVars, membership, delivered, incomingActions, rendering,
                 observing, documentVars>>

\* The timer fires: mergeCurrentEdit sends the current edit, resolved to series.
TimerSends(c, series) ==
  /\ timerValid[c]
  /\ timerValid' = [timerValid EXCEPT ![c] = FALSE]
  /\ SendActions(c, series)
  /\ UNCHANGED <<membership, delivered, incomingActions, rendering, observing,
                 documentVars>>

TimerFires(c) == \E series \in Series : TimerSends(c, series)

\* The cursor moves while text edits wait: they are sent, and the timer is
\* started for the cursor movement.
FlushSends(c, series) ==
  /\ observing[c]
  /\ timerValid' = [timerValid EXCEPT ![c] = TRUE]
  /\ SendActions(c, series)
  /\ UNCHANGED <<membership, delivered, incomingActions, rendering, observing,
                 documentVars>>

FlushAndEdit(c) == \E series \in Series : FlushSends(c, series)

\* The undo or the redo button: a series of one action is sent at once.
ButtonSends(c, series) ==
  /\ observing[c]
  /\ SendActions(c, series)
  /\ UNCHANGED <<membership, delivered, incomingActions, rendering, observing,
                 timerValid, documentVars>>

UndoOrRedo(c) == \E series \in Series : ButtonSends(c, series)

\* The exit button, or the alert that the session has ended: the observers go
\* and the client leaves.  The timer of the delegate goes on running.
Exit(c) ==
  /\ observing[c]
  /\ observing' = [observing EXCEPT ![c] = FALSE]
  /\ membership' = [membership EXCEPT ![c] = IF @ = "in" THEN "leaving" ELSE @]
  /\ UNCHANGED <<serverVars, delivered, incomingActions, rendering, timerValid,
                 documentVars>>

----------------------------------------------------------------------------
\* The framework's thread

NextEvent(c) == log[delivered[c] + 1]

ActionsOf(event) == SubSeq(order, event.from + 1, event.upto)

EnqueueAtFront(queue, event) == ActionsOf(event) \o queue
Enqueue(queue, event) == queue \o ActionsOf(event)

\* Is there a delegate that observes the notification?
NotifiesOfOthers(c) ==
  /\ observing[c]
  /\ \A i \in DOMAIN ActionsOf(NextEvent(c)) : ActionsOf(NextEvent(c))[i].user # c
Notifies(c) == observing[c]

\* client:receivedEventWithOrderID:...: the actions of the next event join the
\* queue and the notification is posted, which enters renderIncomingEdits.
ReceiveEvent(c) ==
  /\ membership[c] # "out"
  /\ rendering[c] = "idle"
  /\ delivered[c] < Len(log)
  /\ delivered' = [delivered EXCEPT ![c] = @ + 1]
  /\ incomingActions' = [incomingActions EXCEPT ![c] = Enqueue(@, NextEvent(c))]
  /\ rendering' = [rendering EXCEPT ![c] = IF Notifies(c) THEN "notified" ELSE @]
  /\ UNCHANGED <<serverVars, membership, observing, timerValid, documentVars>>

DeferRenderAndForget(c) ==
  /\ rendering[c] = "notified"
  /\ timerValid[c]
  /\ rendering' = [rendering EXCEPT ![c] = "idle"]
  /\ incomingActions' = [incomingActions EXCEPT ![c] = <<>>]
  /\ UNCHANGED <<serverVars, membership, delivered, observing, timerValid,
                 documentVars>>

\* renderIncomingEdits returns at once while the timer is running.
DeferRender(c) ==
  /\ rendering[c] = "notified"
  /\ timerValid[c]
  /\ rendering' = [rendering EXCEPT ![c] = "idle"]
  /\ UNCHANGED <<serverVars, membership, delivered, incomingActions, observing,
                 timerValid, documentVars>>

BeginRender(c) ==
  /\ rendering[c] = "notified"
  /\ ~timerValid[c]
  /\ rendering' = [rendering EXCEPT ![c] = "rendering"]
  /\ UNCHANGED <<serverVars, membership, delivered, incomingActions, observing,
                 timerValid, documentVars>>

\* The next action is popped and rendered; an exception abandons the loop and
\* makes the client leave.  Here the stacks, which no other client can see, are
\* brought up to date without an exception.
RenderNext(c) ==
  /\ rendering[c] = "rendering"
  /\ incomingActions[c] # <<>>
  /\ incomingActions' = [incomingActions EXCEPT ![c] = Tail(@)]
  /\ LET action == Head(incomingActions[c])
         after  == Render(Doc(c), action)
         raised == Raises(Doc(c), action)
     IN /\ globalTruthText' = [globalTruthText EXCEPT ![c] = after.text]
        /\ userCursors' = [userCursors EXCEPT ![c] = after.cursors]
        /\ rendering' = [rendering EXCEPT ![c] = IF raised THEN "idle" ELSE @]
        /\ membership' = [membership EXCEPT
                            ![c] = IF raised /\ @ = "in" THEN "leaving" ELSE @]
  /\ UNCHANGED <<serverVars, delivered, observing, timerValid>>

\* The client has rendered a text edit of its own: there may be entries on its stacks.
MayHaveEntries(c) ==
  \E i \in 1 .. Rendered(c) : order[i].user = c /\ ~IsCursor(order[i])

StacksRaiseAndStay(c) ==
  /\ rendering[c] = "rendering"
  /\ incomingActions[c] # <<>>
  /\ ~IsCursor(Head(incomingActions[c]))
  /\ Outcome(Doc(c), Head(incomingActions[c])) = "accept"
  /\ MayHaveEntries(c)
  /\ incomingActions' = [incomingActions EXCEPT ![c] = Tail(@)]
  /\ rendering' = [rendering EXCEPT ![c] = "idle"]
  /\ UNCHANGED <<serverVars, membership, delivered, observing, timerValid,
                 documentVars>>

\* The next action is popped and verified, and then updateUndoRedoStacks raises,
\* at this client alone: its main thread has undone, redone or cleared during the
\* update (StackRace).  The cursors and the text are left as they were, and the
\* exception makes the client leave.
StacksRaise(c) ==
  /\ rendering[c] = "rendering"
  /\ incomingActions[c] # <<>>
  /\ ~IsCursor(Head(incomingActions[c]))
  /\ Outcome(Doc(c), Head(incomingActions[c])) = "accept"
  /\ MayHaveEntries(c)
  /\ incomingActions' = [incomingActions EXCEPT ![c] = Tail(@)]
  /\ rendering' = [rendering EXCEPT ![c] = "idle"]
  /\ membership' = [membership EXCEPT ![c] = IF @ = "in" THEN "leaving" ELSE @]
  /\ UNCHANGED <<serverVars, delivered, observing, timerValid, documentVars>>

FinishRender(c) ==
  /\ rendering[c] = "rendering"
  /\ incomingActions[c] = <<>>
  /\ rendering' = [rendering EXCEPT ![c] = "idle"]
  /\ UNCHANGED <<serverVars, membership, delivered, incomingActions, observing,
                 timerValid, documentVars>>

\* leaveAndDeleteSession completes.
LeaveCompletes(c) ==
  /\ membership[c] = "leaving"
  /\ membership' = [membership EXCEPT ![c] = "out"]
  /\ UNCHANGED <<serverVars, delivered, incomingActions, rendering, observing,
                 timerValid, documentVars>>

----------------------------------------------------------------------------

MainThread(c) ==
  \/ ShowTextView(c)
  \/ Exit(c)
  \/ HasRoom(Cardinality(TimersRunning) + 1) /\ Edit(c)
  \/ TimerFires(c)
  \/ HasRoom(Cardinality(TimersRunning \cup {c}) + 1) /\ FlushAndEdit(c)
  \/ HasRoom(Cardinality(TimersRunning) + 1) /\ UndoOrRedo(c)

FrameworkThread(c) ==
  \/ ReceiveEvent(c)
  \/ DeferRender(c)
  \/ BeginRender(c)
  \/ RenderNext(c)
  \/ StacksRaise(c)
  \/ FinishRender(c)
  \/ LeaveCompletes(c)

Next == \E c \in Client : MainThread(c) \/ FrameworkThread(c)

Spec == Init /\ [][Next]_vars

----------------------------------------------------------------------------
\* Safety

\* u's cursor in a text of which it is a position.
HasCursor(c, u) ==
  /\ userCursors[c][u] # NoCursor
  /\ userCursors[c][u] \in 0 .. Len(globalTruthText[c])

\* The text before and after the cursor of u at client c.
Before(c, u) == SubSeq(globalTruthText[c], 1, userCursors[c][u])
After(c, u) ==
  SubSeq(globalTruthText[c], userCursors[c][u] + 1, Len(globalTruthText[c]))

\* Rendering an edit leaves every cursor between the same two characters that
\* it was between, as far as they still exist: of the text before a cursor and
\* the text after it, one is untouched, or both are what a removal left of them
\* (updateCursors, which is called before the text is changed).
CursorsKeepTheirPlace ==
  [][\A c, u \in Client :
       /\ globalTruthText'[c] # globalTruthText[c]
       /\ HasCursor(c, u)
       => /\ HasCursor(c, u)'
          /\ \/ Before(c, u)' = Before(c, u)
             \/ After(c, u)' = After(c, u)
             \/ /\ IsPrefix(Before(c, u)', Before(c, u))
                /\ IsSuffix(After(c, u)', After(c, u))]_vars

=============================================================================

------------------------------ MODULE UndoRedo ------------------------------
(***************************************************************************)
(* One client's undo and redo in a session with others.  Between pressing  *)
(* undo and rendering the undo action, which takes a round trip to the     *)
(* server, the user may press again or type, and the edits of others may   *)
(* come first.                                                             *)
(*                                                                         *)
(* The client is Me, with its text view and its delegate.  The other       *)
(* participants are seen through the events they broadcast: each types     *)
(* against a document that may be ahead of the one Me has.  An event is    *)
(* rendered in one step, the block that shows it runs in another;          *)
(* Replication and WeWrite have the steps in between.                      *)
(***************************************************************************)
EXTENDS EditStacks, TextViewDelegate

CONSTANTS
  Me,           \* the client
  Typed,        \* the texts that a user may type or paste at once
  MaxRemoved,   \* bound on the characters another removes between two broadcasts
  MaxEdits,     \* bound on the edits that wait in the delegate
  MaxEvents     \* bound on the events of a session

ASSUME MeAssumption == Me \in Client
ASSUME TypedAssumption == Typed \subseteq Text
ASSUME BoundsAssumption ==
  MaxRemoved \in Nat /\ MaxEdits \in Nat /\ MaxEvents \in Nat

VARIABLES
  replica,     \* Me's document and stacks, as in EditStacks
  ui,          \* Me's text view and delegate; the stacks are those of replica
  mainQueue,   \* the number of blocks dispatched and not run yet
  arriving,    \* the events that Me has yet to render, in order
  sent,        \* the number of events broadcast
  ghost        \* what the properties remember of the past, see Remember

vars == <<replica, ui, mainQueue, arriving, sent, ghost>>

Init ==
  /\ replica = FreshReplica
  /\ ui = FreshTextView
  /\ mainQueue = 0
  /\ arriving = <<>>
  /\ sent = 0
  /\ ghost = [before |-> <<>>, tied |-> FALSE, redoable |-> 0]

----------------------------------------------------------------------------
\* The series that another user u who sees document d can produce: the cursor is
\* moved, or not, then text before it is removed, or typed, or replaced.

Removals(d, location) ==
  {TextAction(NoUser, Substring(d.text, location - n, n), "REMOVE") :
     n \in 1 .. Min({MaxRemoved, location})}

Insertions == {TextAction(NoUser, text, "INSERT") : text \in Typed}

TextEdits(d, location) ==
  {<<edit>> : edit \in Insertions \cup Removals(d, location)}
    \cup {<<removal, insertion>> : removal \in Removals(d, location), insertion \in Insertions}

ShownCursor(d, u) == IF d.cursors[u] = NoCursor THEN 0 ELSE d.cursors[u]

MovesTo(d, u, location) ==
  IF location = ShownCursor(d, u) THEN <<>> ELSE <<CursorAction(location, NoUser)>>

EditsOf(u, d) ==
  UNION {{MovesTo(d, u, location) \o edits : edits \in TextEdits(d, location)} :
         location \in 0 .. Len(d.text)}

\* The document after the first n of the events that Me has yet to render.
DocumentAhead(n) ==
  FoldLeft(LAMBDA r, event : FoldLeft(LAMBDA s, a : RenderAt(Me, s, a), r, event),
           replica, SubSeq(arriving, 1, n)).doc

Broadcast(u, series) ==
  /\ sent < MaxEvents
  /\ sent' = sent + 1
  /\ arriving' = Append(arriving, OnTheWireAll(u, series))

\* sendActions: a broadcast that returns -1 is forgotten.
SendActions(series) ==
  \/ Broadcast(Me, series)
  \/ UNCHANGED <<sent, arriving>>

\* The ghost when Me does something: there is no last action to take back, and
\* redoable counts the undo actions that may come to the redo stack.
Acts(redoable) == ghost' = [ghost EXCEPT !.before = <<>>, !.redoable = redoable]

UndosUnderWay ==
  Cardinality({i \in DOMAIN arriving :
                 \E j \in DOMAIN arriving[i] :
                   arriving[i][j].user = Me /\ arriving[i][j].isUndo})

----------------------------------------------------------------------------
\* Main thread of Me

Delegate == [ui EXCEPT !.redoStack = replica.redoStack]

\* The callbacks of one turn leave the delegate as u.
Turn(u) ==
  /\ ui' = [u EXCEPT !.redoStack = <<>>, !.sent = <<>>]
  /\ replica' = [replica EXCEPT !.redoStack = u.redoStack]
  /\ UNCHANGED mainQueue
  /\ IF u.sent = <<>> THEN UNCHANGED <<sent, arriving>> ELSE SendActions(u.sent[1])

HasRoom(u) == Len(u.currentEdit) + Len(u.syncBuffer) <= MaxEdits

\* Text is typed or removed: recorded at once, or held back in syncBuffer.
Input(u) ==
  /\ HasRoom(u)
  /\ Turn(u)
  /\ IF u.currentEdit = ui.currentEdit THEN UNCHANGED ghost ELSE Acts(UndosUnderWay)

Type == \E text \in Typed : \E u \in {TypeText(Delegate, text)} : Input(u)

PressBackspace == \E u \in {Backspace(Delegate)} : Input(u)

Tap ==
  \E location \in 0 .. Len(ui.text) :
    \E u \in {Select(Delegate, location, 0)} :
      /\ HasRoom(u)
      /\ Turn(u)
      /\ UNCHANGED ghost

TimerFires ==
  /\ ui.timer
  /\ \E u \in {TimerFired(Delegate)} : Turn(u)
  /\ UNCHANGED ghost

\* A block of the main queue shows the document, and applies what was held back.
RunBlock ==
  /\ mainQueue > 0
  /\ mainQueue' = mainQueue - 1
  /\ ui' = ShowDocument(ui, replica.doc, Me)
  /\ UNCHANGED <<replica, arriving, sent, ghost>>

\* The undo button.  The entry is gone from the stack at once.
Undo ==
  /\ replica.undoStack # <<>>
  /\ SendActions(<<UndoAction(Last(replica.undoStack))>>)
  /\ replica' = [replica EXCEPT !.undoStack = Front(@)]
  /\ Acts(ghost.redoable + 1)
  /\ UNCHANGED <<ui, mainQueue>>

Redo ==
  /\ replica.redoStack # <<>>
  /\ SendActions(<<RedoAction(Last(replica.redoStack))>>)
  /\ replica' = [replica EXCEPT !.redoStack = Front(@)]
  /\ Acts(ghost.redoable - 1)
  /\ UNCHANGED <<ui, mainQueue>>

----------------------------------------------------------------------------
\* The others, and the network.

OthersEdit ==
  /\ \E u \in Client \ {Me}, n \in 0 .. Len(arriving) :
       \E series \in EditsOf(u, DocumentAhead(n)) : Broadcast(u, series)
  /\ UNCHANGED <<replica, ui, mainQueue, ghost>>

Ties(r, a) ==
  /\ Accepts(r, a)
  /\ \E e \in Range(r.undoStack) \cup Range(r.redoStack) :
       e.type = "INSERT" /\ TiesWith(Placed(r.doc.cursors, a), e)

\* Rendering with a memory.  before: the text before the last action and whether
\* the action was an undo, if it was Me's and was accepted; tied: has an insertion
\* ever tied with an entry?
Remember(h, a) ==
  [replica |-> RenderAt(Me, h.replica, a),
   before  |-> IF Accepts(h.replica, a) /\ a.user = Me /\ ~Raises(h.replica.doc, a)
               THEN <<[text |-> h.replica.doc.text, isUndo |-> a.isUndo]>> ELSE <<>>,
   tied    |-> h.tied \/ Ties(h.replica, a)]

\* renderIncomingEdits, which does nothing while the timer is running.  An
\* exception ends the session and dispatches no block.
RenderEvent ==
  /\ arriving # <<>>
  /\ ~ui.timer
  /\ \E h \in {FoldLeft(Remember,
                       [replica |-> replica, before |-> <<>>, tied |-> ghost.tied],
                       Head(arriving))} :
       /\ replica' = h.replica
       /\ ghost' = [ghost EXCEPT !.before = h.before, !.tied = h.tied]
       /\ ui' = [ui EXCEPT !.isSyncing = ~h.replica.ended]
       /\ mainQueue' = IF h.replica.ended THEN mainQueue ELSE mainQueue + 1
  /\ arriving' = Tail(arriving)
  /\ UNCHANGED sent

Next ==
  /\ ~replica.ended
  /\ ~ui.crashed
  /\ \/ Type
     \/ PressBackspace
     \/ Tap
     \/ TimerFires
     \/ RunBlock
     \/ Undo
     \/ Redo
     \/ OthersEdit
     \/ RenderEvent

Spec == Init /\ [][Next]_vars

----------------------------------------------------------------------------
\* What the user last did, undid or redid, if nothing was rendered since, is on
\* top of a stack, and taking it back restores the text there was before it
\* (undo, redo: the location and the length that an inverted action carries
\* survive the wire and the placing in renderIncomingEdits).
UndoRestores ==
  ghost.before # <<>> =>
    LET last == ghost.before[1]
        stack == IF last.isUndo THEN replica.redoStack ELSE replica.undoStack
        back == IF last.isUndo THEN RedoAction(Last(stack)) ELSE UndoAction(Last(stack))
    IN /\ stack # <<>>
       /\ ~Raises(replica.doc, OnTheWire(Me, back))
       /\ Render(replica.doc, OnTheWire(Me, back)).text = last.text

NamesItsText(e) == e.type = "INSERT" => Names(e, replica.doc.text)

Entries == Range(replica.undoStack) \cup Range(replica.redoStack)

\* Whatever others insert and remove, an entry that inserted text is moved with
\* its text, or thrown out when the text is broken up, as long as no insertion
\* lands exactly where the text begins (updateUndoRedoStacks).
EntriesFollowTheirText ==
  ~replica.ended /\ ~ghost.tied => \A e \in Entries : NamesItsText(e)

\* What can be redone was undone since the last edit that was recorded as it was
\* typed, or its undo was under way then: such an edit clears the redo stack, and
\* nothing but an undo of Me's own puts an entry back on it, however late it comes
\* back (renderIncomingEdits pushes what the user has typed over meanwhile).
\* "Clear the redo stack if we're editing." (TextViewDelegate.m:106) says more; but
\* input that is held back returns before that line, and RunBlock records it without.
RedoOnlyUndone == Len(replica.redoStack) <= ghost.redoable

----------------------------------------------------------------------------
\* "Update the undo and redo stacks to reflect the current update from the
\* server. This includes altering the location of edits in the undo/redo stacks
\* as well as throwing them out if they become invalid." (TextViewDelegate.m:
\* 520-521), and so no entry points elsewhere than at its text ...
EntriesAreValid == ~replica.ended => \A e \in Entries : NamesItsText(e)

\* ... and no entry is kept of which the undo would raise, which ends the session.
UndoNeverRaises ==
  ~replica.ended /\ arriving = <<>> /\ replica.undoStack # <<>> =>
    ~Raises(replica.doc, OnTheWire(Me, UndoAction(Last(replica.undoStack))))

=============================================================================

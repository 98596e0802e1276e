-------------------------- MODULE TextViewDelegate --------------------------
(***************************************************************************)
(* The callbacks of the text view: the part of TextViewDelegate.m that     *)
(* records what the local user does.  A record u holds the text view and   *)
(* the delegate's fields; each operator is a callback, and gives the       *)
(* record that it leaves.                                                  *)
(*                                                                         *)
(*   text, selected, selectedLength   the text view and its selection      *)
(*   currentEdit      the edits that wait to be broadcast                  *)
(*   timer            is the half-second timer running?                    *)
(*   isSyncing        edits are held back in syncBuffer                    *)
(*   fromInput        cursorChangeFromInput: selection changes to ignore   *)
(*   lastSelected     lastSelectedLocation                                 *)
(*   undoStack, redoStack   this user's edits that can be undone, redone   *)
(*   sent             the series broadcast in this turn of the main thread *)
(*   crashed          an exception went uncaught                           *)
(***************************************************************************)
EXTENDS EditSeries

FreshTextView ==
  [text |-> <<>>, selected |-> 0, selectedLength |-> 0, currentEdit |-> <<>>,
   timer |-> FALSE, isSyncing |-> FALSE, syncBuffer |-> <<>>,
   fromInput |-> 0, lastSelected |-> 0, undoStack |-> <<>>, redoStack |-> <<>>,
   sent |-> <<>>, crashed |-> FALSE]

----------------------------------------------------------------------------
\* mergeCurrentEdit.  isSyncing stays set until the series has come back.
MergeCurrentEdit(u) ==
  IF u.currentEdit = <<>> THEN u
  ELSE [u EXCEPT !.isSyncing = TRUE,
                 !.currentEdit = <<>>,
                 !.crashed = Resolved(u.currentEdit).raised,
                 !.sent = IF Resolved(u.currentEdit).raised
                          THEN @ ELSE Append(@, FinalEdits(u.currentEdit))]

\* The edits that shouldChangeTextInRange records for replacing the range.
RecordedEdits(u, location, length, text) ==
  LET deleted == RangeAction(location, length, Substring(u.text, location, length))
      added   == RangeAction(location, 0, text)
  IN CASE length > 0 /\ text = <<>> -> <<deleted>>
       [] length > 0 /\ text # <<>> -> <<deleted, added>>
       [] OTHER -> <<added>>

\* How many selection changes iOS 7 will report of it.
ReportedChanges(length, text) == IF length > 0 /\ text # <<>> THEN 2 ELSE 1

AllowsChange(u, location, length, text) == ~u.isSyncing

ShouldChangeTextSilently(u, location, length, text) ==
  CASE u.isSyncing ->
         [u EXCEPT !.syncBuffer = Append(@, RangeAction(location, length, text))]
    [] ~u.isSyncing /\ location = 0 /\ length = 0 /\ text = <<>> -> u
    [] OTHER ->
         [u EXCEPT !.currentEdit = @ \o RecordedEdits(u, location, length, text),
                   !.fromInput = @ + ReportedChanges(length, text),
                   !.redoStack = <<>>]

ShouldChangeTextKeepingRedo(u, location, length, text) ==
  CASE u.isSyncing ->
         [u EXCEPT !.syncBuffer = Append(@, RangeAction(location, length, text))]
    [] ~u.isSyncing /\ location = 0 /\ length = 0 /\ text = <<>> -> u
    [] OTHER ->
         [u EXCEPT !.currentEdit = @ \o RecordedEdits(u, location, length, text),
                   !.timer = TRUE,
                   !.fromInput = @ + ReportedChanges(length, text)]

\* textView:shouldChangeTextInRange:replacementText:
ShouldChangeText(u, location, length, text) ==
  CASE u.isSyncing ->
         [u EXCEPT !.syncBuffer = Append(@, RangeAction(location, length, text))]
    [] ~u.isSyncing /\ location = 0 /\ length = 0 /\ text = <<>> -> u
    [] OTHER ->
         [u EXCEPT !.currentEdit = @ \o RecordedEdits(u, location, length, text),
                   !.timer = TRUE,
                   !.fromInput = @ + ReportedChanges(length, text),
                   !.redoStack = <<>>]

\* textViewDidChangeSelection:
DidChangeSelection(u) ==
  IF u.fromInput > 0 \/ u.selected = u.lastSelected
  THEN [u EXCEPT !.fromInput = IF @ > 0 THEN @ - 1 ELSE @,
                 !.lastSelected = u.selected]
  ELSE LET flushes == u.currentEdit # <<>> /\ ~IsCursor(Head(u.currentEdit))
           v == IF flushes THEN MergeCurrentEdit(u) ELSE u
       IN IF v.crashed THEN v
          ELSE [v EXCEPT !.timer = TRUE,
                         !.currentEdit = Append(@, CursorAction(u.selected, NoUser)),
                         !.lastSelected = u.selected]

----------------------------------------------------------------------------
(***************************************************************************)
(* What the user does, as the text view reports it.  An input asks the     *)
(* delegate, then changes the text and reports the change of the selection *)
(* as often as the delegate expects of iOS 7.                              *)
(***************************************************************************)

ReplaceRange(u, location, length, text) ==
  LET asked == ShouldChangeText(u, location, length, text)
      changed == [asked EXCEPT !.text = Splice(@, location, length, text),
                               !.selected = location + Len(text),
                               !.selectedLength = 0]
      reported == DidChangeSelection(changed)
  IN CASE ~AllowsChange(u, location, length, text) -> asked
       [] length = 0 /\ text = <<>> -> asked
       [] OTHER -> IF ReportedChanges(length, text) = 2
                   THEN DidChangeSelection(reported) ELSE reported

\* A key is pressed: the selection is replaced.
TypeText(u, text) == ReplaceRange(u, u.selected, u.selectedLength, text)

\* Backspace: the selection goes, or else the character before the cursor.
Backspace(u) ==
  IF u.selectedLength > 0 \/ u.selected = 0
  THEN ReplaceRange(u, u.selected, u.selectedLength, <<>>)
  ELSE ReplaceRange(u, u.selected - 1, 1, <<>>)

\* Autocorrection replaces the n characters before the cursor.
Autocorrect(u, n, text) == ReplaceRange(u, u.selected - n, n, text)

\* The user taps into the text, or selects a stretch of it.
Select(u, location, length) ==
  DidChangeSelection([u EXCEPT !.selected = location, !.selectedLength = length])

TimerFiredRepeatedly(u) == MergeCurrentEdit(u)

\* The timer fires.
TimerFired(u) == MergeCurrentEdit([u EXCEPT !.timer = FALSE])

----------------------------------------------------------------------------
(***************************************************************************)
(* The block that a rendering leaves for the main queue: the text view     *)
(* shows the document again, and what the user typed meanwhile is applied. *)
(***************************************************************************)

\* One edit of syncBuffer: it is put at the cursor, as far as the edits before
\* it have moved it.  Whether it deletes or inserts is told by its length alone.
ApplyBufferedEditUnrecorded(s, edit) ==
  LET at == s.cursor - edit.length
  IN IF s.raised \/ ~InRange(s.text, at, edit.length)
     THEN [s EXCEPT !.raised = TRUE]
     ELSE [s EXCEPT !.text = Splice(@, at, edit.length,
                                    IF edit.length > 0 THEN <<>> ELSE edit.text),
                    !.cursor = IF edit.length > 0 THEN at ELSE at + Len(edit.text)]
ApplyBufferedEdit(s, edit) ==
  LET deletes == edit.length > 0
      at == s.cursor - edit.length
      applied == IF deletes
                 THEN [edit EXCEPT !.location = at,
                                   !.text = Substring(s.text, at, edit.length)]
                 ELSE [edit EXCEPT !.location = at]
  IN IF s.raised \/ ~InRange(s.text, at, edit.length)
     THEN [s EXCEPT !.raised = TRUE]
     ELSE [s EXCEPT !.text = Splice(@, at, edit.length, IF deletes THEN <<>> ELSE edit.text),
                    !.cursor = IF deletes THEN at ELSE at + Len(edit.text),
                    !.edits = Append(@, applied)]

BufferApplied(u) ==
  FoldLeft(ApplyBufferedEdit,
           [text |-> u.text, cursor |-> u.selected, edits |-> <<>>, raised |-> FALSE],
           u.syncBuffer)

\* applyBufferedEdits.  The edits join the current edit; no timer is started.
ApplyBufferedEditsIfAny(u) ==
  LET s == BufferApplied(u)
  IN CASE u.syncBuffer = <<>> -> u
       [] s.raised -> [u EXCEPT !.crashed = TRUE]
       [] OTHER -> [u EXCEPT !.text = s.text, !.selected = s.cursor,
                             !.currentEdit = @ \o s.edits, !.syncBuffer = <<>>,
                             !.isSyncing = FALSE]
ApplyBufferedEdits(u) ==
  LET s == BufferApplied(u)
  IN IF s.raised THEN [u EXCEPT !.crashed = TRUE]
     ELSE [u EXCEPT !.text = s.text, !.selected = s.cursor, !.selectedLength = 0,
                    !.currentEdit = @ \o s.edits, !.syncBuffer = <<>>,
                    !.isSyncing = FALSE]

\* A text view keeps its selection within its text, and reports to its delegate
\* what the user selects, not what the program does.
ShowInTextView(u, text, cursor) ==
  [u EXCEPT !.text = text, !.selected = Min({cursor, Len(text)}), !.selectedLength = 0]

\* The block that renderIncomingEdits dispatches to the main queue.
ShowDocument(u, d, user) ==
  ApplyBufferedEdits(
    ShowInTextView(u, d.text, IF d.cursors[user] = NoCursor THEN 0 ELSE d.cursors[user]))

=============================================================================

------------------------------- MODULE Typing -------------------------------
(***************************************************************************)
(* One user at a text view, from one broadcast to the next.  Every input   *)
(* the text view offers may come at any time; the timer may fire at any    *)
(* time; each series is rendered by all clients before the next input (the *)
(* delays that this leaves out are the subject of Replication).            *)
(*                                                                         *)
(* The question is whether a broadcast series says what the user did.      *)
(***************************************************************************)
EXTENDS TextViewDelegate

CONSTANTS
  User1,       \* the user
  MaxText,     \* bound on the length of the text
  MaxEdits     \* bound on the edits between two broadcasts

ASSUME User1Assumption == User1 \in Client
ASSUME BoundsAssumption == MaxText \in Nat /\ MaxEdits \in Nat

VARIABLES
  ui,     \* the text view and the delegate, as in TextViewDelegate
  base    \* the text view when the current series of edits began

typingVars == <<ui, base>>

View(u) == [text |-> u.text, cursor |-> u.selected]

Init ==
  /\ ui = FreshTextView
  /\ base = View(FreshTextView)

\* The delegate after a turn of the main thread: a series it has sent comes
\* back, and with it isSyncing is reset.
Turn(u) ==
  /\ Len(u.text) <= MaxText
  /\ Len(u.currentEdit) <= MaxEdits
  /\ ui' = [u EXCEPT !.sent = <<>>,
                     !.isSyncing = IF u.sent # <<>> THEN FALSE ELSE @]
  /\ base' = IF u.sent # <<>> \/ ui.currentEdit = <<>> THEN View(ui) ELSE base

TypeKey == \E ch \in Char : Turn(TypeText(ui, <<ch>>))

PressBackspace == Turn(Backspace(ui))

AutocorrectWord ==
  \E n \in 1 .. 2, text \in {<<ch>> : ch \in Char} :
    /\ ui.selectedLength = 0
    /\ n <= ui.selected
    /\ Turn(Autocorrect(ui, n, text))

Tap ==
  \E location \in 0 .. Len(ui.text) : Turn(Select(ui, location, 0))

SelectText ==
  \E location \in 0 .. Len(ui.text) :
    \E length \in 1 .. Len(ui.text) - location :
      Turn(Select(ui, location, length))

TimerExpires == ui.timer /\ Turn(TimerFired(ui))

Next ==
  /\ ~ui.crashed
  /\ \/ TypeKey
     \/ PressBackspace
     \/ AutocorrectWord
     \/ Tap
     \/ SelectText
     \/ TimerExpires

Spec == Init /\ [][Next]_typingVars

----------------------------------------------------------------------------
\* What every client makes of the current edit, if the document and the user's
\* cursor in it were those that the text view showed when the edit began.

BaseDocument ==
  [text |-> base.text, cursors |-> [EmptyDocument.cursors EXCEPT ![User1] = base.cursor]]

Replayed(edits) ==
  FoldLeft(Render, BaseDocument, OnTheWireAll(User1, FinalEdits(edits)))

RepresentsEdits(edits) ==
  /\ ~Resolved(edits).raised
  /\ Replayed(edits).text = ui.text
  /\ Replayed(edits).cursors[User1] = ui.selected

\* Where the cursor is after the first n edits.
CursorAfter(n) ==
  IF n = 0 THEN base.cursor
  ELSE LET edit == ui.currentEdit[n]
       IN IF edit.type = "INSERT" THEN edit.location + Len(edit.text)
                                  ELSE edit.location

\* Every removal ends at the cursor, as that of a backspace does.
RemovesBeforeCursor ==
  \A i \in DOMAIN ui.currentEdit :
    ui.currentEdit[i].type = "REMOVE" =>
      ui.currentEdit[i].location + ui.currentEdit[i].length = CursorAfter(i - 1)

\* A series of typing, backspacing and autocorrecting that at most begins with
\* moving the cursor is resolved to actions which, rendered, give the text and
\* the cursor that the user sees (mergeSingleEdits and resolveMergedEdits).
SeriesRepresentsTyping ==
  ui.currentEdit # <<>> /\ ~Intertwined(ui.currentEdit) /\ RemovesBeforeCursor
    => RepresentsEdits(ui.currentEdit)

\* No series has more than a cursor movement, a removal and an insertion, in
\* this order: the fewest actions that can describe a change at one place.
SeriesIsMinimal ==
  LET types == [i \in DOMAIN FinalEdits(ui.currentEdit) |-> FinalEdits(ui.currentEdit)[i].type]
  IN ui.currentEdit # <<>> =>
       types \in { <<>>, <<"CURSOR">>, <<"REMOVE">>, <<"INSERT">>,
                   <<"REMOVE", "INSERT">>, <<"CURSOR", "REMOVE">>,
                   <<"CURSOR", "INSERT">>, <<"CURSOR", "REMOVE", "INSERT">> }

\* A running timer always has something to send (mergeCurrentEdit is not called
\* in vain), and what was recorded always has a timer that will send it.
TimerRunsIffEdits == ~ui.crashed => (ui.timer <=> ui.currentEdit # <<>>)

----------------------------------------------------------------------------
\* Statements of the repository that the code does not live up to.

\* "the minimum number of actions that correctly represent the edits made"
\* (TextViewDelegate.m:246-247), for a user who never moves the cursor between
\* two edits of a series.
SeriesRepresentsEdits ==
  ui.currentEdit # <<>> /\ ~Intertwined(ui.currentEdit)
    => RepresentsEdits(ui.currentEdit)

\* The same comment: resolving the edits of a user who typed, backspaced and
\* selected, but did not move the cursor in between, raises no exception.
ResolvingNeverRaises ==
  ui.currentEdit # <<>> /\ ~Intertwined(ui.currentEdit)
    => ~Resolved(ui.currentEdit).raised

\* "ERROR, intertwined cursor moves..." (TextViewDelegate.m:278-281): a cursor
\* movement is expected only at the beginning of a series.
NoIntertwinedCursor == ~Intertwined(ui.currentEdit)

=============================================================================

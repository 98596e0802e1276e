----------------------------- MODULE EditStacks -----------------------------
(***************************************************************************)
(* The undo and the redo stack of a user: undo, redo, updateUndoRedoStacks *)
(* of TextViewDelegate.m, and what renderIncomingEdits does to them.       *)
(*                                                                         *)
(* An entry is a text action as it was placed when it was rendered, moved  *)
(* along with the text since.  The top of a stack is its last element.     *)
(***************************************************************************)
EXTENDS Document, SequencesExt

\* The entry's text is no longer in one piece after p: split by an insertion,
\* or touched by a removal.  An entry that removed text is always kept.
BrokenUp(e, p) ==
  /\ e.type = "INSERT"
  /\ \/ /\ p.type = "INSERT"
        /\ LeftIndex(e) < LeftIndex(p) /\ LeftIndex(p) < RightIndex(e)
     \/ /\ p.type = "REMOVE"
        /\ LeftIndex(p) < RightIndex(e) /\ LeftIndex(e) < RightIndex(p)

Growth(p) == IF p.type = "INSERT" THEN Len(p.text) ELSE -p.length

Shifted(e, p) ==
  IF LeftIndex(p) < LeftIndex(e)
  THEN [e EXCEPT !.location = @ + Growth(p)] ELSE e

UpdateEditStackKeepingAll(stack, p) ==
  [i \in DOMAIN stack |-> Shifted(stack[i], p)]

\* One iteration of updateEditStack:forTextAction:, which has taken e off the front.
PutBack(p, stack, e) ==
  IF BrokenUp(e, p) THEN stack ELSE Append(stack, Shifted(e, p))

\* updateEditStack:forTextAction:
UpdateEditStack(stack, p) ==
  FoldLeft(LAMBDA putBack, e : PutBack(p, putBack, e), <<>>, stack)

\* The text of an entry that inserted it stands where the entry says.
Names(e, text) ==
  /\ InRange(text, e.location, Len(e.text))
  /\ Substring(text, e.location, Len(e.text)) = e.text

\* An insertion that lands exactly where the text of the entry begins.
TiesWith(p, e) == p.type = "INSERT" /\ LeftIndex(p) = LeftIndex(e)

InvertedInPlace(e) ==
  IF e.type = "INSERT"
  THEN [TextAction(e.user, e.text, "REMOVE")
          EXCEPT !.location = e.location, !.length = Len(e.text)]
  ELSE [TextAction(e.user, e.text, "INSERT")
          EXCEPT !.location = e.location - e.length]

\* The action that takes back what the entry did.
Inverted(e) ==
  IF e.type = "INSERT"
  THEN [TextAction(e.user, e.text, "REMOVE")
          EXCEPT !.location = e.location + Len(e.text), !.length = Len(e.text)]
  ELSE [TextAction(e.user, e.text, "INSERT")
          EXCEPT !.location = e.location - e.length]

UndoAction(e) == [Inverted(e) EXCEPT !.isUndo = TRUE]
RedoAction(e) == [Inverted(e) EXCEPT !.isRedo = TRUE]

----------------------------------------------------------------------------
\* A replica is what one client keeps of the session: the document and its own
\* stacks.  ended: an exception has made the client end the session.

FreshReplica ==
  [doc |-> EmptyDocument, undoStack |-> <<>>, redoStack |-> <<>>, ended |-> FALSE]

Accepts(r, a) == ~r.ended /\ ~IsCursor(a) /\ Outcome(r.doc, a) = "accept"

\* One action in the loop of renderIncomingEdits at client c.  The stacks are
\* brought up to date before an own action joins them: what the user did and
\* redid can be undone, what was undone can be redone.
RenderAt(c, r, a) ==
  LET p == Placed(r.doc.cursors, a)
      PushIf(own, stack) == IF own THEN Append(stack, p) ELSE stack
  IN CASE r.ended -> r
       [] Accepts(r, a) ->
            [doc |-> Render(r.doc, a),
             undoStack |-> PushIf(a.user = c /\ ~a.isUndo, UpdateEditStack(r.undoStack, p)),
             redoStack |-> PushIf(a.user = c /\ a.isUndo, UpdateEditStack(r.redoStack, p)),
             ended |-> Raises(r.doc, a)]
       [] OTHER -> [r EXCEPT !.doc = Render(@, a), !.ended = Raises(r.doc, a)]

=============================================================================

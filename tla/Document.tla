------------------------------ MODULE Document ------------------------------
(***************************************************************************)
(* The shared document and what one received edit does to it: the body of  *)
(* the loop of renderIncomingEdits in TextViewDelegate.m.                  *)
(*                                                                         *)
(* A document is the text every client should agree on (globalTruthText)   *)
(* and the position of every participant's cursor in it (userCursors, a    *)
(* dictionary: a participant who has sent nothing has no entry).           *)
(*                                                                         *)
(* A REMOVE is placed by its right end: it deletes the length characters   *)
(* before its location, as a backspace does at the cursor.                 *)
(***************************************************************************)
EXTENDS Actions

CONSTANT NoCursor   \* in place of the cursor of a participant without an entry

ASSUME NoCursorAssumption == NoCursor \notin Int

CursorMap == [Client -> Int \cup {NoCursor}]

Document == [text : Text, cursors : CursorMap]

EmptyDocument == [text |-> <<>>, cursors |-> [u \in Client |-> NoCursor]]

----------------------------------------------------------------------------
\* NSMutableString: ranges that are within a text, and replacing one.

InRange(text, location, length) ==
  /\ 0 <= location
  /\ 0 <= length
  /\ location + length <= Len(text)

Substring(text, location, length) ==
  SubSeq(text, location + 1, location + length)

Splice(text, location, length, replacement) ==
  Substring(text, 0, location) \o replacement
    \o SubSeq(text, location + length + 1, Len(text))

----------------------------------------------------------------------------
\* The location and the range of a received text action: the author's cursor,
\* except that an undo or a redo carries its own location.
Placed(cursors, a) ==
  LET cursor == IF cursors[a.user] = NoCursor THEN 0 ELSE cursors[a.user]
      length == IF a.type = "REMOVE" THEN Len(a.text) ELSE 0
  IN IF a.isUndo \/ a.isRedo
     THEN [a EXCEPT !.length = IF a.type = "REMOVE" THEN length ELSE @]
     ELSE [a EXCEPT !.location = cursor, !.length = length]

LeftIndex(p)  == p.location - p.length
RightIndex(p) == IF p.type = "REMOVE" THEN p.location
                                      ELSE p.location + Len(p.text)

\* verifyEdit: a removal is accepted only if it deletes the text it names;
\* substringWithRange raises when the range is not within the text.
VerifyEdit(text, p) ==
  CASE p.type = "INSERT" -> "accept"
    [] p.type # "INSERT" /\ ~InRange(text, LeftIndex(p), p.length) -> "raise"
    [] OTHER -> IF Substring(text, LeftIndex(p), p.length) = p.text
                THEN "accept" ELSE "reject"

MovedCursorUnclamped(x, p) ==
  CASE p.type = "REMOVE" /\ x > LeftIndex(p) -> x - p.length
    [] p.type = "INSERT" /\ x >= LeftIndex(p) -> x + Len(p.text)
    [] OTHER -> x

\* updateCursors: where a cursor at x is after the edit.
MovedCursor(x, p) ==
  CASE p.type = "REMOVE" /\ x > RightIndex(p) -> x - p.length
    [] p.type = "REMOVE" /\ LeftIndex(p) < x /\ x <= RightIndex(p) -> LeftIndex(p)
    [] p.type = "INSERT" /\ x >= LeftIndex(p) -> x + Len(p.text)
    [] OTHER -> x

\* All cursors move; the author's, if there is none yet, is put at the left end.
UpdateCursors(cursors, p) ==
  LET known == [cursors EXCEPT ![p.user] = IF @ = NoCursor THEN LeftIndex(p) ELSE @]
  IN [u \in Client |-> IF known[u] = NoCursor THEN NoCursor
                                              ELSE MovedCursor(known[u], p)]

\* insertString:atIndex: raises beyond the end of the text; a removal was verified.
CanSplice(text, p) == p.type = "REMOVE" \/ InRange(text, p.location, 0)

EditedText(text, p) ==
  IF p.type = "INSERT" THEN Splice(text, p.location, 0, p.text)
                       ELSE Splice(text, LeftIndex(p), p.length, <<>>)

----------------------------------------------------------------------------
\* One received action against document d: the document it leaves, and whether
\* it raised.  An insertion that raises has already moved the cursors.

Outcome(d, a) == VerifyEdit(d.text, Placed(d.cursors, a))

RenderText(d, p) ==
  [text    |-> IF CanSplice(d.text, p) THEN EditedText(d.text, p) ELSE d.text,
   cursors |-> UpdateCursors(d.cursors, p)]

Render(d, a) ==
  CASE IsCursor(a) -> [d EXCEPT !.cursors[a.user] = a.location]
    [] ~IsCursor(a) /\ Outcome(d, a) = "accept" -> RenderText(d, Placed(d.cursors, a))
    [] OTHER -> d

Raises(d, a) ==
  /\ ~IsCursor(a)
  /\ \/ Outcome(d, a) = "raise"
     \/ Outcome(d, a) = "accept" /\ ~CanSplice(d.text, Placed(d.cursors, a))

=============================================================================

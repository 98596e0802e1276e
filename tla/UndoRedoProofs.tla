--------------------------- MODULE UndoRedoProofs ---------------------------
(***************************************************************************)
(* What undo and redo rest on, for every document and every action: taking *)
(* back the action that was rendered last restores the text, and an entry  *)
(* that is moved along stays with its text.  And what follows of it for a  *)
(* client in a session with others, for sessions of every length and       *)
(* events of every length that anyone may broadcast: its stacks hold what  *)
(* can be taken back, and nothing else.                                    *)
(***************************************************************************)
EXTENDS UndoRedo, DocumentProofs, FiniteSetTheorems

\* What reaches the clients of an action that takes back p, where they put it,
\* and that its type is the other one (Inverted, with the flag of undo or redo).
LEMMA TakenBackPlaced ==
  ASSUME NEW c \in Client, NEW p \in SentAction, ~IsCursor(p),
         p.type = "REMOVE" => p.length = Len(p.text),
         NEW back \in {UndoAction(p), RedoAction(p)}, NEW cursors \in CursorMap
  PROVE  LET a == OnTheWire(c, back)
             placed == Placed(cursors, a)
         IN /\ ~IsCursor(a)
            /\ placed.text = p.text
            /\ p.type = "INSERT" => /\ placed.type = "REMOVE"
                                    /\ placed.length = Len(p.text)
                                    /\ placed.location = p.location + Len(p.text)
            /\ p.type = "REMOVE" => /\ placed.type = "INSERT"
                                    /\ placed.location = p.location - Len(p.text)
<1>1. p.type \in {"INSERT", "REMOVE"}
  BY DEF SentAction, Action, EditType, IsCursor
<1>2. CASE p.type = "INSERT"
  BY <1>1, <1>2 DEF UndoAction, RedoAction, Inverted, TextAction, OnTheWire, IsCursor, Placed
<1>3. CASE p.type = "REMOVE"
  BY <1>1, <1>3 DEF UndoAction, RedoAction, Inverted, TextAction, OnTheWire, IsCursor, Placed
<1>. QED  BY <1>1, <1>2, <1>3

\* Whatever a client rendered and did not reject, taking it back at once, by an
\* undo or by a redo of an undo, is accepted, raises nothing and restores the
\* text (undo, redo, and the placing and verifying of renderIncomingEdits).
THEOREM TakingBackRestores ==
  ASSUME NEW d \in Document, NEW a \in SentAction,
         ~IsCursor(a), Outcome(d, a) = "accept", ~Raises(d, a),
         NEW c \in Client,
         NEW back \in {UndoAction(Placed(d.cursors, a)), RedoAction(Placed(d.cursors, a))}
  PROVE  /\ Outcome(Render(d, a), OnTheWire(c, back)) = "accept"
         /\ ~Raises(Render(d, a), OnTheWire(c, back))
         /\ Render(Render(d, a), OnTheWire(c, back)).text = d.text
<1>. DEFINE p == Placed(d.cursors, a)
            e == Render(d, a)
            b == OnTheWire(c, back)
            q == Placed(e.cursors, b)
<1>1. d.text \in Text /\ d.cursors \in CursorMap /\ Len(d.text) \in Nat
  BY LenProperties DEF Document, Text
<1>2. /\ p \in SentAction /\ p.type = a.type
      /\ p.type = "REMOVE" => p.length = Len(p.text)
  BY <1>1, PlacedType
<1>3. /\ p.type \in {"INSERT", "REMOVE"} /\ ~IsCursor(p)
      /\ p.text \in Text /\ Len(p.text) \in Nat
      /\ p.location \in Int /\ p.length \in Int
  BY <1>2, LenProperties DEF SentAction, Action, EditType, IsCursor, Text
<1>4. e \in Document
  BY RenderType
<1>5. e.cursors \in CursorMap /\ e.text \in Text
  BY <1>4 DEF Document
<1>6. CanSplice(d.text, p) /\ e.text = EditedText(d.text, p)
  BY DEF Render, RenderText, Raises
<1>. HIDE DEF e
<1>7. /\ ~IsCursor(b) /\ q.text = p.text
      /\ p.type = "INSERT" => /\ q.type = "REMOVE" /\ q.length = Len(p.text)
                              /\ q.location = p.location + Len(p.text)
      /\ p.type = "REMOVE" => /\ q.type = "INSERT"
                              /\ q.location = p.location - Len(p.text)
  <2>. HIDE DEF p
  <2>. QED  BY <1>2, <1>3, <1>5, TakenBackPlaced DEF p
<1>8. VerifyEdit(d.text, p) = "accept"
  BY DEF Outcome
<1>. HIDE DEF p, b, q
<1>9. CASE p.type = "INSERT"
  <2>1. InRange(d.text, p.location, 0)
    BY <1>6, <1>9 DEF CanSplice
  <2>2. e.text = Splice(d.text, p.location, 0, p.text)
    BY <1>6, <1>9 DEF EditedText
  <2>3. LeftIndex(q) = p.location /\ q.length = Len(p.text) /\ q.type = "REMOVE"
    BY <1>3, <1>7, <1>9 DEF LeftIndex
  <2>4. /\ InRange(e.text, p.location, Len(p.text))
        /\ Substring(e.text, p.location, Len(p.text)) = p.text
    BY <1>1, <1>3, <2>1, <2>2, SubstringOfSplice
  <2>5. VerifyEdit(e.text, q) = "accept"
    BY <1>7, <2>3, <2>4 DEF VerifyEdit
  <2>6. CanSplice(e.text, q)
    BY <2>3 DEF CanSplice
  <2>7. Substring(d.text, p.location, 0) = <<>>
    BY <1>1, <1>3, SubSeqEmpty DEF Substring
  <2>8. EditedText(e.text, q) = d.text
    <3>1. Splice(Splice(d.text, p.location, 0, p.text), p.location, Len(p.text),
                 Substring(d.text, p.location, 0)) = d.text
      BY <1>1, <1>3, <2>1, SpliceBack
    <3>. QED  BY <2>2, <2>3, <2>7, <3>1 DEF EditedText
  <2>. QED  BY <1>7, <2>5, <2>6, <2>8 DEF Outcome, Raises, Render, RenderText, b, e, q
<1>10. CASE p.type = "REMOVE"
  <2>1. /\ p.length = Len(p.text) /\ LeftIndex(p) = p.location - Len(p.text)
        /\ LeftIndex(p) \in Int
    BY <1>2, <1>3, <1>10 DEF LeftIndex
  <2>2. /\ InRange(d.text, LeftIndex(p), Len(p.text))
        /\ Substring(d.text, LeftIndex(p), Len(p.text)) = p.text
    BY <1>8, <1>10, <2>1 DEF VerifyEdit
  <2>3. e.text = Splice(d.text, LeftIndex(p), Len(p.text), <<>>)
    BY <1>6, <1>10, <2>1 DEF EditedText
  <2>4. q.type = "INSERT" /\ q.location = LeftIndex(p) /\ q.text = p.text
    BY <1>7, <1>10, <2>1
  <2>5. <<>> \in Text /\ Len(<<>>) = 0
    BY EmptySeq DEF Text
  <2>6. InRange(e.text, q.location, 0)
    BY <1>1, <1>3, <2>1, <2>2, <2>3, <2>4, <2>5, SubstringOfSplice
  <2>7. VerifyEdit(e.text, q) = "accept" /\ CanSplice(e.text, q)
    BY <2>4, <2>6 DEF VerifyEdit, CanSplice
  <2>8. EditedText(e.text, q) = d.text
    <3>1. Splice(Splice(d.text, LeftIndex(p), Len(p.text), <<>>), LeftIndex(p), Len(<<>>),
                 Substring(d.text, LeftIndex(p), Len(p.text))) = d.text
      BY <1>1, <1>3, <2>1, <2>2, <2>5, SpliceBack
    <3>. QED  BY <2>2, <2>3, <2>4, <2>5, <3>1 DEF EditedText
  <2>. QED  BY <1>7, <2>7, <2>8 DEF Outcome, Raises, Render, RenderText, b, e, q
<1>. QED  BY <1>3, <1>9, <1>10 DEF b, e

\* An entry that inserted text and names it goes on naming it when an action is
\* rendered that neither breaks the text up nor ties with the entry: it is moved
\* by as much as its text (updateEditStack).
THEOREM EntryFollowsItsText ==
  ASSUME NEW text \in Text, NEW e \in SentAction, NEW p \in SentAction,
         e.type = "INSERT", e.length = 0, Names(e, text),
         p.type \in {"INSERT", "REMOVE"},
         p.type = "INSERT" => p.length = 0,
         p.type = "REMOVE" => p.length = Len(p.text),
         VerifyEdit(text, p) = "accept", CanSplice(text, p),
         ~BrokenUp(e, p), ~TiesWith(p, e)
  PROVE  Names(Shifted(e, p), EditedText(text, p))
<1>. DEFINE n == Len(e.text)
            at == e.location
            cut == IF p.type = "INSERT" THEN 0 ELSE p.length
            added == IF p.type = "INSERT" THEN p.text ELSE <<>>
            left == LeftIndex(p)
            edited == Splice(text, left, cut, added)
            moved == IF left < at THEN at + Len(added) - cut ELSE at
<1>1. /\ Len(text) \in Nat /\ n \in Nat /\ at \in Int /\ e.text \in Seq(Char)
      /\ p.text \in Text /\ Len(p.text) \in Nat /\ p.location \in Int /\ p.length \in Int
  BY LenProperties DEF SentAction, Action, Text
<1>2. /\ left \in Int /\ cut \in Int /\ added \in Text /\ Len(added) \in Nat
      /\ InRange(text, left, cut)
  <2>1. CASE p.type = "INSERT"
    BY <1>1, <2>1 DEF LeftIndex, CanSplice
  <2>2. CASE p.type = "REMOVE"
    BY <1>1, <2>2, EmptySeq DEF LeftIndex, VerifyEdit, Text
  <2>. QED  BY <2>1, <2>2
<1>3. EditedText(text, p) = edited
  BY <1>1 DEF EditedText, LeftIndex
<1>4. Shifted(e, p).location = moved /\ Shifted(e, p).text = e.text
  <2>1. LeftIndex(e) = at
    BY <1>1 DEF LeftIndex
  <2>2. e \in [type : EditType, user : User, text : Text, location : Int,
               length : Int, isUndo : BOOLEAN, isRedo : BOOLEAN]
    BY DEF SentAction, Action
  <2>3. CASE p.type = "INSERT"
    BY <1>1, <2>1, <2>2, <2>3 DEF Shifted, Growth
  <2>4. CASE p.type = "REMOVE"
    BY <1>1, <2>1, <2>2, <2>4, EmptySeq DEF Shifted, Growth
  <2>. QED  BY <2>3, <2>4
\* The edit is to the left of the entry's text, to the right of it, or it is empty.
<1>5. \/ left < at /\ left + cut <= at
      \/ at <= left /\ at + n <= left
      \/ at <= left /\ cut = 0 /\ Len(added) = 0
  <2>1. LeftIndex(e) = at /\ RightIndex(e) = at + n
    BY <1>1 DEF LeftIndex, RightIndex
  <2>2. CASE p.type = "INSERT"
    BY <1>1, <1>2, <2>1, <2>2 DEF BrokenUp, TiesWith
  <2>3. CASE p.type = "REMOVE"
    <3>1. /\ cut = p.length /\ added = <<>> /\ Len(added) = 0
          /\ RightIndex(p) = left + cut
      BY <1>1, <2>3, EmptySeq DEF RightIndex, LeftIndex
    <3>2. ~(left < at + n /\ at < left + cut)
      BY <2>1, <2>3, <3>1 DEF BrokenUp
    <3>3. 0 <= cut
      BY <1>2 DEF InRange
    <3>. HIDE DEF n, at, cut, added, left
    <3>. QED  BY <1>1, <1>2, <3>1, <3>2, <3>3
  <2>. QED  BY <2>2, <2>3
<1>6. /\ 0 <= at /\ at + n <= Len(text)
      /\ 0 <= left /\ 0 <= cut /\ left + cut <= Len(text)
  BY <1>2 DEF Names, InRange
<1>7. \A i \in 1 .. n : text[at + i] = e.text[i]
  <2>1. InRange(text, at, n) /\ Substring(text, at, n) = e.text
    BY DEF Names
  <2>2. \A i \in 1 .. n : Substring(text, at, n)[i] = text[at + i]
    BY <1>1, <2>1, SubstringElements
  <2>. QED  BY <2>1, <2>2
<1>8. edited \in Text /\ Len(edited) = Len(text) - cut + Len(added)
  BY <1>2, SpliceType
<1>9. \A i \in 1 .. Len(text) - cut + Len(added) :
        edited[i] = IF i <= left THEN text[i]
                    ELSE IF i <= left + Len(added) THEN added[i - left]
                    ELSE text[i + cut - Len(added)]
  <2>. HIDE DEF cut, added, left
  <2>. QED  BY <1>2, SpliceElements, Zenon
<1>. HIDE DEF n, at, cut, added, left, edited
<1>10. moved \in Int /\ InRange(edited, moved, n)
  BY <1>1, <1>2, <1>5, <1>6, <1>8 DEF InRange
<1>11. ASSUME NEW i \in 1 .. n
       PROVE  edited[moved + i] = e.text[i]
  <2>1. moved + i \in 1 .. Len(text) - cut + Len(added)
    BY <1>1, <1>2, <1>5, <1>6
  <2>2. edited[moved + i] = text[at + i]
    <3>1. CASE left < at /\ left + cut <= at
      <4>1. /\ moved = at + Len(added) - cut
            /\ ~(moved + i <= left) /\ ~(moved + i <= left + Len(added))
            /\ (moved + i) + cut - Len(added) = at + i
        BY <1>1, <1>2, <1>6, <3>1
      <4>. HIDE DEF moved
      <4>. QED  BY <1>9, <2>1, <4>1
    <3>2. CASE at <= left /\ at + n <= left
      <4>1. moved = at /\ moved + i <= left
        BY <1>1, <1>2, <1>6, <3>2
      <4>. HIDE DEF moved
      <4>. QED  BY <1>9, <2>1, <4>1
    <3>3. CASE at <= left /\ cut = 0 /\ Len(added) = 0
      <4>1. moved = at /\ (moved + i) + cut - Len(added) = at + i
        BY <1>1, <1>2, <1>6, <3>3
      <4>2. ~(moved + i <= left) => ~(moved + i <= left + Len(added))
        BY <1>1, <1>2, <1>6, <3>3
      <4>. HIDE DEF moved
      <4>. QED  BY <1>9, <2>1, <4>1, <4>2
    <3>. QED  BY <1>5, <3>1, <3>2, <3>3
  <2>. QED  BY <1>7, <2>2
<1>. HIDE DEF moved
<1>12. /\ Substring(edited, moved, n) \in Seq(Char)
       /\ Len(Substring(edited, moved, n)) = n
       /\ \A i \in 1 .. n : Substring(edited, moved, n)[i] = edited[moved + i]
  BY <1>1, <1>8, <1>10, SubstringElements DEF Text
<1>13. Substring(edited, moved, n) = e.text
  <2>1. \A i \in 1 .. n : Substring(edited, moved, n)[i] = e.text[i]
    BY <1>11, <1>12
  <2>. QED  BY <1>1, <1>12, <2>1, SeqEqual DEF n
<1>. QED  BY <1>3, <1>4, <1>10, <1>13 DEF Names, n

----------------------------------------------------------------------------
(***************************************************************************)
(* What the parts of a client's state are.  Off the wire no action has a   *)
(* length; when it is placed a removal is given the length of its text,    *)
(* and so an entry of a stack has the length of what it would put back.    *)
(***************************************************************************)

WireAction ==
  {a \in SentAction : a.length = 0 /\ (IsCursor(a) => a.location \in Nat)}

Entry ==
  {e \in SentAction : /\ e.type \in {"INSERT", "REMOVE"}
                      /\ e.length = IF e.type = "REMOVE" THEN Len(e.text) ELSE 0}

Replicas ==
  [doc : Document, undoStack : Seq(Entry), redoStack : Seq(Entry), ended : BOOLEAN]

\* The entries whose text, if they inserted it, stands where they say.
NamedIn(text) == {e \in Entry : e.type = "INSERT" => Names(e, text)}

LEMMA PlacedIsEntry ==
  ASSUME NEW cursors \in CursorMap, NEW a \in WireAction, ~IsCursor(a)
  PROVE  /\ Placed(cursors, a) \in Entry
         /\ Placed(cursors, a).user = a.user
         /\ Placed(cursors, a).type = a.type
         /\ Placed(cursors, a).isUndo = a.isUndo
<1>1. /\ a \in SentAction /\ a.length = 0 /\ a.type \in {"INSERT", "REMOVE"}
      /\ a.user \in Client /\ Len(a.text) \in Int
  BY LenProperties DEF WireAction, SentAction, Action, EditType, IsCursor, Text
<1>2. /\ Placed(cursors, a) \in SentAction
      /\ Placed(cursors, a).user = a.user
      /\ Placed(cursors, a).text = a.text
      /\ Placed(cursors, a).type = a.type
      /\ a.type = "REMOVE" => Placed(cursors, a).length = Len(a.text)
  BY <1>1, PlacedType
<1>3. Placed(cursors, a).isUndo = a.isUndo
  BY <1>1 DEF Placed, SentAction, Action
<1>4. a.type = "INSERT" => Placed(cursors, a).length = 0
  BY <1>1 DEF Placed, SentAction, Action
<1>. QED  BY <1>1, <1>2, <1>3, <1>4 DEF Entry

LEMMA ShiftedIsEntry ==
  ASSUME NEW e \in Entry, NEW p \in Entry
  PROVE  /\ Shifted(e, p) \in Entry
         /\ Shifted(e, p).type = e.type
<1>1. /\ e.location \in Int /\ p.location \in Int /\ p.length \in Int
      /\ Len(p.text) \in Nat
  BY LenProperties DEF Entry, SentAction, Action, Text
<1>2. e.location + Growth(p) \in Int
  BY <1>1 DEF Growth
<1>. QED  BY <1>2 DEF Shifted, Entry, SentAction, Action

----------------------------------------------------------------------------
(***************************************************************************)
(* The loop of updateEditStack.                                            *)
(***************************************************************************)

Updating == INSTANCE FoldProofs WITH Step <- PutBack

LEMMA UpdateIsLooped ==
  ASSUME NEW stack, NEW p
  PROVE  UpdateEditStack(stack, p) = Updating!Looped(p, <<>>, stack)
BY DEF UpdateEditStack, Updating!Looped, FoldLeft, Updating!FoldLeft,
       MapThenFoldSet, Updating!MapThenFoldSet, Max, Updating!Max

\* The entries that are put back are the old ones, moved; there are not more.
LEMMA UpdatedStack ==
  ASSUME NEW S, NEW T, NEW p, NEW stack \in Seq(S),
         \A e \in S : ~BrokenUp(e, p) => Shifted(e, p) \in T
  PROVE  /\ UpdateEditStack(stack, p) \in Seq(T)
         /\ Len(UpdateEditStack(stack, p)) <= Len(stack)
<1>. DEFINE After(s) == Updating!Looped(p, <<>>, s)
            N == {s \in Seq(S) : After(s) \in Seq(T) /\ Len(After(s)) <= Len(s)}
<1>1. <<>> \in N
  <2>1. After(<<>>) = <<>>
    BY Updating!LoopOfNothing
  <2>2. <<>> \in Seq(S) /\ <<>> \in Seq(T) /\ Len(<<>>) = 0
    BY EmptySeq
  <2>. HIDE DEF After
  <2>3. Len(After(<<>>)) = 0 /\ After(<<>>) \in Seq(T)
    BY <2>1, <2>2
  <2>4. Len(After(<<>>)) <= Len(<<>>)
    BY <2>2, <2>3
  <2>. QED  BY <2>2, <2>3, <2>4
<1>2. ASSUME NEW s \in Seq(S), s \in N, NEW e \in S
      PROVE  Append(s, e) \in N
  <2>1. After(Append(s, e)) = PutBack(p, After(s), e)
    BY Updating!LoopOfAppend
  <2>2. Append(s, e) \in Seq(S) /\ Len(Append(s, e)) = Len(s) + 1 /\ Len(s) \in Nat
    BY AppendProperties, LenProperties
  <2>3. After(s) \in Seq(T) /\ Len(After(s)) <= Len(s)
    BY <1>2
  <2>. DEFINE before == After(s)
              after == After(Append(s, e))
  <2>. HIDE DEF After
  <2>4. before \in Seq(T) /\ Len(before) \in Nat /\ Len(before) <= Len(s)
    BY <2>3, LenProperties
  <2>5. CASE BrokenUp(e, p)
    <3>1. after = before
      BY <2>1, <2>5 DEF PutBack
    <3>. HIDE DEF before, after
    <3>2. after \in Seq(T) /\ Len(after) <= Len(s) + 1
      BY <2>2, <2>4, <3>1
    <3>. QED  BY <2>2, <3>2 DEF after
  <2>6. CASE ~BrokenUp(e, p)
    <3>. DEFINE moved == Shifted(e, p)
    <3>1. moved \in T
      BY <2>6
    <3>2. after = Append(before, moved)
      BY <2>1, <2>6 DEF PutBack
    <3>. HIDE DEF before, after, moved
    <3>3. after \in Seq(T) /\ Len(after) = Len(before) + 1
      BY <2>4, <3>1, <3>2, AppendProperties
    <3>4. Len(after) <= Len(s) + 1
      BY <2>2, <2>4, <3>3
    <3>. QED  BY <2>2, <3>3, <3>4 DEF after
  <2>. QED  BY <2>5, <2>6
<1>. HIDE DEF N
<1>3. Seq(S) \subseteq N
  BY <1>1, <1>2, Updating!AllSequences
<1>. QED  BY <1>3, UpdateIsLooped DEF N

----------------------------------------------------------------------------
(***************************************************************************)
(* One action at Me: the loop of renderIncomingEdits.                      *)
(***************************************************************************)

\* The two stacks after an action that is accepted.
PushIf(own, stack, p) == IF own THEN Append(stack, p) ELSE stack

UndoStackAfter(r, a) ==
  LET p == Placed(r.doc.cursors, a)
  IN PushIf(a.user = Me /\ ~a.isUndo, UpdateEditStack(r.undoStack, p), p)

RedoStackAfter(r, a) ==
  LET p == Placed(r.doc.cursors, a)
  IN PushIf(a.user = Me /\ a.isUndo, UpdateEditStack(r.redoStack, p), p)

LEMMA RenderAtFields ==
  ASSUME NEW r \in Replicas, NEW a \in WireAction
  PROVE  LET s == RenderAt(Me, r, a)
         IN /\ r.ended => s = r
            /\ ~r.ended => s.doc = Render(r.doc, a) /\ s.ended = Raises(r.doc, a)
            /\ Accepts(r, a) => /\ s.undoStack = UndoStackAfter(r, a)
                               /\ s.redoStack = RedoStackAfter(r, a)
            /\ ~Accepts(r, a) => /\ s.undoStack = r.undoStack
                                /\ s.redoStack = r.redoStack
            /\ s = [doc |-> s.doc, undoStack |-> s.undoStack, redoStack |-> s.redoStack,
                    ended |-> s.ended]
<1>1. r = [doc |-> r.doc, undoStack |-> r.undoStack, redoStack |-> r.redoStack,
           ended |-> r.ended]
  BY DEF Replicas
<1>2. CASE r.ended
  BY <1>1, <1>2 DEF RenderAt, Accepts
<1>3. CASE Accepts(r, a)
  <2>1. ~r.ended
    BY <1>3 DEF Accepts
  <2>2. RenderAt(Me, r, a)
          = [doc |-> Render(r.doc, a), undoStack |-> UndoStackAfter(r, a),
             redoStack |-> RedoStackAfter(r, a), ended |-> Raises(r.doc, a)]
    BY <1>3, <2>1 DEF RenderAt, UndoStackAfter, RedoStackAfter, PushIf
  <2>. QED  BY <1>3, <2>1, <2>2
<1>4. CASE ~r.ended /\ ~Accepts(r, a)
  <2>1. RenderAt(Me, r, a) = [r EXCEPT !.doc = Render(r.doc, a), !.ended = Raises(r.doc, a)]
    BY <1>4 DEF RenderAt
  <2>. QED  BY <1>1, <1>4, <2>1
<1>. QED  BY <1>2, <1>3, <1>4

LEMMA AcceptedIsEntry ==
  ASSUME NEW r \in Replicas, NEW a \in WireAction, Accepts(r, a)
  PROVE  /\ Placed(r.doc.cursors, a) \in Entry
         /\ Placed(r.doc.cursors, a).user = a.user
         /\ Placed(r.doc.cursors, a).type = a.type
BY PlacedIsEntry DEF Accepts, Replicas, Document

\* Moved and pushed entries are entries; only an own undo makes the redo stack grow.
LEMMA RenderAtType ==
  ASSUME NEW r \in Replicas, NEW a \in WireAction
  PROVE  LET s == RenderAt(Me, r, a)
         IN /\ s \in Replicas
            /\ Len(s.redoStack) <= Len(r.redoStack) + 1
            /\ ~(a.user = Me /\ a.isUndo) => Len(s.redoStack) <= Len(r.redoStack)
<1>. DEFINE s == RenderAt(Me, r, a)
            p == Placed(r.doc.cursors, a)
            undos == UpdateEditStack(r.undoStack, p)
            redos == UpdateEditStack(r.redoStack, p)
<1>1. /\ r.doc \in Document /\ r.undoStack \in Seq(Entry) /\ r.redoStack \in Seq(Entry)
      /\ r.ended \in BOOLEAN /\ Len(r.redoStack) \in Nat
  BY LenProperties DEF Replicas
<1>2. Render(r.doc, a) \in Document /\ Raises(r.doc, a) \in BOOLEAN
  <2>1. Raises(r.doc, a) \in BOOLEAN
    BY DEF Raises
  <2>2. a \in SentAction
    BY DEF WireAction
  <2>. QED  BY <1>1, <2>1, <2>2, RenderType
<1>3. CASE ~Accepts(r, a)
  <2>1. s.undoStack = r.undoStack /\ s.redoStack = r.redoStack
    BY <1>3, RenderAtFields
  <2>2. s.doc \in Document /\ s.ended \in BOOLEAN
    BY <1>1, <1>2, RenderAtFields
  <2>3. s = [doc |-> s.doc, undoStack |-> s.undoStack, redoStack |-> s.redoStack,
             ended |-> s.ended]
    BY RenderAtFields
  <2>. HIDE DEF s
  <2>4. s \in Replicas
    BY <1>1, <2>1, <2>2, <2>3 DEF Replicas
  <2>. QED  BY <1>1, <2>1, <2>4 DEF s
<1>4. CASE Accepts(r, a)
  <2>1. p \in Entry
    BY <1>4, AcceptedIsEntry
  <2>2. /\ undos \in Seq(Entry) /\ redos \in Seq(Entry)
        /\ Len(redos) <= Len(r.redoStack) /\ Len(redos) \in Nat
    <3>. HIDE DEF p
    <3>1. \A e \in Entry : ~BrokenUp(e, p) => Shifted(e, p) \in Entry
      BY <2>1, ShiftedIsEntry
    <3>2. undos \in Seq(Entry) /\ redos \in Seq(Entry) /\ Len(redos) <= Len(r.redoStack)
      BY <1>1, <3>1, UpdatedStack
    <3>. QED  BY <3>2, LenProperties
  <2>3. /\ s.undoStack = PushIf(a.user = Me /\ ~a.isUndo, undos, p)
        /\ s.redoStack = PushIf(a.user = Me /\ a.isUndo, redos, p)
        /\ s.doc = Render(r.doc, a) /\ s.ended = Raises(r.doc, a)
        /\ s = [doc |-> s.doc, undoStack |-> s.undoStack, redoStack |-> s.redoStack,
                ended |-> s.ended]
    BY <1>4, RenderAtFields DEF Accepts, UndoStackAfter, RedoStackAfter
  <2>. HIDE DEF p, undos, redos, s
  <2>4. /\ Append(undos, p) \in Seq(Entry) /\ Append(redos, p) \in Seq(Entry)
        /\ Len(Append(redos, p)) = Len(redos) + 1
    BY <2>1, <2>2, AppendProperties
  <2>5. /\ s.undoStack \in Seq(Entry) /\ s.redoStack \in Seq(Entry)
        /\ Len(s.redoStack) <= Len(r.redoStack) + 1
        /\ ~(a.user = Me /\ a.isUndo) => Len(s.redoStack) <= Len(r.redoStack)
    BY <1>1, <2>2, <2>3, <2>4 DEF PushIf
  <2>6. s \in Replicas
    BY <1>2, <2>3, <2>5 DEF Replicas
  <2>. QED  BY <2>5, <2>6 DEF s
<1>. QED  BY <1>3, <1>4

\* Me's cursor is not before the text.
InText(d) == d.cursors[Me] \in Nat \cup {NoCursor}

\* A removal is within the text, and an insertion that is not raises.
LEMMA RenderAtKeepsCursor ==
  ASSUME NEW r \in Replicas, NEW a \in WireAction, ~r.ended => InText(r.doc)
  PROVE  ~RenderAt(Me, r, a).ended => InText(RenderAt(Me, r, a).doc)
<1>. DEFINE s == RenderAt(Me, r, a)
            p == Placed(r.doc.cursors, a)
<1>1. CASE r.ended
  BY <1>1, RenderAtFields
<1>2. CASE ~r.ended /\ ~s.ended
  <2>1. s.doc = Render(r.doc, a) /\ ~Raises(r.doc, a)
    BY <1>2, RenderAtFields
  <2>2. r.doc \in Document /\ a \in SentAction /\ Me \in Client /\ InText(r.doc)
    BY <1>2, MeAssumption DEF Replicas, WireAction
  <2>3. ASSUME ~IsCursor(a), Outcome(r.doc, a) = "accept"
        PROVE  LeftIndex(p) >= 0
    <3>1. Accepts(r, a)
      BY <1>2, <2>3 DEF Accepts
    <3>2. p \in Entry
      BY <3>1, AcceptedIsEntry
    <3>3. p.location \in Int /\ p.length \in Int
      BY <3>2 DEF Entry, SentAction, Action
    <3>4. CASE p.type = "REMOVE"
      BY <2>3, <3>3, <3>4 DEF Outcome, VerifyEdit, InRange
    <3>5. CASE p.type # "REMOVE"
      <4>1. InRange(r.doc.text, p.location, 0)
        BY <2>1, <2>3, <3>5 DEF Raises, CanSplice
      <4>2. p.length = 0
        BY <3>2, <3>5 DEF Entry
      <4>. HIDE DEF p
      <4>. QED  BY <3>3, <4>1, <4>2 DEF InRange, LeftIndex
    <3>. QED  BY <3>4, <3>5
  <2>4. IsCursor(a) => a.location \in Nat
    BY DEF WireAction
  <2>5. Render(r.doc, a).cursors[Me] \in Nat \cup {NoCursor}
    BY <2>2, <2>3, <2>4, RenderingKeepsCursor DEF InText
  <2>. QED  BY <2>1, <2>5 DEF InText
<1>. QED  BY <1>1, <1>2

\* An entry of a stack that nothing ties with stays with its text, and what the
\* user has just inserted is where its entry says.
LEMMA AcceptedFollow ==
  ASSUME NEW text \in Text, NEW p \in Entry,
         VerifyEdit(text, p) = "accept", CanSplice(text, p),
         NEW stack \in Seq(NamedIn(text)),
         \A e \in Range(stack) : e.type = "INSERT" => ~TiesWith(p, e)
  PROVE  /\ UpdateEditStack(stack, p) \in Seq(NamedIn(EditedText(text, p)))
         /\ p \in NamedIn(EditedText(text, p))
<1>. DEFINE S == {e \in NamedIn(text) : e.type = "INSERT" => ~TiesWith(p, e)}
            edited == EditedText(text, p)
<1>1. /\ p \in SentAction /\ p.type \in {"INSERT", "REMOVE"}
      /\ p.type = "INSERT" => p.length = 0
      /\ p.type = "REMOVE" => p.length = Len(p.text)
  BY DEF Entry
<1>2. stack \in Seq(S)
  <2>1. stack \in Seq(Range(stack)) /\ Range(stack) \subseteq NamedIn(text)
    BY SeqOfRange, RangeOfSeq
  <2>2. Range(stack) \subseteq S
    BY <2>1
  <2>. QED  BY <2>1, <2>2, SeqMonotonic
<1>3. ASSUME NEW e \in S, ~BrokenUp(e, p)
      PROVE  Shifted(e, p) \in NamedIn(edited)
  <2>1. e \in Entry /\ e \in SentAction
    BY DEF NamedIn, Entry
  <2>2. Shifted(e, p) \in Entry /\ Shifted(e, p).type = e.type
    BY <2>1, ShiftedIsEntry
  <2>3. CASE e.type = "INSERT"
    <3>1. e.length = 0 /\ Names(e, text) /\ ~TiesWith(p, e)
      BY <2>3 DEF NamedIn, Entry
    <3>2. Names(Shifted(e, p), edited)
      BY <1>1, <1>3, <2>1, <2>3, <3>1, EntryFollowsItsText
    <3>. QED  BY <2>2, <3>2 DEF NamedIn
  <2>4. CASE e.type # "INSERT"
    BY <2>2, <2>4 DEF NamedIn
  <2>. QED  BY <2>3, <2>4
<1>4. p \in NamedIn(edited)
  <2>1. CASE p.type = "INSERT"
    <3>1. p.text \in Text /\ Len(p.text) \in Nat /\ p.location \in Int
      BY LenProperties DEF Entry, SentAction, Action, Text
    <3>2. InRange(text, p.location, 0) /\ edited = Splice(text, p.location, 0, p.text)
      BY <2>1 DEF CanSplice, EditedText
    <3>3. /\ InRange(edited, p.location, Len(p.text))
          /\ Substring(edited, p.location, Len(p.text)) = p.text
      BY <3>1, <3>2, SubstringOfSplice
    <3>. QED  BY <3>3 DEF NamedIn, Names
  <2>2. CASE p.type # "INSERT"
    BY <2>2 DEF NamedIn
  <2>. QED  BY <2>1, <2>2
<1>. HIDE DEF S, edited
<1>5. UpdateEditStack(stack, p) \in Seq(NamedIn(edited))
  BY <1>2, <1>3, UpdatedStack
<1>. QED  BY <1>4, <1>5 DEF edited

StacksNamed(r) ==
  /\ r.undoStack \in Seq(NamedIn(r.doc.text))
  /\ r.redoStack \in Seq(NamedIn(r.doc.text))

LEMMA RenderAtFollows ==
  ASSUME NEW r \in Replicas, NEW a \in WireAction, StacksNamed(r), ~Ties(r, a),
         ~RenderAt(Me, r, a).ended
  PROVE  StacksNamed(RenderAt(Me, r, a))
<1>. DEFINE s == RenderAt(Me, r, a)
            p == Placed(r.doc.cursors, a)
            undos == UpdateEditStack(r.undoStack, p)
            redos == UpdateEditStack(r.redoStack, p)
<1>1. CASE r.ended
  BY <1>1, RenderAtFields
<1>2. CASE ~r.ended /\ ~Accepts(r, a)
  <2>1. /\ s.doc = Render(r.doc, a)
        /\ s.undoStack = r.undoStack /\ s.redoStack = r.redoStack
    BY <1>2, RenderAtFields
  <2>2. r.doc \in Document
    BY DEF Replicas
  <2>3. Render(r.doc, a).text = r.doc.text
    BY <1>2, <2>2 DEF Render, Accepts, Document
  <2>. QED  BY <2>1, <2>3 DEF StacksNamed
<1>3. CASE Accepts(r, a)
  <2>1. ~r.ended /\ ~IsCursor(a) /\ VerifyEdit(r.doc.text, p) = "accept"
    BY <1>3 DEF Accepts, Outcome
  <2>2. /\ s.undoStack = PushIf(a.user = Me /\ ~a.isUndo, undos, p)
        /\ s.redoStack = PushIf(a.user = Me /\ a.isUndo, redos, p)
        /\ s.doc = Render(r.doc, a) /\ s.ended = Raises(r.doc, a)
    BY <1>3, <2>1, RenderAtFields DEF UndoStackAfter, RedoStackAfter
  <2>3. CanSplice(r.doc.text, p)
    BY <2>1, <2>2 DEF Raises, Outcome
  <2>4. s.doc.text = EditedText(r.doc.text, p)
    BY <2>1, <2>2, <2>3 DEF Render, Outcome, RenderText
  <2>5. p \in Entry /\ r.doc.text \in Text
    BY <1>3, AcceptedIsEntry DEF Replicas, Document
  <2>6. \A e \in Range(r.undoStack) \cup Range(r.redoStack) :
          e.type = "INSERT" => ~TiesWith(p, e)
    BY <1>3 DEF Ties
  <2>. HIDE DEF p, s
  <2>7. /\ undos \in Seq(NamedIn(s.doc.text)) /\ redos \in Seq(NamedIn(s.doc.text))
        /\ p \in NamedIn(s.doc.text)
    BY <2>1, <2>3, <2>4, <2>5, <2>6, AcceptedFollow DEF StacksNamed
  <2>. HIDE DEF undos, redos
  <2>8. /\ Append(undos, p) \in Seq(NamedIn(s.doc.text))
        /\ Append(redos, p) \in Seq(NamedIn(s.doc.text))
    BY <2>7, AppendProperties
  <2>9. StacksNamed(s)
    BY <2>2, <2>7, <2>8 DEF StacksNamed, PushIf
  <2>. QED  BY <2>9 DEF s
<1>. QED  BY <1>1, <1>2, <1>3

\* What Me rendered last is on top of the stack that it belongs on.
LEMMA RenderAtPushes ==
  ASSUME NEW r \in Replicas, NEW a \in WireAction, Accepts(r, a), a.user = Me
  PROVE  LET s == RenderAt(Me, r, a)
             stack == IF a.isUndo THEN s.redoStack ELSE s.undoStack
         IN stack # <<>> /\ Last(stack) = Placed(r.doc.cursors, a)
<1>. DEFINE s == RenderAt(Me, r, a)
            p == Placed(r.doc.cursors, a)
            undos == UpdateEditStack(r.undoStack, p)
            redos == UpdateEditStack(r.redoStack, p)
<1>1. p \in Entry
  BY AcceptedIsEntry
<1>2. undos \in Seq(Entry) /\ redos \in Seq(Entry)
  <2>. HIDE DEF p
  <2>1. \A e \in Entry : ~BrokenUp(e, p) => Shifted(e, p) \in Entry
    BY <1>1, ShiftedIsEntry
  <2>. QED  BY <2>1, UpdatedStack DEF Replicas
<1>3. /\ s.undoStack = PushIf(a.user = Me /\ ~a.isUndo, undos, p)
      /\ s.redoStack = PushIf(a.user = Me /\ a.isUndo, redos, p)
  BY RenderAtFields DEF UndoStackAfter, RedoStackAfter
<1>. HIDE DEF p, undos, redos, s
<1>4. ASSUME NEW stack \in Seq(Entry)
      PROVE  Append(stack, p) # <<>> /\ Last(Append(stack, p)) = p
  BY <1>1, AppendProperties DEF Last
<1>5. CASE a.isUndo
  BY <1>2, <1>3, <1>4, <1>5 DEF PushIf, p, s
<1>6. CASE ~a.isUndo
  BY <1>2, <1>3, <1>4, <1>6 DEF PushIf, p, s
<1>. QED  BY <1>5, <1>6

----------------------------------------------------------------------------
(***************************************************************************)
(* One event at Me.  What the properties remember is remembered at every   *)
(* action, and the loop over the event is a fold over Remember.            *)
(***************************************************************************)

Befores == {<<>>} \cup {<<b>> : b \in [text : Text, isUndo : BOOLEAN]}

\* The action that Me rendered last, if nothing came after it, is on top of the
\* stack from which it can be taken back, as it was placed.
LastOnTop(before, r) ==
  before # <<>> =>
    \E d \in Document, a \in WireAction :
      LET stack == IF a.isUndo THEN r.redoStack ELSE r.undoStack
      IN /\ ~IsCursor(a) /\ Outcome(d, a) = "accept" /\ ~Raises(d, a)
         /\ r.doc = Render(d, a)
         /\ before[1] = [text |-> d.text, isUndo |-> a.isUndo]
         /\ stack # <<>> /\ Last(stack) = Placed(d.cursors, a)

Histories ==
  {h \in [replica : Replicas, before : Befores, tied : BOOLEAN] :
     /\ ~h.replica.ended /\ ~h.tied => StacksNamed(h.replica)
     /\ ~h.replica.ended => InText(h.replica.doc)
     /\ LastOnTop(h.before, h.replica)}

LEMMA RememberKeeps ==
  ASSUME NEW h \in Histories, NEW a \in WireAction
  PROVE  Remember(h, a) \in Histories
<1>. DEFINE r == h.replica
            s == RenderAt(Me, r, a)
            own == Accepts(r, a) /\ a.user = Me /\ ~Raises(r.doc, a)
            before == IF own THEN <<[text |-> r.doc.text, isUndo |-> a.isUndo]>> ELSE <<>>
            tied == h.tied \/ Ties(r, a)
<1>1. /\ r \in Replicas /\ h.tied \in BOOLEAN
      /\ ~r.ended /\ ~h.tied => StacksNamed(r)
      /\ ~r.ended => InText(r.doc)
  BY DEF Histories
<1>2. Remember(h, a) = [replica |-> s, before |-> before, tied |-> tied]
  BY DEF Remember
<1>3. s \in Replicas
  BY <1>1, RenderAtType
<1>4. r.doc \in Document /\ r.doc.text \in Text /\ a.isUndo \in BOOLEAN
  BY <1>1 DEF Replicas, Document, WireAction, SentAction, Action
<1>5. before \in Befores
  <2>1. [text |-> r.doc.text, isUndo |-> a.isUndo] \in [text : Text, isUndo : BOOLEAN]
    BY <1>4
  <2>. QED  BY <2>1 DEF Befores
<1>6. tied \in BOOLEAN
  BY <1>1 DEF Ties
<1>7. ~s.ended /\ ~tied => StacksNamed(s)
  <2>1. r.ended => s.ended
    BY <1>1, RenderAtFields
  <2>. QED  BY <1>1, <2>1, RenderAtFollows
<1>8. LastOnTop(before, s)
  <2>1. SUFFICES ASSUME own
                 PROVE  LastOnTop(before, s)
    BY DEF LastOnTop
  <2>2. /\ ~IsCursor(a) /\ Outcome(r.doc, a) = "accept" /\ ~Raises(r.doc, a)
    BY <2>1 DEF Accepts
  <2>3. s.doc = Render(r.doc, a)
    BY <1>1, <2>1, RenderAtFields DEF Accepts
  <2>. DEFINE stack == IF a.isUndo THEN s.redoStack ELSE s.undoStack
  <2>4. stack # <<>> /\ Last(stack) = Placed(r.doc.cursors, a)
    BY <1>1, <2>1, RenderAtPushes
  <2>5. before[1] = [text |-> r.doc.text, isUndo |-> a.isUndo]
    BY <2>1
  <2>. HIDE DEF before, s, r
  <2>. QED  BY <1>4, <2>2, <2>3, <2>4, <2>5 DEF LastOnTop
<1>9. ~s.ended => InText(s.doc)
  BY <1>1, RenderAtKeepsCursor
<1>. HIDE DEF s, before, tied
<1>. QED  BY <1>2, <1>3, <1>5, <1>6, <1>7, <1>8, <1>9 DEF Histories

RememberAt(p, h, a) == Remember(h, a)

Remembering == INSTANCE FoldProofs WITH Step <- RememberAt

LEMMA RememberedIsLooped ==
  ASSUME NEW h, NEW event
  PROVE  FoldLeft(Remember, h, event) = Remembering!Looped(0, h, event)
BY DEF Remembering!Looped, RememberAt, FoldLeft, Remembering!FoldLeft,
       MapThenFoldSet, Remembering!MapThenFoldSet, Max, Remembering!Max

IsOwnUndo(a) == a.user = Me /\ a.isUndo

UndoesOwn(event) == \E j \in DOMAIN event : event[j].user = Me /\ event[j].isUndo

\* An own undo is broadcast by itself.
Events == {event \in Seq(WireAction) : UndoesOwn(event) => Len(event) = 1}

\* After an event, everything is as it should be, and the redo stack has at most one
\* entry more, and none if there was no own undo.
LEMMA RememberedEvent ==
  ASSUME NEW h \in Histories, NEW event \in Events
  PROVE  LET after == FoldLeft(Remember, h, event)
         IN /\ after \in Histories
            /\ Len(after.replica.redoStack)
                 <= Len(h.replica.redoStack) + (IF UndoesOwn(event) THEN 1 ELSE 0)
<1>. DEFINE after == FoldLeft(Remember, h, event)
            k == Len(h.replica.redoStack)
            Shorter == {g \in Histories : Len(g.replica.redoStack) <= k}
<1>0. event \in Seq(WireAction) /\ (UndoesOwn(event) => Len(event) = 1)
  BY DEF Events
<1>1. \A g \in Histories : g.replica \in Replicas /\ Len(g.replica.redoStack) \in Nat
  BY LenProperties DEF Histories, Replicas
<1>2. \A g \in Histories, a \in WireAction :
        /\ Len(Remember(g, a).replica.redoStack) <= Len(g.replica.redoStack) + 1
        /\ ~IsOwnUndo(a) =>
             Len(Remember(g, a).replica.redoStack) <= Len(g.replica.redoStack)
  <2>. TAKE g \in Histories, a \in WireAction
  <2>1. Remember(g, a).replica = RenderAt(Me, g.replica, a)
    BY DEF Remember
  <2>. QED  BY <1>1, <2>1, RenderAtType DEF IsOwnUndo
<1>3. after = Remembering!Looped(0, h, event)
  BY RememberedIsLooped
<1>4. CASE ~UndoesOwn(event)
  <2>. DEFINE S == {a \in WireAction : ~IsOwnUndo(a)}
  <2>1. event \in Seq(S)
    <3>1. event \in Seq(Range(event)) /\ Range(event) \subseteq WireAction
      BY <1>0, SeqOfRange, RangeOfSeq
    <3>2. Range(event) \subseteq S
      BY <1>4, <3>1 DEF UndoesOwn, IsOwnUndo, Range
    <3>. QED  BY <3>1, <3>2, SeqMonotonic
  <2>2. h \in Shorter
    BY <1>1
  <2>3. \A g \in Shorter, a \in S : RememberAt(0, g, a) \in Shorter
    <3>. TAKE g \in Shorter, a \in S
    <3>1. Remember(g, a) \in Histories
      BY RememberKeeps
    <3>2. Len(Remember(g, a).replica.redoStack) <= Len(g.replica.redoStack)
      BY <1>2
    <3>3. /\ Len(Remember(g, a).replica.redoStack) \in Nat
          /\ Len(g.replica.redoStack) \in Nat /\ k \in Nat
      BY <1>1, <3>1
    <3>. QED  BY <3>1, <3>2, <3>3 DEF RememberAt
  <2>. HIDE DEF S, Shorter, after
  <2>4. after \in Shorter
    BY <1>3, <2>1, <2>2, <2>3, Remembering!LoopInvariant
  <2>. QED  BY <1>1, <1>4, <2>4 DEF Shorter, after
<1>5. CASE UndoesOwn(event)
  <2>1. PICK s \in Seq(WireAction), a \in WireAction : s = <<>> /\ event = Append(s, a)
    <3>1. event # <<>> /\ Len(event) = 1
      BY <1>0, <1>5, EmptySeq
    <3>2. PICK s \in Seq(WireAction), a \in WireAction : event = Append(s, a)
      BY <1>0, <3>1, SequenceEmptyOrAppend
    <3>3. Len(s) = 0
      BY <3>1, <3>2, AppendProperties, LenProperties
    <3>4. s = <<>>
      BY <3>3, EmptySeq
    <3>. QED  BY <3>2, <3>4
  <2>2. after = Remember(h, a)
    <3>. HIDE DEF after
    <3>1. Remembering!Looped(0, h, Append(s, a))
            = RememberAt(0, Remembering!Looped(0, h, s), a)
      BY Remembering!LoopOfAppend
    <3>2. Remembering!Looped(0, h, s) = h
      BY <2>1, Remembering!LoopOfNothing
    <3>. QED  BY <1>3, <2>1, <3>1, <3>2 DEF RememberAt
  <2>. QED  BY <1>2, <1>5, <2>2, RememberKeeps
<1>. QED  BY <1>4, <1>5

----------------------------------------------------------------------------
(***************************************************************************)
(* What is broadcast.                                                      *)
(***************************************************************************)

\* What is broadcast moves no cursor before the text, and what a user types is no
\* undo.
Broadcastable == {a \in Action : IsCursor(a) => a.location \in Nat}
TypedAction   == {a \in Broadcastable : ~a.isUndo}

LEMMA WireType ==
  ASSUME NEW c \in Client, NEW a \in Broadcastable
  PROVE  /\ OnTheWire(c, a) \in WireAction
         /\ OnTheWire(c, a).user = c
         /\ OnTheWire(c, a).isUndo => a.isUndo
<1>1. <<>> \in Text /\ a \in Action /\ (IsCursor(a) => a.location \in Nat)
  BY EmptySeq DEF Text, Broadcastable
<1>2. CASE IsCursor(a)
  BY <1>1, <1>2
  DEF OnTheWire, CursorAction, WireAction, SentAction, Action, EditType, User, IsCursor
<1>3. CASE ~IsCursor(a)
  BY <1>1, <1>3 DEF OnTheWire, WireAction, SentAction, Action, EditType, User, IsCursor
<1>. QED  BY <1>2, <1>3

LEMMA WireSeries ==
  ASSUME NEW c \in Client, NEW series \in Seq(Broadcastable)
  PROVE  LET event == OnTheWireAll(c, series)
         IN /\ event \in Seq(WireAction)
            /\ Len(event) = Len(series)
            /\ DOMAIN event = DOMAIN series
            /\ \A j \in DOMAIN event : event[j] = OnTheWire(c, series[j])
<1>1. Len(series) \in Nat /\ DOMAIN series = 1 .. Len(series)
  BY LenProperties
<1>2. \A j \in 1 .. Len(series) : OnTheWire(c, series[j]) \in WireAction
  BY ElementOfSeq, WireType
<1>. DEFINE event == [j \in 1 .. Len(series) |-> OnTheWire(c, series[j])]
<1>3. event \in Seq(WireAction)
  BY <1>1, <1>2, IsASeq
<1>4. OnTheWireAll(c, series) = event
  BY <1>1 DEF OnTheWireAll
<1>5. Len(event) = Len(series)
  BY <1>1, <1>3, LenProperties
<1>. QED  BY <1>1, <1>3, <1>4, <1>5

LEMMA TypedEvent ==
  ASSUME NEW c \in Client, NEW series \in Seq(Broadcastable),
         c # Me \/ series \in Seq(TypedAction)
  PROVE  /\ OnTheWireAll(c, series) \in Events
         /\ ~UndoesOwn(OnTheWireAll(c, series))
<1>. DEFINE event == OnTheWireAll(c, series)
<1>1. /\ event \in Seq(WireAction) /\ DOMAIN event = DOMAIN series
      /\ \A j \in DOMAIN event : event[j] = OnTheWire(c, series[j])
      /\ DOMAIN series = 1 .. Len(series)
  BY WireSeries, LenProperties
<1>. HIDE DEF event
<1>2. ASSUME NEW j \in DOMAIN event
      PROVE  ~(event[j].user = Me /\ event[j].isUndo)
  <2>1. series[j] \in Broadcastable /\ event[j] = OnTheWire(c, series[j])
    BY <1>1, ElementOfSeq
  <2>2. event[j].user = c /\ (event[j].isUndo => series[j].isUndo)
    BY <2>1, WireType
  <2>3. series \in Seq(TypedAction) => ~series[j].isUndo
    <3>1. series \in Seq(TypedAction) => series[j] \in TypedAction
      BY <1>1, ElementOfSeq
    <3>. QED  BY <3>1 DEF TypedAction
  <2>. QED  BY <2>2, <2>3
<1>3. ~UndoesOwn(event)
  BY <1>2 DEF UndoesOwn
<1>. QED  BY <1>1, <1>3 DEF Events, event

LEMMA TakingBackEvent ==
  ASSUME NEW e \in Entry
  PROVE  /\ OnTheWireAll(Me, <<UndoAction(e)>>) \in Events
         /\ OnTheWireAll(Me, <<RedoAction(e)>>) \in Events
         /\ ~UndoesOwn(OnTheWireAll(Me, <<RedoAction(e)>>))
<1>1. /\ e.user \in User /\ e.text \in Text /\ e.location \in Int /\ e.length \in Int
      /\ Len(e.text) \in Int
  BY LenProperties DEF Entry, SentAction, Action, Text
<1>2. Inverted(e) \in Broadcastable /\ Inverted(e).isUndo = FALSE
  <2>. DEFINE n == Len(e.text)
              right == e.location + n
              left == e.location - e.length
  <2>1. n \in Int /\ right \in Int /\ left \in Int
    BY <1>1
  <2>2. Inverted(e) = IF e.type = "INSERT"
                      THEN [TextAction(e.user, e.text, "REMOVE")
                              EXCEPT !.location = right, !.length = n]
                      ELSE [TextAction(e.user, e.text, "INSERT") EXCEPT !.location = left]
    BY DEF Inverted
  <2>. HIDE DEF n, right, left
  <2>3. /\ TextAction(e.user, e.text, "REMOVE") \in TypedAction
        /\ TextAction(e.user, e.text, "INSERT") \in TypedAction
    BY <1>1 DEF TextAction, TypedAction, Broadcastable, IsCursor, Action, EditType
  <2>4. \A typed \in TypedAction : ~IsCursor(typed) =>
          /\ [typed EXCEPT !.location = right, !.length = n] \in TypedAction
          /\ [typed EXCEPT !.location = left] \in TypedAction
    BY <2>1 DEF TypedAction, Broadcastable, IsCursor, Action
  <2>5. Inverted(e) \in TypedAction
    <3>1. /\ ~IsCursor(TextAction(e.user, e.text, "REMOVE"))
          /\ ~IsCursor(TextAction(e.user, e.text, "INSERT"))
      BY DEF TextAction, IsCursor
    <3>. QED  BY <2>2, <2>3, <2>4, <3>1
  <2>. QED  BY <2>5 DEF TypedAction, Broadcastable, Action
<1>3. /\ UndoAction(e) \in Broadcastable
      /\ RedoAction(e) \in Broadcastable /\ RedoAction(e).isUndo = FALSE
  BY <1>2 DEF UndoAction, RedoAction, Broadcastable, IsCursor, Action
<1>4. RedoAction(e) \in TypedAction
  BY <1>3 DEF TypedAction
<1>5. Me \in Client
  BY MeAssumption
<1>. HIDE DEF UndoAction
<1>6. /\ <<UndoAction(e)>> \in Seq(Broadcastable) /\ Len(<<UndoAction(e)>>) = 1
      /\ <<RedoAction(e)>> \in Seq(Broadcastable) /\ <<RedoAction(e)>> \in Seq(TypedAction)
  BY <1>3, <1>4
<1>7. OnTheWireAll(Me, <<UndoAction(e)>>) \in Events
  BY <1>5, <1>6, WireSeries DEF Events
<1>. QED  BY <1>5, <1>6, <1>7, TypedEvent

----------------------------------------------------------------------------
(***************************************************************************)
(* The own undos that are under way.                                       *)
(***************************************************************************)

UndosIn(events) == {i \in DOMAIN events : UndoesOwn(events[i])}

LEMMA UndosAreFinite ==
  ASSUME NEW events \in Seq(Events)
  PROVE  IsFiniteSet(UndosIn(events)) /\ Cardinality(UndosIn(events)) \in Nat
<1>1. Len(events) \in Nat /\ DOMAIN events = 1 .. Len(events)
  BY LenProperties
<1>2. IsFiniteSet(1 .. Len(events)) /\ UndosIn(events) \in SUBSET (1 .. Len(events))
  BY <1>1, FS_Interval DEF UndosIn
<1>. QED  BY <1>2, FS_Subset, FS_CardinalityType

LEMMA UndosOfAppend ==
  ASSUME NEW events \in Seq(Events), NEW event \in Events
  PROVE  Cardinality(UndosIn(Append(events, event)))
           = Cardinality(UndosIn(events)) + (IF UndoesOwn(event) THEN 1 ELSE 0)
<1>. DEFINE more == Append(events, event)
            n == Len(events)
<1>1. /\ n \in Nat /\ DOMAIN events = 1 .. n
      /\ more \in Seq(Events) /\ Len(more) = n + 1 /\ more[n + 1] = event
      /\ \A i \in 1 .. n : more[i] = events[i]
  BY AppendProperties, LenProperties
<1>. HIDE DEF more, n
<1>2. DOMAIN more = 1 .. n + 1
  BY <1>1, LenProperties
<1>3. n + 1 \notin UndosIn(events)
  BY <1>1 DEF UndosIn
<1>4. UndosIn(more) = IF UndoesOwn(event) THEN UndosIn(events) \cup {n + 1}
                                         ELSE UndosIn(events)
  <2>1. ASSUME NEW i \in 1 .. n + 1
        PROVE  i \in UndosIn(more) <=>
                 IF i = n + 1 THEN UndoesOwn(event) ELSE i \in UndosIn(events)
    <3>1. CASE i = n + 1
      BY <1>1, <1>2, <3>1 DEF UndosIn
    <3>2. CASE i # n + 1
      <4>1. i \in 1 .. n
        BY <1>1, <3>2
      <4>. QED  BY <1>1, <1>2, <3>2, <4>1 DEF UndosIn
    <3>. QED  BY <3>1, <3>2
  <2>2. UndosIn(more) \subseteq 1 .. n + 1 /\ UndosIn(events) \subseteq 1 .. n + 1
    BY <1>1, <1>2 DEF UndosIn
  <2>3. n + 1 \in 1 .. n + 1
    BY <1>1
  <2>. QED  BY <1>3, <2>1, <2>2, <2>3
<1>5. IsFiniteSet(UndosIn(events)) /\ Cardinality(UndosIn(events)) \in Nat
  BY UndosAreFinite
<1>6. Cardinality(UndosIn(events) \cup {n + 1}) = Cardinality(UndosIn(events)) + 1
  BY <1>3, <1>5, FS_AddElement
<1>. QED  BY <1>4, <1>5, <1>6 DEF more

LEMMA UndosOfTail ==
  ASSUME NEW events \in Seq(Events), events # <<>>
  PROVE  Cardinality(UndosIn(Tail(events))) + (IF UndoesOwn(Head(events)) THEN 1 ELSE 0)
           <= Cardinality(UndosIn(events))
<1>. DEFINE rest == Tail(events)
            n == Len(events)
            later == UndosIn(events) \ {1}
            f == [i \in UndosIn(rest) |-> i + 1]
<1>1. /\ n \in Nat /\ n > 0 /\ DOMAIN events = 1 .. n
      /\ rest \in Seq(Events) /\ Len(rest) = n - 1
      /\ \A i \in 1 .. n - 1 : rest[i] = events[i + 1]
  BY HeadTailProperties, LenProperties, EmptySeq
<1>2. Head(events) = events[1]
  OBVIOUS
<1>. HIDE DEF rest, n
<1>3. DOMAIN rest = 1 .. n - 1
  BY <1>1, LenProperties
<1>4. ASSUME NEW i \in UndosIn(rest)
      PROVE  i + 1 \in later
  <2>1. i \in 1 .. n - 1 /\ UndoesOwn(rest[i])
    BY <1>3 DEF UndosIn
  <2>2. i + 1 \in 1 .. n /\ i + 1 # 1 /\ rest[i] = events[i + 1]
    BY <1>1, <2>1
  <2>. QED  BY <1>1, <2>1, <2>2 DEF UndosIn
<1>5. UndosIn(rest) \subseteq Int
  BY <1>3 DEF UndosIn
<1>. HIDE DEF later
<1>6. f \in Injection(UndosIn(rest), later)
  <2>1. f \in [UndosIn(rest) -> later]
    BY <1>4
  <2>2. \A i, j \in UndosIn(rest) : f[i] = f[j] => i = j
    BY <1>5
  <2>. QED  BY <2>1, <2>2 DEF Injection, IsInjective
<1>7. IsFiniteSet(UndosIn(events)) /\ Cardinality(UndosIn(events)) \in Nat
  BY UndosAreFinite
<1>8. /\ IsFiniteSet(later)
      /\ Cardinality(later) = IF 1 \in UndosIn(events)
                              THEN Cardinality(UndosIn(events)) - 1
                              ELSE Cardinality(UndosIn(events))
  BY <1>7, FS_RemoveElement DEF later
<1>9. Cardinality(UndosIn(rest)) <= Cardinality(later)
  BY <1>6, <1>8, FS_Injection
<1>10. 1 \in UndosIn(events) <=> UndoesOwn(Head(events))
  BY <1>1, <1>2 DEF UndosIn
<1>11. Cardinality(UndosIn(rest)) \in Nat
  BY <1>1, UndosAreFinite
<1>. QED  BY <1>7, <1>8, <1>9, <1>10, <1>11 DEF rest

----------------------------------------------------------------------------
(***************************************************************************)
(* What a user can type, and the document it is typed into.                *)
(***************************************************************************)

LEMMA EditsOfType ==
  ASSUME NEW u \in Client, NEW d \in Document, NEW series \in EditsOf(u, d)
  PROVE  series \in Seq(Broadcastable)
<1>0. PICK location \in 0 .. Len(d.text) :
        \E edits \in TextEdits(d, location) : series = MovesTo(d, u, location) \o edits
  BY DEF EditsOf
<1>1. PICK edits \in TextEdits(d, location) : series = MovesTo(d, u, location) \o edits
  BY <1>0
<1>2. d.text \in Text /\ Len(d.text) \in Nat /\ <<>> \in Text /\ NoUser \in User
  BY LenProperties, EmptySeq DEF Document, Text, User
<1>3. \A text \in Text, type \in {"INSERT", "REMOVE"} :
        TextAction(NoUser, text, type) \in Broadcastable
  BY <1>2 DEF TextAction, Broadcastable, IsCursor, Action, EditType
<1>4. Insertions \subseteq Broadcastable
  BY <1>3, TypedAssumption DEF Insertions
<1>5. ASSUME NEW edit \in Removals(d, location)
      PROVE  edit \in Broadcastable
  <2>1. PICK n \in 1 .. Min({MaxRemoved, location}) :
          edit = TextAction(NoUser, Substring(d.text, location - n, n), "REMOVE")
    BY DEF Removals
  <2>2. n \in Nat /\ n <= location
    <3>1. Min({MaxRemoved, location}) <= location /\ Min({MaxRemoved, location}) \in Int
      <4>1. MaxRemoved \in Int /\ location \in Int
        BY BoundsAssumption
      <4>. QED  BY <4>1, MinOfTwo
    <3>. QED  BY <3>1
  <2>3. InRange(d.text, location - n, n) /\ location - n \in Int
    BY <1>2, <2>2 DEF InRange
  <2>4. Substring(d.text, location - n, n) \in Text
    BY <1>2, <2>2, <2>3, SubstringElements
  <2>. QED  BY <1>3, <2>1, <2>4
<1>6. edits \in Seq(Broadcastable)
  <2>1. \/ \E edit \in Insertions \cup Removals(d, location) : edits = <<edit>>
        \/ \E removal \in Removals(d, location), insertion \in Insertions :
             edits = <<removal, insertion>>
    BY DEF TextEdits
  <2>2. /\ \A a \in Broadcastable : <<a>> \in Seq(Broadcastable)
        /\ \A a, b \in Broadcastable : <<a, b>> \in Seq(Broadcastable)
    OBVIOUS
  <2>. QED  BY <1>4, <1>5, <2>1, <2>2
<1>7. MovesTo(d, u, location) \in Seq(Broadcastable)
  <2>1. CursorAction(location, NoUser) \in Broadcastable
    BY <1>2 DEF CursorAction, Broadcastable, IsCursor, Action, EditType
  <2>. QED  BY <2>1, EmptySeq DEF MovesTo
<1>. QED  BY <1>1, <1>6, <1>7, ConcatProperties

Rendered(p, r, a) == RenderAt(Me, r, a)

Rendering == INSTANCE FoldProofs WITH Step <- Rendered

RenderedEvent(p, r, event) == FoldLeft(LAMBDA s, a : RenderAt(Me, s, a), r, event)

RenderingEvents == INSTANCE FoldProofs WITH Step <- RenderedEvent

LEMMA RenderedEventType ==
  ASSUME NEW r \in Replicas, NEW event \in Events
  PROVE  RenderedEvent(0, r, event) \in Replicas
<1>1. \A s \in Replicas, a \in WireAction : Rendered(0, s, a) \in Replicas
  BY RenderAtType DEF Rendered
<1>2. event \in Seq(WireAction)
  BY DEF Events
<1>3. Rendering!Looped(0, r, event) \in Replicas
  BY <1>1, <1>2, Rendering!LoopInvariant
<1>4. RenderedEvent(0, r, event) = Rendering!Looped(0, r, event)
  BY DEF RenderedEvent, Rendering!Looped, Rendered, FoldLeft, Rendering!FoldLeft,
         MapThenFoldSet, Rendering!MapThenFoldSet, Max, Rendering!Max
<1>. QED  BY <1>3, <1>4

LEMMA DocumentAheadType ==
  ASSUME replica \in Replicas, arriving \in Seq(Events), NEW n \in 0 .. Len(arriving)
  PROVE  DocumentAhead(n) \in Document
<1>. DEFINE first == SubSeq(arriving, 1, n)
<1>1. first \in Seq(Events)
  <2>1. \A i \in 1 .. n : arriving[i] \in Events
    BY ElementOfSeq
  <2>. QED  BY <2>1, SubSeqProperties
<1>. HIDE DEF first
<1>2. \A r \in Replicas, event \in Events : RenderedEvent(0, r, event) \in Replicas
  BY RenderedEventType
<1>3. RenderingEvents!Looped(0, replica, first) \in Replicas
  BY <1>1, <1>2, RenderingEvents!LoopInvariant
<1>4. DocumentAhead(n) = RenderingEvents!Looped(0, replica, first).doc
  BY DEF DocumentAhead, RenderingEvents!Looped, RenderedEvent, FoldLeft,
         RenderingEvents!FoldLeft, MapThenFoldSet, RenderingEvents!MapThenFoldSet,
         Max, RenderingEvents!Max, first
<1>. QED  BY <1>3, <1>4 DEF Replicas

----------------------------------------------------------------------------
(***************************************************************************)
(* The inductive invariant.  What can be redone is bounded together with   *)
(* the own undos that are under way: each may yet become an entry of the   *)
(* redo stack, and only it.                                                *)
(***************************************************************************)

UndoTypeOK ==
  /\ replica \in Replicas
  /\ IsTextView(ui) /\ ui.sent = <<>>
  /\ arriving \in Seq(Events)
  /\ ghost \in [before : Befores, tied : BOOLEAN, redoable : Int]

CursorInText == ~replica.ended => InText(replica.doc)

EntriesStayNamed == ~replica.ended /\ ~ghost.tied => StacksNamed(replica)

LastCanBeTakenBack == LastOnTop(ghost.before, replica)

RedoableCoversUndos ==
  Len(replica.redoStack) + Cardinality(UndosIn(arriving)) <= ghost.redoable

UndoInv ==
  /\ UndoTypeOK
  /\ CursorInText
  /\ EntriesStayNamed
  /\ LastCanBeTakenBack
  /\ RedoableCoversUndos

LEMMA UndosUnderWayIsUndosIn == UndosUnderWay = Cardinality(UndosIn(arriving))
BY DEF UndosUnderWay, UndosIn, UndoesOwn

LEMMA InitEstablishesUndoInv == Init => UndoInv
<1>. SUFFICES ASSUME Init PROVE UndoInv
  OBVIOUS
<1>1. /\ <<>> \in Seq(Entry)
      /\ <<>> \in Seq(Events) /\ <<>> \in Text /\ Len(<<>>) = 0
      /\ \A text : <<>> \in Seq(NamedIn(text))
  BY EmptySeq DEF Text
<1>2. EmptyDocument \in Document
  BY <1>1 DEF EmptyDocument, Document, CursorMap
<1>3. replica \in Replicas /\ StacksNamed(replica) /\ replica.redoStack = <<>>
  BY <1>1, <1>2 DEF Init, FreshReplica, Replicas, StacksNamed
<1>4. /\ ghost \in [before : Befores, tied : BOOLEAN, redoable : Int]
      /\ ghost.before = <<>> /\ ghost.redoable = 0
  BY DEF Init, Befores
<1>5. UndosIn(arriving) = {}
  <2>1. DOMAIN <<>> = {}
    OBVIOUS
  <2>. QED  BY <2>1 DEF Init, UndosIn
<1>6. RedoableCoversUndos
  BY <1>1, <1>3, <1>4, <1>5, FS_EmptySet DEF RedoableCoversUndos
<1>7. IsTextView(ui) /\ ui.sent = <<>>
  BY FreshIsTextView DEF Init, FreshTextView
<1>8. UndoTypeOK
  BY <1>1, <1>3, <1>4, <1>7 DEF Init, UndoTypeOK
<1>9. CursorInText
  BY MeAssumption DEF Init, FreshReplica, EmptyDocument, CursorInText, InText
<1>. QED
  BY <1>3, <1>4, <1>6, <1>8, <1>9
  DEF UndoInv, EntriesStayNamed, LastCanBeTakenBack, LastOnTop

\* What is sent is counted if it is an own undo, and lost if the broadcast fails.
LEMMA SendingCounts ==
  ASSUME UndoTypeOK, NEW u \in Client, NEW series,
         OnTheWireAll(u, series) \in Events,
         Broadcast(u, series) \/ UNCHANGED <<sent, arriving>>
  PROVE  /\ arriving' \in Seq(Events)
         /\ Cardinality(UndosIn(arriving')) \in Nat
         /\ Cardinality(UndosIn(arriving)) \in Nat
         /\ Cardinality(UndosIn(arriving'))
              <= Cardinality(UndosIn(arriving))
                   + (IF UndoesOwn(OnTheWireAll(u, series)) THEN 1 ELSE 0)
<1>. DEFINE event == OnTheWireAll(u, series)
<1>1. arriving \in Seq(Events) /\ event \in Events
  BY DEF UndoTypeOK
<1>2. arriving' = Append(arriving, event) \/ arriving' = arriving
  BY DEF Broadcast
<1>. HIDE DEF event
<1>3. arriving' \in Seq(Events)
  BY <1>1, <1>2, AppendProperties
<1>4. Cardinality(UndosIn(arriving)) \in Nat /\ Cardinality(UndosIn(arriving')) \in Nat
  BY <1>1, <1>3, UndosAreFinite
<1>5. CASE arriving' = Append(arriving, event)
  <2>1. Cardinality(UndosIn(Append(arriving, event)))
          = Cardinality(UndosIn(arriving)) + (IF UndoesOwn(event) THEN 1 ELSE 0)
    BY <1>1, UndosOfAppend
  <2>. QED  BY <1>3, <1>4, <1>5, <2>1 DEF event
<1>6. CASE arriving' = arriving
  BY <1>3, <1>4, <1>6
<1>. QED  BY <1>2, <1>5, <1>6

\* A turn of the main thread sends one series at most, and it holds no undo.
LEMMA TurnSends ==
  ASSUME UndoTypeOK, NEW u, IsTextView(u), IsSent(u.sent), Turn(u)
  PROVE  /\ IsTextView(ui') /\ ui'.sent = <<>>
         /\ arriving' \in Seq(Events)
         /\ Cardinality(UndosIn(arriving')) \in Nat
         /\ Cardinality(UndosIn(arriving)) \in Nat
         /\ Cardinality(UndosIn(arriving')) <= Cardinality(UndosIn(arriving))
         /\ u.sent = <<>> => arriving' = arriving
<1>1. IsTextView(ui') /\ ui'.sent = <<>>
  BY DEF Turn, IsTextView, Fields
<1>2. CASE u.sent = <<>>
  <2>1. arriving' = arriving /\ arriving \in Seq(Events)
    BY <1>2 DEF Turn, UndoTypeOK
  <2>2. Cardinality(UndosIn(arriving)) \in Nat
    BY <2>1, UndosAreFinite
  <2>. QED  BY <1>1, <2>1, <2>2
<1>3. CASE u.sent # <<>>
  <2>1. PICK series \in Seq(LocalEdit) : u.sent = <<series>>
    BY <1>3 DEF IsSent
  <2>2. Broadcast(Me, series) \/ UNCHANGED <<sent, arriving>>
    BY <1>3, <2>1 DEF Turn, SendActions
  <2>3. LocalEdit \subseteq TypedAction /\ TypedAction \subseteq Broadcastable
    BY DEF LocalEdit, TypedAction, Broadcastable
  <2>4. series \in Seq(TypedAction) /\ series \in Seq(Broadcastable)
    BY <2>3, SeqMonotonic
  <2>5. Me \in Client
    BY MeAssumption
  <2>6. OnTheWireAll(Me, series) \in Events /\ ~UndoesOwn(OnTheWireAll(Me, series))
    BY <2>4, <2>5, TypedEvent
  <2>7. /\ arriving' \in Seq(Events)
        /\ Cardinality(UndosIn(arriving')) \in Nat /\ Cardinality(UndosIn(arriving)) \in Nat
        /\ Cardinality(UndosIn(arriving')) <= Cardinality(UndosIn(arriving))
                                              + (IF UndoesOwn(OnTheWireAll(Me, series))
                                                 THEN 1 ELSE 0)
    BY <2>2, <2>5, <2>6, SendingCounts
  <2>. QED  BY <1>1, <1>3, <2>6, <2>7
<1>. QED  BY <1>2, <1>3

\* What the callbacks are called with.
LEMMA DelegateIsTextView ==
  ASSUME UndoTypeOK
  PROVE  /\ IsTextView(Delegate) /\ Delegate.sent = <<>>
         /\ Delegate.redoStack = replica.redoStack
         /\ Delegate.currentEdit = ui.currentEdit /\ Delegate.text = ui.text
         /\ Delegate.crashed = ui.crashed
BY DEF UndoTypeOK, Delegate, IsTextView, Fields

\* A turn that leaves the redo stack alone.
LEMMA TurnKeepsUndoInv ==
  ASSUME UndoInv, NEW u, IsTextView(u), IsSent(u.sent), u.redoStack = replica.redoStack,
         Turn(u), UNCHANGED ghost
  PROVE  UndoInv'
<1>1. /\ UndoTypeOK /\ replica \in Replicas /\ Len(replica.redoStack) \in Nat
      /\ ghost.redoable \in Int /\ RedoableCoversUndos
  BY LenProperties DEF UndoInv, UndoTypeOK, Replicas
<1>2. /\ IsTextView(ui') /\ ui'.sent = <<>> /\ arriving' \in Seq(Events)
      /\ Cardinality(UndosIn(arriving')) \in Nat /\ Cardinality(UndosIn(arriving)) \in Nat
      /\ Cardinality(UndosIn(arriving')) <= Cardinality(UndosIn(arriving))
  BY <1>1, TurnSends
<1>3. replica' = replica /\ ghost' = ghost
  BY <1>1 DEF Turn, Replicas
<1>4. RedoableCoversUndos'
  BY <1>1, <1>2, <1>3 DEF RedoableCoversUndos
<1>5. UndoTypeOK'
  BY <1>1, <1>2, <1>3 DEF UndoTypeOK
<1>6. CursorInText' /\ EntriesStayNamed' /\ LastCanBeTakenBack'
  BY <1>3 DEF UndoInv, CursorInText, EntriesStayNamed, LastCanBeTakenBack
<1>. QED  BY <1>4, <1>5, <1>6 DEF UndoInv

\* A turn that clears it: what is under way is all that can come back to it.
LEMMA ClearingKeepsUndoInv ==
  ASSUME UndoInv, NEW u, IsTextView(u), u.sent = <<>>, u.redoStack = <<>>,
         Turn(u), Acts(UndosUnderWay)
  PROVE  UndoInv'
<1>1. /\ UndoTypeOK /\ replica \in Replicas /\ arriving \in Seq(Events)
      /\ ghost \in [before : Befores, tied : BOOLEAN, redoable : Int]
      /\ ~replica.ended /\ ~ghost.tied => StacksNamed(replica)
      /\ CursorInText
  BY DEF UndoInv, UndoTypeOK, EntriesStayNamed
<1>2. /\ replica' = [replica EXCEPT !.redoStack = <<>>] /\ arriving' = arriving
      /\ ghost' = [ghost EXCEPT !.before = <<>>, !.redoable = UndosUnderWay]
  BY DEF Turn, Acts
<1>3. IsTextView(ui') /\ ui'.sent = <<>>
  BY <1>1, TurnSends DEF IsSent
<1>4. Cardinality(UndosIn(arriving)) \in Nat
  BY <1>1, UndosAreFinite
<1>. DEFINE n == Cardinality(UndosIn(arriving))
<1>5. ghost' = [ghost EXCEPT !.before = <<>>, !.redoable = n]
  BY <1>2, UndosUnderWayIsUndosIn
<1>6. <<>> \in Seq(Entry) /\ <<>> \in Seq(NamedIn(replica.doc.text)) /\ Len(<<>>) = 0
  BY EmptySeq
<1>7. /\ replica' \in Replicas /\ replica'.redoStack = <<>>
      /\ replica'.doc = replica.doc /\ replica'.ended = replica.ended
      /\ replica'.undoStack = replica.undoStack
  BY <1>1, <1>2, <1>6 DEF Replicas
<1>8. Cardinality(UndosIn(arriving')) = n
  BY <1>2
<1>. HIDE DEF n
<1>9. /\ ghost' \in [before : Befores, tied : BOOLEAN, redoable : Int]
      /\ ghost'.before = <<>> /\ ghost'.tied = ghost.tied /\ ghost'.redoable = n
  <2>1. n \in Int
    BY <1>4 DEF n
  <2>2. <<>> \in Befores
    BY DEF Befores
  <2>. QED  BY <1>1, <1>5, <2>1, <2>2
<1>10. UndoTypeOK'
  BY <1>1, <1>2, <1>3, <1>7, <1>9 DEF UndoTypeOK
<1>11. EntriesStayNamed' /\ CursorInText'
  BY <1>1, <1>6, <1>7, <1>9 DEF EntriesStayNamed, StacksNamed, CursorInText
<1>12. LastCanBeTakenBack'
  BY <1>9 DEF LastCanBeTakenBack, LastOnTop
<1>13. RedoableCoversUndos'
  BY <1>4, <1>6, <1>7, <1>8, <1>9 DEF RedoableCoversUndos, n
<1>. QED  BY <1>10, <1>11, <1>12, <1>13 DEF UndoInv

\* Input that is held back leaves the redo stack alone, any other clears it.
LEMMA InputKeepsUndoInv ==
  ASSUME UndoInv, Type \/ PressBackspace
  PROVE  UndoInv'
<1>1. PICK u \in {TypeText(Delegate, text) : text \in Text} \cup {Backspace(Delegate)} :
        Input(u)
  BY TypedAssumption DEF Type, PressBackspace
<1>2. /\ UndoTypeOK /\ IsTextView(Delegate) /\ Delegate.sent = <<>>
      /\ Delegate.redoStack = replica.redoStack /\ Delegate.currentEdit = ui.currentEdit
  BY DelegateIsTextView DEF UndoInv
<1>. HIDE DEF Delegate
<1>3. /\ IsTextView(u) /\ Alike(Delegate, u)
      /\ RecordsNothing(Delegate, u) \/ ClearsRedo(Delegate, u)
  BY <1>1, <1>2, PressingRecords
<1>4. u.sent = <<>> /\ IsSent(u.sent)
  BY <1>2, <1>3 DEF Alike, IsSent
<1>5. CASE RecordsNothing(Delegate, u)
  <2>1. u.redoStack = replica.redoStack /\ u.currentEdit = ui.currentEdit
    BY <1>2, <1>5 DEF RecordsNothing
  <2>2. Turn(u) /\ UNCHANGED ghost
    BY <1>1, <2>1 DEF Input
  <2>. QED  BY <1>3, <1>4, <2>1, <2>2, TurnKeepsUndoInv
<1>6. CASE ClearsRedo(Delegate, u)
  <2>1. u.redoStack = <<>> /\ u.currentEdit # ui.currentEdit
    BY <1>2, <1>6 DEF ClearsRedo
  <2>2. Turn(u) /\ Acts(UndosUnderWay)
    BY <1>1, <2>1 DEF Input
  <2>. QED  BY <1>3, <1>4, <2>1, <2>2, ClearingKeepsUndoInv
<1>. QED  BY <1>3, <1>5, <1>6

LEMMA TapKeepsUndoInv ==
  ASSUME UndoInv, ~ui.crashed, Tap
  PROVE  UndoInv'
<1>1. PICK location \in 0 .. Len(ui.text) :
        Turn(Select(Delegate, location, 0)) /\ UNCHANGED ghost
  BY DEF Tap
<1>2. /\ UndoTypeOK /\ IsTextView(Delegate) /\ Delegate.sent = <<>>
      /\ Delegate.redoStack = replica.redoStack /\ Delegate.text = ui.text
      /\ ~Delegate.crashed
  BY DelegateIsTextView DEF UndoInv
<1>3. Len(ui.text) \in Nat
  BY <1>2, LenProperties DEF UndoTypeOK, IsTextView, Text
<1>4. location \in Nat /\ InRange(Delegate.text, location, 0)
  BY <1>2, <1>3 DEF InRange
<1>. DEFINE u == Select(Delegate, location, 0)
<1>. HIDE DEF Delegate
<1>5. IsTextView(u) /\ IsSent(u.sent) /\ u.redoStack = replica.redoStack
  BY <1>2, <1>4, SelectingRecords
<1>. HIDE DEF u
<1>. QED  BY <1>1, <1>5, TurnKeepsUndoInv DEF u

LEMMA TimerFiresKeepsUndoInv ==
  ASSUME UndoInv, TimerFires
  PROVE  UndoInv'
<1>. DEFINE u == TimerFired(Delegate)
<1>1. Turn(u) /\ UNCHANGED ghost
  BY DEF TimerFires
<1>2. /\ UndoTypeOK /\ IsTextView(Delegate) /\ Delegate.sent = <<>>
      /\ Delegate.redoStack = replica.redoStack
  BY DelegateIsTextView DEF UndoInv
<1>. HIDE DEF Delegate
<1>3. IsTextView(u) /\ IsSent(u.sent) /\ u.redoStack = replica.redoStack
  <2>1. CASE Delegate.currentEdit = <<>>
    <3>1. u = [Delegate EXCEPT !.timer = FALSE]
      BY <1>2, <2>1 DEF TimerFired, MergeCurrentEdit, IsTextView, Fields
    <3>2. IsTextView(u) /\ u.sent = <<>> /\ u.redoStack = Delegate.redoStack
      BY <1>2, <3>1 DEF IsTextView, Fields
    <3>. QED  BY <1>2, <3>2 DEF IsSent
  <2>2. CASE Delegate.currentEdit # <<>>
    BY <1>2, <2>2, TimerSendsAll
  <2>. QED  BY <2>1, <2>2
<1>. HIDE DEF u
<1>. QED  BY <1>1, <1>3, TurnKeepsUndoInv

\* What is held back is recorded by the block, and neither the stacks nor the memory
\* take notice.
LEMMA RunBlockKeepsUndoInv ==
  ASSUME UndoInv, ~replica.ended, ~ui.crashed, RunBlock
  PROVE  UndoInv'
<1>1. UndoTypeOK /\ IsTextView(ui) /\ ui.sent = <<>> /\ replica \in Replicas
  BY DEF UndoInv, UndoTypeOK
<1>2. ui' = ShowDocument(ui, replica.doc, Me) /\ UNCHANGED <<replica, arriving, ghost>>
  BY DEF RunBlock
<1>3. /\ replica.doc \in Document /\ Me \in Client
      /\ replica.doc.cursors[Me] = NoCursor \/ replica.doc.cursors[Me] >= 0
  BY <1>1, MeAssumption DEF Replicas, UndoInv, CursorInText, InText
<1>4. IsTextView(ui') /\ ui'.sent = <<>>
  BY <1>1, <1>2, <1>3, ShowingDocument
<1>5. UndoTypeOK'
  BY <1>1, <1>2, <1>4 DEF UndoTypeOK
<1>. QED
  BY <1>2, <1>5 DEF UndoInv, CursorInText, EntriesStayNamed, LastCanBeTakenBack,
                    RedoableCoversUndos

\* What undo and redo leave of a stack.
LEMMA StackWithoutTop ==
  ASSUME NEW S, NEW stack \in Seq(S), stack # <<>>
  PROVE  /\ Front(stack) \in Seq(S) /\ Len(Front(stack)) = Len(stack) - 1
         /\ Last(stack) \in S
<1>1. Len(stack) \in Nat /\ Len(stack) # 0 /\ Len(stack) \in Nat \ {0}
  BY LenProperties, EmptySeq
<1>2. \A i \in 1 .. Len(stack) - 1 : stack[i] \in S
  BY <1>1, ElementOfSeq
<1>. DEFINE n == Len(stack) - 1
<1>3. Front(stack) \in Seq(S) /\ Len(Front(stack)) = n
  <2>1. n \in Nat /\ n - 1 + 1 = n /\ (~(1 <= n) => n = 0)
    <3>1. ASSUME NEW k \in Nat, k # 0
          PROVE  k - 1 \in Nat /\ (k - 1) - 1 + 1 = k - 1 /\ (~(1 <= k - 1) => k - 1 = 0)
      BY <3>1
    <3>. QED  BY <1>1, <3>1
  <2>. HIDE DEF n
  <2>2. /\ SubSeq(stack, 1, n) \in Seq(S)
        /\ Len(SubSeq(stack, 1, n)) = IF 1 <= n THEN n - 1 + 1 ELSE 0
    BY <1>2, <2>1, SubSeqProperties DEF n
  <2>. QED  BY <2>1, <2>2 DEF Front, n
<1>. QED  BY <1>1, <1>3, ElementOfSeq DEF Last

LEMMA UndoKeepsUndoInv ==
  ASSUME UndoInv, Undo
  PROVE  UndoInv'
<1>1. /\ UndoTypeOK /\ replica \in Replicas
      /\ replica.undoStack \in Seq(Entry) /\ replica.undoStack # <<>>
      /\ Len(replica.redoStack) \in Nat
      /\ ghost \in [before : Befores, tied : BOOLEAN, redoable : Int]
      /\ ghost.redoable \in Int /\ RedoableCoversUndos
  BY LenProperties DEF UndoInv, UndoTypeOK, Replicas, Undo
<1>. DEFINE series == <<UndoAction(Last(replica.undoStack))>>
            fewer == Front(replica.undoStack)
            redoable == ghost.redoable + 1
<1>2. /\ replica' = [replica EXCEPT !.undoStack = fewer]
      /\ ghost' = [ghost EXCEPT !.before = <<>>, !.redoable = redoable]
      /\ ui' = ui
      /\ Broadcast(Me, series) \/ UNCHANGED <<sent, arriving>>
  BY DEF Undo, SendActions, Acts
<1>3. OnTheWireAll(Me, series) \in Events
  <2>1. Last(replica.undoStack) \in Entry
    BY <1>1, StackWithoutTop
  <2>. QED  BY <2>1, TakingBackEvent
<1>4. /\ fewer \in Seq(Entry) /\ redoable \in Int
      /\ StacksNamed(replica) => fewer \in Seq(NamedIn(replica.doc.text))
  BY <1>1, StackWithoutTop DEF StacksNamed
<1>. HIDE DEF series, fewer
<1>5. /\ arriving' \in Seq(Events)
      /\ Cardinality(UndosIn(arriving')) \in Nat /\ Cardinality(UndosIn(arriving)) \in Nat
      /\ Cardinality(UndosIn(arriving')) <= Cardinality(UndosIn(arriving))
                                            + (IF UndoesOwn(OnTheWireAll(Me, series))
                                               THEN 1 ELSE 0)
  BY <1>1, <1>2, <1>3, SendingCounts, MeAssumption
<1>6. /\ replica' \in Replicas /\ replica'.redoStack = replica.redoStack
      /\ replica'.doc = replica.doc /\ replica'.ended = replica.ended
      /\ replica'.undoStack = fewer
  BY <1>1, <1>2, <1>4 DEF Replicas
<1>7. /\ ghost' \in [before : Befores, tied : BOOLEAN, redoable : Int]
      /\ ghost'.before = <<>> /\ ghost'.tied = ghost.tied /\ ghost'.redoable = redoable
  <2>. HIDE DEF redoable
  <2>. QED  BY <1>1, <1>2, <1>4 DEF Befores
<1>8. RedoableCoversUndos'
  BY <1>1, <1>5, <1>6, <1>7 DEF RedoableCoversUndos
<1>9. UndoTypeOK'
  BY <1>1, <1>2, <1>5, <1>6, <1>7 DEF UndoTypeOK
<1>10. EntriesStayNamed' /\ CursorInText'
  BY <1>4, <1>6, <1>7 DEF UndoInv, EntriesStayNamed, StacksNamed, CursorInText
<1>11. LastCanBeTakenBack'
  BY <1>7 DEF LastCanBeTakenBack, LastOnTop
<1>. QED  BY <1>8, <1>9, <1>10, <1>11 DEF UndoInv

LEMMA RedoKeepsUndoInv ==
  ASSUME UndoInv, Redo
  PROVE  UndoInv'
<1>1. /\ UndoTypeOK /\ replica \in Replicas
      /\ replica.redoStack \in Seq(Entry) /\ replica.redoStack # <<>>
      /\ Len(replica.redoStack) \in Nat
      /\ ghost \in [before : Befores, tied : BOOLEAN, redoable : Int]
      /\ ghost.redoable \in Int /\ RedoableCoversUndos
  BY LenProperties DEF UndoInv, UndoTypeOK, Replicas, Redo
<1>. DEFINE series == <<RedoAction(Last(replica.redoStack))>>
            fewer == Front(replica.redoStack)
            redoable == ghost.redoable - 1
<1>2. /\ replica' = [replica EXCEPT !.redoStack = fewer]
      /\ ghost' = [ghost EXCEPT !.before = <<>>, !.redoable = redoable]
      /\ ui' = ui
      /\ Broadcast(Me, series) \/ UNCHANGED <<sent, arriving>>
  BY DEF Redo, SendActions, Acts
<1>3. OnTheWireAll(Me, series) \in Events /\ ~UndoesOwn(OnTheWireAll(Me, series))
  <2>1. Last(replica.redoStack) \in Entry
    BY <1>1, StackWithoutTop
  <2>. QED  BY <2>1, TakingBackEvent
<1>4. /\ fewer \in Seq(Entry) /\ redoable \in Int
      /\ Len(fewer) = Len(replica.redoStack) - 1
      /\ StacksNamed(replica) => fewer \in Seq(NamedIn(replica.doc.text))
  BY <1>1, StackWithoutTop DEF StacksNamed
<1>. HIDE DEF series, fewer
<1>5. /\ arriving' \in Seq(Events)
      /\ Cardinality(UndosIn(arriving')) \in Nat /\ Cardinality(UndosIn(arriving)) \in Nat
      /\ Cardinality(UndosIn(arriving')) <= Cardinality(UndosIn(arriving))
                                            + (IF UndoesOwn(OnTheWireAll(Me, series))
                                               THEN 1 ELSE 0)
  BY <1>1, <1>2, <1>3, SendingCounts, MeAssumption
<1>6. /\ replica' \in Replicas /\ replica'.redoStack = fewer
      /\ replica'.doc = replica.doc /\ replica'.ended = replica.ended
      /\ replica'.undoStack = replica.undoStack
  BY <1>1, <1>2, <1>4 DEF Replicas
<1>7. /\ ghost' \in [before : Befores, tied : BOOLEAN, redoable : Int]
      /\ ghost'.before = <<>> /\ ghost'.tied = ghost.tied /\ ghost'.redoable = redoable
  <2>. HIDE DEF redoable
  <2>. QED  BY <1>1, <1>2, <1>4 DEF Befores
<1>8. RedoableCoversUndos'
  BY <1>1, <1>3, <1>4, <1>5, <1>6, <1>7 DEF RedoableCoversUndos
<1>9. UndoTypeOK'
  BY <1>1, <1>2, <1>5, <1>6, <1>7 DEF UndoTypeOK
<1>10. EntriesStayNamed' /\ CursorInText'
  BY <1>4, <1>6, <1>7 DEF UndoInv, EntriesStayNamed, StacksNamed, CursorInText
<1>11. LastCanBeTakenBack'
  BY <1>7 DEF LastCanBeTakenBack, LastOnTop
<1>. QED  BY <1>8, <1>9, <1>10, <1>11 DEF UndoInv

LEMMA OthersEditKeepsUndoInv ==
  ASSUME UndoInv, OthersEdit
  PROVE  UndoInv'
<1>1. /\ UndoTypeOK /\ replica \in Replicas /\ Len(replica.redoStack) \in Nat
      /\ ghost.redoable \in Int /\ RedoableCoversUndos
  BY LenProperties DEF UndoInv, UndoTypeOK, Replicas
<1>2. UNCHANGED <<replica, ui, ghost>>
  BY DEF OthersEdit
<1>3. PICK u \in Client \ {Me}, n \in 0 .. Len(arriving) :
        \E series \in EditsOf(u, DocumentAhead(n)) : Broadcast(u, series)
  BY DEF OthersEdit
<1>4. PICK series \in EditsOf(u, DocumentAhead(n)) : Broadcast(u, series)
  BY <1>3
<1>5. DocumentAhead(n) \in Document
  BY <1>1, DocumentAheadType DEF UndoTypeOK
<1>6. series \in Seq(Broadcastable)
  <2>. DEFINE d == DocumentAhead(n)
  <2>. HIDE DEF d
  <2>1. d \in Document /\ series \in EditsOf(u, d) /\ u \in Client
    BY <1>5 DEF d
  <2>. QED  BY <2>1, EditsOfType
<1>7. OnTheWireAll(u, series) \in Events /\ ~UndoesOwn(OnTheWireAll(u, series))
  BY <1>6, TypedEvent
<1>8. /\ arriving' \in Seq(Events)
      /\ Cardinality(UndosIn(arriving')) \in Nat /\ Cardinality(UndosIn(arriving)) \in Nat
      /\ Cardinality(UndosIn(arriving')) <= Cardinality(UndosIn(arriving))
                                            + (IF UndoesOwn(OnTheWireAll(u, series))
                                               THEN 1 ELSE 0)
  BY <1>1, <1>4, <1>7, SendingCounts
<1>9. RedoableCoversUndos'
  BY <1>1, <1>2, <1>7, <1>8 DEF RedoableCoversUndos
<1>10. UndoTypeOK'
  BY <1>1, <1>2, <1>8 DEF UndoTypeOK
<1>11. CursorInText' /\ EntriesStayNamed' /\ LastCanBeTakenBack'
  BY <1>2 DEF UndoInv, CursorInText, EntriesStayNamed, LastCanBeTakenBack
<1>. QED  BY <1>9, <1>10, <1>11 DEF UndoInv

LEMMA RenderEventKeepsUndoInv ==
  ASSUME UndoInv, ~replica.ended, RenderEvent
  PROVE  UndoInv'
<1>1. /\ UndoTypeOK /\ replica \in Replicas /\ Len(replica.redoStack) \in Nat
      /\ arriving \in Seq(Events) /\ arriving # <<>>
      /\ ghost \in [before : Befores, tied : BOOLEAN, redoable : Int]
      /\ ghost.redoable \in Int /\ RedoableCoversUndos
  BY LenProperties DEF UndoInv, UndoTypeOK, Replicas, RenderEvent
<1>. DEFINE h == [replica |-> replica, before |-> <<>>, tied |-> ghost.tied]
            event == Head(arriving)
            after == FoldLeft(Remember, h, event)
<1>2. /\ replica' = after.replica /\ arriving' = Tail(arriving)
      /\ ui' = [ui EXCEPT !.isSyncing = ~after.replica.ended]
      /\ ghost' = [ghost EXCEPT !.before = after.before, !.tied = after.tied]
  BY DEF RenderEvent
<1>3. event \in Events /\ Tail(arriving) \in Seq(Events)
  BY <1>1, HeadTailProperties
<1>4. h \in Histories
  BY <1>1 DEF Histories, Befores, LastOnTop, UndoInv, EntriesStayNamed, CursorInText
<1>5. h.replica = replica
  OBVIOUS
<1>. HIDE DEF h, event
<1>6. /\ after \in Histories
      /\ Len(after.replica.redoStack)
           <= Len(h.replica.redoStack) + (IF UndoesOwn(event) THEN 1 ELSE 0)
  BY <1>3, <1>4, RememberedEvent
<1>. HIDE DEF after
<1>7. /\ after.replica \in Replicas /\ after.before \in Befores /\ after.tied \in BOOLEAN
      /\ ~after.replica.ended /\ ~after.tied => StacksNamed(after.replica)
      /\ ~after.replica.ended => InText(after.replica.doc)
      /\ LastOnTop(after.before, after.replica)
      /\ Len(after.replica.redoStack) \in Nat
  BY <1>6, LenProperties DEF Histories, Replicas
<1>8. /\ ghost' \in [before : Befores, tied : BOOLEAN, redoable : Int]
      /\ ghost'.before = after.before /\ ghost'.tied = after.tied
      /\ ghost'.redoable = ghost.redoable
  BY <1>1, <1>2, <1>7
<1>9. UndoTypeOK'
  <2>1. IsTextView(ui') /\ ui'.sent = <<>>
    BY <1>1, <1>2 DEF UndoTypeOK, IsTextView, Fields
  <2>. QED  BY <1>1, <1>2, <1>3, <1>7, <1>8, <2>1 DEF UndoTypeOK
<1>10. CursorInText' /\ EntriesStayNamed' /\ LastCanBeTakenBack'
  BY <1>2, <1>7, <1>8 DEF CursorInText, EntriesStayNamed, LastCanBeTakenBack
<1>11. RedoableCoversUndos'
  <2>1. Cardinality(UndosIn(Tail(arriving))) + (IF UndoesOwn(event) THEN 1 ELSE 0)
          <= Cardinality(UndosIn(arriving))
    BY <1>1, UndosOfTail DEF event
  <2>2. /\ Cardinality(UndosIn(Tail(arriving))) \in Nat
        /\ Cardinality(UndosIn(arriving)) \in Nat
    BY <1>1, <1>3, UndosAreFinite
  <2>3. Len(replica.redoStack) + Cardinality(UndosIn(arriving)) <= ghost.redoable
    BY <1>1 DEF RedoableCoversUndos
  <2>4. Len(after.replica.redoStack) + Cardinality(UndosIn(Tail(arriving))) <= ghost.redoable
    <3>1. CASE UndoesOwn(event)
      BY <1>1, <1>5, <1>6, <1>7, <2>1, <2>2, <2>3, <3>1
    <3>2. CASE ~UndoesOwn(event)
      BY <1>1, <1>5, <1>6, <1>7, <2>1, <2>2, <2>3, <3>2
    <3>. QED  BY <3>1, <3>2
  <2>. QED  BY <1>2, <1>8, <2>4 DEF RedoableCoversUndos
<1>. QED  BY <1>9, <1>10, <1>11 DEF UndoInv

LEMMA StepKeepsUndoInv == UndoInv /\ [Next]_vars => UndoInv'
<1>. SUFFICES ASSUME UndoInv, [Next]_vars PROVE UndoInv'
  OBVIOUS
<1>1. CASE Next
  BY <1>1, InputKeepsUndoInv, TapKeepsUndoInv, TimerFiresKeepsUndoInv,
     RunBlockKeepsUndoInv, UndoKeepsUndoInv, RedoKeepsUndoInv,
     OthersEditKeepsUndoInv, RenderEventKeepsUndoInv DEF Next
<1>2. CASE UNCHANGED vars
  BY <1>2 DEF vars, UndoInv, UndoTypeOK, CursorInText, EntriesStayNamed, LastCanBeTakenBack,
              RedoableCoversUndos
<1>. QED  BY <1>1, <1>2

----------------------------------------------------------------------------
\* However far others are ahead, and whatever a session has gone through: as long as
\* no insertion landed exactly where the text of an entry begins, every entry that
\* inserted text points at that text, in one piece (updateUndoRedoStacks).
THEOREM EntriesAlwaysFollow == Spec => []EntriesFollowTheirText
<1>1. UndoInv => EntriesFollowTheirText
  <2>. SUFFICES ASSUME UndoInv, ~replica.ended, ~ghost.tied, NEW e \in Entries
                PROVE  NamesItsText(e)
    BY DEF EntriesFollowTheirText
  <2>. DEFINE N == NamedIn(replica.doc.text)
  <2>1. replica.undoStack \in Seq(N) /\ replica.redoStack \in Seq(N)
    BY DEF UndoInv, EntriesStayNamed, StacksNamed
  <2>2. Range(replica.undoStack) \subseteq N /\ Range(replica.redoStack) \subseteq N
    BY <2>1, RangeOfSeq
  <2>. QED  BY <2>2 DEF Entries, NamedIn, NamesItsText
<1>. QED  BY <1>1, InitEstablishesUndoInv, StepKeepsUndoInv, PTL DEF Spec

\* Whatever a user has done, undone or redone, if nothing was rendered since: it is
\* on top of the stack that takes it back, taking it back raises nothing, and it
\* restores the text there was before.
THEOREM UndoAlwaysRestores == Spec => []UndoRestores
<1>1. UndoInv => UndoRestores
  <2>. SUFFICES ASSUME UndoInv, ghost.before # <<>>
                PROVE  UndoRestores
    BY DEF UndoRestores
  <2>. DEFINE last == ghost.before[1]
              stack == IF last.isUndo THEN replica.redoStack ELSE replica.undoStack
              back == IF last.isUndo THEN RedoAction(Last(stack)) ELSE UndoAction(Last(stack))
  <2>0. LastOnTop(ghost.before, replica)
    BY DEF UndoInv, LastCanBeTakenBack
  <2>1. PICK d \in Document, a \in WireAction :
          /\ ~IsCursor(a) /\ Outcome(d, a) = "accept" /\ ~Raises(d, a)
          /\ replica.doc = Render(d, a)
          /\ last = [text |-> d.text, isUndo |-> a.isUndo]
          /\ (IF a.isUndo THEN replica.redoStack ELSE replica.undoStack) # <<>>
          /\ Last(IF a.isUndo THEN replica.redoStack ELSE replica.undoStack)
               = Placed(d.cursors, a)
    BY <2>0 DEF LastOnTop
  <2>2. last.isUndo = a.isUndo /\ last.text = d.text
    BY <2>1
  <2>3. stack # <<>> /\ Last(stack) = Placed(d.cursors, a)
    BY <2>1, <2>2
  <2>4. back \in {UndoAction(Placed(d.cursors, a)), RedoAction(Placed(d.cursors, a))}
    BY <2>3
  <2>. HIDE DEF back
  <2>5. a \in SentAction /\ Me \in Client
    BY MeAssumption DEF WireAction
  <2>6. /\ ~Raises(Render(d, a), OnTheWire(Me, back))
        /\ Render(Render(d, a), OnTheWire(Me, back)).text = d.text
    BY <2>1, <2>4, <2>5, TakingBackRestores
  <2>7. /\ ~Raises(replica.doc, OnTheWire(Me, back))
        /\ Render(replica.doc, OnTheWire(Me, back)).text = last.text
    BY <2>1, <2>2, <2>6
  <2>. QED  BY <2>3, <2>7 DEF UndoRestores, back
<1>. QED  BY <1>1, InitEstablishesUndoInv, StepKeepsUndoInv, PTL DEF Spec

\* Nothing that Me has not undone can be redone: an own undo that comes back, however
\* late, is all that puts an entry on the redo stack.
THEOREM RedoAlwaysUndone == Spec => []RedoOnlyUndone
<1>1. UndoInv => RedoOnlyUndone
  <2>. SUFFICES ASSUME UndoInv
                PROVE  RedoOnlyUndone
    OBVIOUS
  <2>1. /\ Len(replica.redoStack) \in Nat /\ ghost.redoable \in Int
        /\ Cardinality(UndosIn(arriving)) \in Nat
    BY LenProperties, UndosAreFinite DEF UndoInv, UndoTypeOK, Replicas
  <2>. QED  BY <2>1 DEF UndoInv, RedoableCoversUndos, RedoOnlyUndone
<1>. QED  BY <1>1, InitEstablishesUndoInv, StepKeepsUndoInv, PTL DEF Spec
=============================================================================

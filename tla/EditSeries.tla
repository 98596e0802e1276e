----------------------------- MODULE EditSeries -----------------------------
(***************************************************************************)
(* What mergeCurrentEdit makes of the single edits of a user before they   *)
(* are broadcast: mergeSingleEdits joins neighbours of one type, and       *)
(* resolveMergedEdits reduces the result to the fewest actions.            *)
(*                                                                         *)
(* The edits here are local: the location of an edit is the left end of    *)
(* the range that the text view reported, for a removal too.               *)
(***************************************************************************)
EXTENDS Document, SequencesExt

ReplaceLast(s, e) == Append(Front(s), e)

----------------------------------------------------------------------------
\* mergeSingleEdits

JoinInTypingOrder(merged, edit) ==
  [merged EXCEPT !.location = edit.location,
                 !.length = @ + edit.length,
                 !.text = @ \o edit.text]
Join(merged, edit) ==
  IF edit.type = "REMOVE"
  THEN [merged EXCEPT !.location = edit.location,
                      !.length = @ + edit.length,
                      !.text = edit.text \o @]
  ELSE [merged EXCEPT !.text = @ \o edit.text]

MergeSingleEdit(merged, edit) ==
  IF merged # <<>> /\ ~IsCursor(edit) /\ Last(merged).type = edit.type
  THEN ReplaceLast(merged, Join(Last(merged), edit))
  ELSE Append(merged, edit)

MergeSingleEdits(edits) == FoldLeft(MergeSingleEdit, <<>>, edits)

----------------------------------------------------------------------------
\* resolveMergedEdits.  The state of its loop: the actions found so far, the
\* location of the first text edit, the smallest location of any, and whether
\* substringToIndex was asked for more than there is, which raises.

StartResolving(first) ==
  [final |-> <<first>>, og |-> first.location, smallest |-> first.location,
   raised |-> FALSE]

Prefix(text, n) == SubSeq(text, 1, n)

\* A removal that starts before everything found so far replaces it all: what
\* it deletes beyond the first location, and what an earlier removal deleted.
ResolveOuterRemoval(r, edit) ==
  LET deletedBefore == r.final # <<>> /\ r.final[1].type = "REMOVE"
      kept == IF deletedBefore THEN r.smallest - edit.location
                               ELSE r.og - edit.location
      text == IF deletedBefore THEN Prefix(edit.text, kept) \o r.final[1].text
                               ELSE Prefix(edit.text, kept)
  IN IF kept > Len(edit.text)
     THEN [r EXCEPT !.raised = TRUE]
     ELSE [r EXCEPT !.final = <<[edit EXCEPT !.text = text, !.length = Len(text)]>>,
                    !.smallest = edit.location]

\* A removal within the series takes the end off the insertion before it.
ResolveInnerRemoval(r, edit) ==
  IF r.final = <<>> THEN r
  ELSE LET last == Last(r.final)
           kept == Len(last.text) - edit.length
           shorter == [last EXCEPT !.text = Prefix(@, kept)]
       IN CASE kept < 0 -> [r EXCEPT !.raised = TRUE]
            [] kept = 0 -> [r EXCEPT !.final = Front(@)]
            [] kept > 0 -> [r EXCEPT !.final = ReplaceLast(@, shorter)]

ResolveInsertionUnjoined(r, edit) == [r EXCEPT !.final = Append(@, edit)]
ResolveInsertion(r, edit) ==
  LET longer == [Last(r.final) EXCEPT !.text = @ \o edit.text]
  IN IF r.final = <<>> \/ Last(r.final).type = "REMOVE"
     THEN [r EXCEPT !.final = Append(@, edit)]
     ELSE [r EXCEPT !.final = ReplaceLast(@, longer)]

\* Cursor movements between text edits are thrown away.
ResolveEdit(r, edit) ==
  CASE r.raised \/ IsCursor(edit) -> r
    [] ~r.raised /\ edit.type = "REMOVE" ->
         IF edit.location < r.smallest THEN ResolveOuterRemoval(r, edit)
                                       ELSE ResolveInnerRemoval(r, edit)
    [] ~r.raised /\ edit.type = "INSERT" -> ResolveInsertion(r, edit)

\* The cursor movements that a series starts with; the last of them counts.
LeadingCursors(edits) ==
  {i \in DOMAIN edits : \A j \in 1 .. i : IsCursor(edits[j])}

ResolveMergedEdits(merged) ==
  LET moves == Cardinality(LeadingCursors(merged))
      moved == IF moves = 0 THEN <<>> ELSE <<merged[moves]>>
      texts == SubSeq(merged, moves + 1, Len(merged))
      r == FoldLeft(ResolveEdit, StartResolving(Head(texts)), Tail(texts))
  IN IF texts = <<>> THEN [final |-> moved, raised |-> FALSE]
                     ELSE [final |-> moved \o r.final, raised |-> r.raised]

\* What mergeCurrentEdit hands to sendActions, and whether it raised before.
Resolved(edits) == ResolveMergedEdits(MergeSingleEdits(edits))
FinalEdits(edits) == Resolved(edits).final

\* resolveMergedEdits meets a cursor movement after a text edit, and logs an
\* error: "intertwined cursor moves".
Intertwined(edits) ==
  \E i, j \in DOMAIN edits : i < j /\ ~IsCursor(edits[i]) /\ IsCursor(edits[j])

=============================================================================

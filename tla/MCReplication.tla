---------------------------- MODULE MCReplication ----------------------------
(***************************************************************************)
(* Two clients; the series are those that reach every outcome of rendering *)
(* an action: text inserted at a cursor, removed, a removal that names     *)
(* text that is not there (rejected) or a range that is not there (raises),*)
(* an undo that carries a location of its own, a stale cursor, and the     *)
(* empty series that remains of text that was typed and deleted again.     *)
(***************************************************************************)
EXTENDS ReplicationHistory

CONSTANTS a, b, x, y

MCClient == {a, b}
MCChar == {x, y}

TypeX   == TextAction(NoUser, <<x>>, "INSERT")
DeleteX == TextAction(NoUser, <<x>>, "REMOVE")
UndoX   == [TextAction(NoUser, <<x>>, "REMOVE") EXCEPT !.location = 1, !.isUndo = TRUE]
RedoY   == [TextAction(NoUser, <<y>>, "INSERT") EXCEPT !.location = 2, !.isRedo = TRUE]

MCSeries ==
  { <<>>,
    <<TextAction(NoUser, <<x, y>>, "INSERT")>>,
    <<CursorAction(1, NoUser), TypeX>>,
    <<CursorAction(0, NoUser)>>,
    <<DeleteX>>,
    <<UndoX>>,
    <<RedoY>> }

=============================================================================

------------------------------ MODULE MCWeWrite ------------------------------
(***************************************************************************)
(* One writer and another participant, who adds, removes and moves the     *)
(* cursor.  The writer types x and the other y.                            *)
(***************************************************************************)
EXTENDS WeWrite

CONSTANTS a, b, x, y

MCClient == {a, b}
MCWriter == {a}
MCChar == {x, y}
MCKey == {x}

MCSeries ==
  { <<TextAction(NoUser, <<y>>, "INSERT")>>,
    <<CursorAction(1, NoUser), TextAction(NoUser, <<y>>, "REMOVE")>> }

=============================================================================

----------------------------- MODULE MCUndoRedo -----------------------------
(* A user and another; a text of two characters can be split by a third. *)
EXTENDS UndoRedo

CONSTANTS a, b, x, y

MCClient == {a, b}
MCAlone == {a}
MCChar == {x, y}
MCTyped == {<<x>>, <<y, x>>}
MCPair == {<<x, y>>}
MCWord == {<<x, y, x>>}

=============================================================================

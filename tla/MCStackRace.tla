----------------------------- MODULE MCStackRace -----------------------------
(***************************************************************************)
(* The client types and removes, and another types into its texts, before  *)
(* them and after them.                                                    *)
(***************************************************************************)
EXTENDS StackRace

CONSTANTS a, b, x, y

MCClient == {a, b}
MCChar == {x, y}

Inserted(user, location, text) ==
  [TextAction(user, text, "INSERT") EXCEPT !.location = location]
Removed(user, location, text) ==
  [TextAction(user, text, "REMOVE") EXCEPT !.location = location, !.length = Len(text)]

MCPlacements ==
  { Inserted(a, 0, <<x, x>>), Inserted(a, 2, <<x>>), Removed(a, 2, <<x>>),
    Inserted(b, 0, <<y>>), Inserted(b, 1, <<y>>), Removed(b, 1, <<y>>) }

=============================================================================

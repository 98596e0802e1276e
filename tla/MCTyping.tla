------------------------------ MODULE MCTyping ------------------------------
(* Two characters, so that what is deleted is told apart from what is left. *)
EXTENDS Typing

CONSTANTS a, x, y

MCClient == {a}
MCChar == {x, y}

=============================================================================

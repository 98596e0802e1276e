------------------------------ MODULE MCSession ------------------------------
(* One client among strangers. *)
EXTENDS Session

CONSTANT a

MCClient == {a}

=============================================================================

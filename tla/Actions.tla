------------------------------ MODULE Actions ------------------------------
(***************************************************************************)
(* The edits that WeWrite clients exchange: CursorAction and TextAction of *)
(* WeWrite/Actions.mm, and what is left of one after sendActions has       *)
(* serialized it and receivedEvent has parsed it again.                    *)
(*                                                                         *)
(* One record stands for both classes.  A cursor action keeps its position *)
(* in location.  NSRange is the pair location, length.  Locations are      *)
(* integers: NSRange wraps a negative location to a huge unsigned one, and *)
(* every Foundation call that is given such a range raises, as it does for *)
(* the negative integer here.                                              *)
(***************************************************************************)
EXTENDS Integers, Sequences

CONSTANTS
  Client,     \* participants of the session, named by their participantID
  Char,       \* characters a user can type
  NoUser      \* the user of an action that was made locally (-1 in the code)

ASSUME NoUserAssumption == NoUser \notin Client

User == Client \cup {NoUser}
Text == Seq(Char)
EditType == {"INSERT", "REMOVE", "CURSOR"}

Action == [type : EditType, user : User, text : Text, location : Int,
           length : Int, isUndo : BOOLEAN, isRedo : BOOLEAN]

\* The edits of a broadcast carry the participant who broadcast them.
SentAction == {a \in Action : a.user \in Client}

CursorAction(position, user) ==
  [type |-> "CURSOR", user |-> user, text |-> <<>>, location |-> position,
   length |-> 0, isUndo |-> FALSE, isRedo |-> FALSE]

\* initWithUser:text:editType:
TextAction(user, text, type) ==
  [type |-> type, user |-> user, text |-> text, location |-> 0,
   length |-> 0, isUndo |-> FALSE, isRedo |-> FALSE]

\* initWithRange:text: the type follows from the length of the range.
RangeAction(location, length, text) ==
  [TextAction(NoUser, text, IF length = 0 THEN "INSERT" ELSE "REMOVE")
     EXCEPT !.location = location, !.length = length]

IsCursor(a) == a.type = "CURSOR"

OnTheWireUnsigned(c, a) == [a EXCEPT !.length = 0]

\* What reaches every client of an action that c broadcasts: EditSeries has one
\* user for all its edits, and Edit has a location but no length.
OnTheWire(c, a) ==
  IF IsCursor(a) THEN CursorAction(a.location, c)
                 ELSE [type |-> a.type, user |-> c, text |-> a.text,
                       location |-> a.location, length |-> 0,
                       isUndo |-> a.isUndo, isRedo |-> a.isRedo]

OnTheWireAll(c, actions) == [i \in DOMAIN actions |-> OnTheWire(c, actions[i])]

============================================================================

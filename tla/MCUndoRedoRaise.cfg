CONSTANTS
  a = a
  b = b
  x = x
  y = y
  NoUser = NoUser
  NoCursor = NoCursor
  Client <- MCAlone
  Char <- MCChar
  Me = a
  Typed <- MCWord
  MaxRemoved = 2
  MaxEdits = 2
  MaxEvents = 4
SPECIFICATION Spec
INVARIANT
  UndoNeverRaises
CHECK_DEADLOCK FALSE

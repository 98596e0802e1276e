CONSTANTS
  a = a
  b = b
  x = x
  y = y
  NoUser = NoUser
  NoCursor = NoCursor
  Client <- MCAlone
  Char <- MCChar
  Me = a
  Typed <- MCTyped
  MaxRemoved = 2
  MaxEdits = 2
  MaxEvents = 3
SPECIFICATION Spec
INVARIANT
  EntriesAreValid
CHECK_DEADLOCK FALSE

CONSTANTS
  a = a
  x = x
  y = y
  NoUser = NoUser
  NoCursor = NoCursor
  Client <- MCClient
  Char <- MCChar
  User1 = a
  MaxText = 3
  MaxEdits = 4
SPECIFICATION Spec
INVARIANT
  NoIntertwinedCursor
CHECK_DEADLOCK FALSE

CONSTANTS
  a = a
  b = b
  x = x
  y = y
  NoUser = NoUser
  NoCursor = NoCursor
  Client <- MCClient
  Char <- MCChar
  Me = a
  Typed <- MCPair
  MaxRemoved = 2
  MaxEdits = 1
  MaxEvents = 3
SPECIFICATION Spec
INVARIANTS
  UndoRestores
  EntriesFollowTheirText
  RedoOnlyUndone
CHECK_DEADLOCK FALSE

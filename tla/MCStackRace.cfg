CONSTANTS
  a = a
  b = b
  x = x
  y = y
  NoUser = NoUser
  NoCursor = NoCursor
  NoEntry = NoEntry
  Client <- MCClient
  Char <- MCChar
  Me = a
  Placements <- MCPlacements
  MaxUpdates = 4
SPECIFICATION Spec
INVARIANTS
  EntriesAccountedFor
  UpdateIsAtomicUnlessRaced
  RenderingFailsOnlyIfRaced
  UndoFailsOnlyIfRaced
CHECK_DEADLOCK FALSE

CONSTANTS
  a = a
  b = b
  x = x
  y = y
  NoUser = NoUser
  NoCursor = NoCursor
  Client <- MCClient
  Char <- MCChar
  Owner = a
  Series <- MCSeries
  FaultyNetwork = TRUE
  MaxEvents = 2
SPECIFICATION HSpec
INVARIANTS
  HTypeOK
  Convergence
  EachActionOnceInOrder
PROPERTIES
  OneHistory
CHECK_DEADLOCK FALSE

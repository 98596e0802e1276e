CONSTANTS
  a = a
  b = b
  x = x
  y = y
  NoUser = NoUser
  NoCursor = NoCursor
  Client <- MCClient
  Char <- MCChar
  Owner = b
  Series <- MCSeries
  FaultyNetwork = FALSE
  MaxEvents = 2
  Writer <- MCWriter
  Key <- MCKey
  MaxText = 2
  MaxEdits = 2
SPECIFICATION WFairSpec
PROPERTIES
  InputIsReleased
  WNotifiedIsRendered
CHECK_DEADLOCK FALSE

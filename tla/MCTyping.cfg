CONSTANTS
  a = a
  x = x
  y = y
  NoUser = NoUser
  NoCursor = NoCursor
  Client <- MCClient
  Char <- MCChar
  User1 = a
  MaxText = 3
  MaxEdits = 5
SPECIFICATION Spec
INVARIANTS
  SeriesRepresentsTyping
  SeriesIsMinimal
  TimerRunsIffEdits
CHECK_DEADLOCK FALSE

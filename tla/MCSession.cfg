CONSTANTS
  a = a
  Stranger = Stranger
  Client <- MCClient
  MaxSessions = 2
  MaxEvents = 2
  MaxLists = 2
  MaxWaiting = 2
SPECIFICATION FairSpec
INVARIANTS
  TypeOK
  OneTextView
  TextViewIsInSession
  DocumentIsTheSession
PROPERTIES
  RetryingStartGetsIn
  EndIsNoticed
CHECK_DEADLOCK FALSE

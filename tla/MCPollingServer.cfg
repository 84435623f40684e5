SPECIFICATION FairSpec
CONSTANTS
  Sockets = {s1, s2}
  MaxBytes = 1
  TickRequests = 3
  MaxSent = 3
  MaxStreams = 2
  HeardEvents = {"connect", "connection"}
INVARIANTS
  TypeOK
  AnsweredOnce
  HandledInOrder
  Accounted
PROPERTIES
  Served
CHECK_DEADLOCK FALSE

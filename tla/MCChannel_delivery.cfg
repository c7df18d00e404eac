CONSTANTS
  Conversations = {c1, c2}
  Keys = {k1}
  None = None
  MaxRows = 3
  MaxEvents = 2
  AttemptLimit = 2
  MaxTries = 2
  Ops = {"menu", "coalesce", "lost", "kill", "replay", "skip"}
SPECIFICATION FairSpec
CHECK_DEADLOCK FALSE
INVARIANTS
  TypeOK
  FirstSendIsLatest
PROPERTIES
  InOrder
  RowsResolve
  ImplementsStream

CONSTANTS
  Subs = {s1}
  Ops = {"wait"}
  MaxTurns = 4
  MaxItems = 5
  MaxBatches = 1
  MaxMessages = 1
  MaxCrashes = 1
SPECIFICATION FairSpec
CHECK_DEADLOCK FALSE
INVARIANTS
  CursorHonest
PROPERTIES
  RoundCloses

CONSTANTS
  Subs = {s1}
  Ops = {}
  MaxTurns = 4
  MaxItems = 4
  MaxBatches = 1
  MaxMessages = 1
  MaxCrashes = 0
SPECIFICATION Spec
CHECK_DEADLOCK FALSE
INVARIANTS
  Woken

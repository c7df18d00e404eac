CONSTANTS
  Subs = {s1}
  Ops = {}
  MaxTurns = 3
  MaxItems = 3
  MaxBatches = 1
  MaxMessages = 0
  MaxCrashes = 1
SPECIFICATION Spec
CHECK_DEADLOCK FALSE
INVARIANTS
  RestartServes

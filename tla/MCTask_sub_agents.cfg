CONSTANTS
  Subs = {s1, s2}
  MaxMessages = 2
  MaxTurns = 5
  MaxItems = 4
  Requests = {r1}
  MergeTimer = MergeTimer
  Boot = Boot
  NoOne = NoOne
  Ops = {}
  MaxCrashes = 0
SPECIFICATION Spec
CHECK_DEADLOCK FALSE
INVARIANTS
  PendingHasWaker
  OutcomesRouted

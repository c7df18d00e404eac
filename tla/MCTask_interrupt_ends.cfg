CONSTANTS
  Subs = {}
  MaxMessages = 1
  MaxTurns = 2
  MaxItems = 1
  Requests = {r1}
  MergeTimer = MergeTimer
  Boot = Boot
  NoOne = NoOne
  Ops = {"interrupt_turn"}
  MaxCrashes = 0
SPECIFICATION FairSpec
CHECK_DEADLOCK FALSE
PROPERTIES
  InterruptEndsTurn

CONSTANTS
  Subs = {s1}
  MaxMessages = 1
  MaxTurns = 5
  MaxItems = 2
  Requests = {r1}
  MergeTimer = MergeTimer
  Boot = Boot
  NoOne = NoOne
  Ops = {"fail", "shutdown", "crash"}
  MaxCrashes = 1
SPECIFICATION FairSpec
CHECK_DEADLOCK FALSE
INVARIANTS
  TypeOK
  RetryOnce
  OnlyLastAttemptRouted
  ClaimedIsHeld
PROPERTIES
  NoReplayAfterSuccess
  InboxDrains
  RoundsClose

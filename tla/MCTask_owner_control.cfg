CONSTANTS
  Subs = {}
  MaxMessages = 2
  MaxTurns = 2
  MaxItems = 2
  Requests = {r1}
  MergeTimer = MergeTimer
  Boot = Boot
  NoOne = NoOne
  Ops = {"fail", "complete", "reopen", "interrupt_turn", "interrupt_round", "disconnect", "live"}
  MaxCrashes = 0
SPECIFICATION Spec
CHECK_DEADLOCK FALSE
INVARIANTS
  CompletedRoundHasReply
  OneOpenRound
PROPERTIES
  CompletionStands
  ImplementsMailbox

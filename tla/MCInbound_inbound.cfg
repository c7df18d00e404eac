CONSTANTS
  MaxReceipts = 2
  MaxRows = 3
  MaxUpsets = 2
  MaxCrashes = 1
  Ops = {"takeover", "exit", "create_task", "complete", "accepted_task",
         "dismissed", "task_permission",
         "media", "menu", "bind", "end", "touch", "lapse", "block"}
SPECIFICATION FairSpec
CHECK_DEADLOCK FALSE
INVARIANTS
  TypeOK
  SubmittedOnce
  ResultsTrue
  InReceivedOrder
PROPERTIES
  Settles

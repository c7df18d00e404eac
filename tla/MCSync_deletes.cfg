CONSTANTS
  d1 = d1
  d2 = d2
  project = project
  line = line
  None = None
  Devices <- TwoDevices
  Order <- ProjectAndLine
  Parent <- LineOfProject
  Homes <- FirstCreates
  Drafts <- EditOfProject
  MaxVersion = 3
  MaxDeletions = 1
  MaxFaults = 1
  PageSize = 2
  Ops = {"delete", "fail"}
SPECIFICATION Spec
INVARIANTS
  SettledAgree
  DeletionHolds
  ObjectOrder

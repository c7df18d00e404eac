CONSTANTS
  d1 = d1
  d2 = d2
  project = project
  line = line
  None = None
  Devices <- TwoDevices
  Order <- ProjectAndLine
  Parent <- LineOfProject
  Homes <- FirstCreates
  Drafts <- EditsOfBoth
  MaxVersion = 3
  MaxDeletions = 0
  MaxFaults = 1
  PageSize = 2
  Ops = {"fail", "stop", "upgrade"}
SPECIFICATION Spec
INVARIANTS
  TypeOK
  CursorCovered
  DonePublished
PROPERTIES
  PullSparesEdits
  ProjectFirst
  ComesToRest

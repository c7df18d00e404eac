CONSTANTS
  Subs = {s1, s2}
  Ops = {"fail", "wait"}
  MaxTurns = 4
  MaxItems = 4
  MaxBatches = 1
  MaxMessages = 0
  MaxCrashes = 0
SPECIFICATION Spec
SYMMETRY Symmetry
CHECK_DEADLOCK FALSE
INVARIANTS
  TypeOK
  ConsumedIsHanded
PROPERTIES
  CompletedKnowsAll

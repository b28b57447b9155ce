SPECIFICATION Spec
CHECK_DEADLOCK FALSE
CONSTANTS
  Words = {"kitchen", "attic"}
  Spellings = {1, 2}
  Addresses = {"a", "b"}
  Quiet = 3
  Timeout = 5
  Poll = 1
  MaxTime = 6
INVARIANTS
  TypeOK
  ReportsWhatResolved
  WaitsLongEnough
PROPERTIES
  Returns

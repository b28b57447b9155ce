SPECIFICATION Spec
CHECK_DEADLOCK FALSE
CONSTANTS
  Capacity = 2
  Channels = 2
  Word = 4
  Batches = {0, 1, 2, 3}
  Requests = {1, 2}
  Skips = {1, 3}
  MaxWritten = 5
INVARIANTS
  TypeOK
  NoTornRead
  ReadNeverPassesWrite
  CloseSeesTail
PROPERTIES
  RefusedOnlyWhenLapped
  ImplementsLossyRing

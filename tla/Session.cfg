SPECIFICATION Spec
CHECK_DEADLOCK FALSE
CONSTANTS
  MaxNoise = 1
INVARIANTS
  TypeOK
  SessionUnloaded
  BlameIsReal
PROPERTIES
  EndReturns

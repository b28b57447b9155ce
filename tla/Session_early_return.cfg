SPECIFICATION Spec
CHECK_DEADLOCK FALSE
CONSTANTS
  MaxNoise = 1
INVARIANTS
  NoAppLeftBehind

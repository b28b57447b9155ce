SPECIFICATION Spec
CHECK_DEADLOCK FALSE
CONSTANTS
  Backends = {"pipewire", "wasapi"}
  MaxPackets = 2
INVARIANTS
  TypeOK
  NoOrphan
  CallerAnswered
  NoFalseAlarm
  ComObjectsCovered
PROPERTIES
  BreakReachesRing
  NewAndDropReturn

SPECIFICATION Spec
CHECK_DEADLOCK FALSE
CONSTANTS
  Bytes = 6
  Word = 12
  HistoryFrames = 2
  ExpandWindow = 3
  MinResendInterval = 1
  MaxLosses = 2
  MaxFrames = 7
  MaxFaults = 1
  MaxResends = 2
  MaxTime = 1
INVARIANTS
  TypeOK
  WireContiguous
  ResendsSpaced
PROPERTIES
  NacksUnderstood
  ResendsWhatWasSent
  StopReturns

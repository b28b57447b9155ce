SPECIFICATION ParserSpec
CHECK_DEADLOCK FALSE
CONSTANTS
  Bytes = 8
  Word = 32
  LastSents = {3, 21}
  Checkpoints = {0, 3, 6}
  LossLists <- MCLossLists
  MaxPackets = 3
INVARIANTS
  ReturnsWhatIsMeant

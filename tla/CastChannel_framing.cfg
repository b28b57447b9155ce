SPECIFICATION Spec
CHECK_DEADLOCK FALSE
CONSTANTS
  HeartbeatInterval = 1
  LivenessTimeout = 4
  MaxRtt = 2
  PeerKinds = {"PING", "app", "garbled", "oversized"}
  MaxPeerSends = 2
  MaxSends = 2
  MaxFaults = 1
  MaxLostPongs = 0
  MaxAddresses = 2
  MaxTime = 0
INVARIANTS
  TypeOK
  ForwardedInOrder
PROPERTIES
  ImplementsChannel
  ChannelMoves

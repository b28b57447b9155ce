SPECIFICATION Spec
CHECK_DEADLOCK FALSE
CONSTANTS
  HeartbeatInterval = 4
  LivenessTimeout = 8
  MaxRtt = 2
  PeerKinds = {}
  MaxPeerSends = 0
  MaxSends = 0
  MaxFaults = 0
  MaxLostPongs = 1
  MaxAddresses = 1
  MaxTime = 14
INVARIANTS
  SingleLostPongTolerated

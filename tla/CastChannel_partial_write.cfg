SPECIFICATION Spec
CHECK_DEADLOCK FALSE
CONSTANTS
  HeartbeatInterval = 1
  LivenessTimeout = 4
  MaxRtt = 2
  PeerKinds = {"PING"}
  MaxPeerSends = 1
  MaxSends = 2
  MaxFaults = 1
  MaxLostPongs = 0
  MaxAddresses = 1
  MaxTime = 2
INVARIANTS
  NothingAfterPartialWrite

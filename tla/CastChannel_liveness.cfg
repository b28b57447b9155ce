SPECIFICATION Spec
CHECK_DEADLOCK FALSE
CONSTANTS
  HeartbeatInterval = 3
  LivenessTimeout = 6
  MaxRtt = 2
  PeerKinds = {"app"}
  MaxPeerSends = 1
  MaxSends = 0
  MaxFaults = 0
  MaxLostPongs = 2
  MaxAddresses = 1
  MaxTime = 14
INVARIANTS
  SilentPeerDetected
  LivePeerKept

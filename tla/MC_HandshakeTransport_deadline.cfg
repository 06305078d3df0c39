CONSTANTS
  w1 = w1
  w2 = w2
  Writers <- MCWriters
  OurInit <- MCOurInit
  SupportedKex <- MCSupportedKex
  PeerInits <- MCPeerInits
  Threshold = 1
  IncomingCap = 2
  HelloOnly = FALSE
  Timeout = TRUE
  MaxWrites = 2
  MaxPeerData = 2
  MaxPeerKex = 1
SPECIFICATION Spec
INVARIANT TimeoutBoundsOnlyHandshake
CHECK_DEADLOCK FALSE

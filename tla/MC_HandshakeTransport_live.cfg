CONSTANTS
  w1 = w1
  w2 = w2
  Writers <- MCWriters
  OurInit <- MCOurInit
  SupportedKex <- MCSupportedKex
  PeerInits <- MCPeerInits
  Threshold = 1
  IncomingCap = 2
  HelloOnly = FALSE
  Timeout = FALSE
  MaxWrites = 1
  MaxPeerData = 2
  MaxPeerKex = 1
SPECIFICATION Spec
PROPERTY WritersEventuallyReturn
PROPERTY HandshakeEventuallyEnds
CHECK_DEADLOCK FALSE

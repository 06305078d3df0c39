CONSTANTS
  w1 = w1
  w2 = w2
  Writers <- MCWriters
  OurInit <- MCOurInit
  SupportedKex <- MCSupportedKex
  PeerInits <- MCPeerInits
  Threshold = 1
  IncomingCap = 1
  HelloOnly = FALSE
  Timeout = FALSE
  MaxWrites = 0
  MaxPeerData = 2
  MaxPeerKex = 1
SPECIFICATION Spec
PROPERTY ReadLoopEndsAfterClose
CHECK_DEADLOCK FALSE

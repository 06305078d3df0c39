CONSTANTS
  r1 = r1
  r2 = r2
  h1 = h1
  h2 = h2
  h3 = h3
  session = session
  tcpip = tcpip
  custom = custom
SPECIFICATION Spec
INVARIANTS
  WindowTypeOK
  MuxTypeOK
  NeverEmptyHanded
  RegisteredNeverRejected
PROPERTIES
  ImplementsCreditCounter
  ReserversReturnAfterClose
  HandlersObserveClosure
CHECK_DEADLOCK FALSE

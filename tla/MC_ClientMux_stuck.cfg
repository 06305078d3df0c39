CONSTANTS
    h1 = h1
    h2 = h2
    h3 = h3
    session = session
    tcpip = tcpip
    custom = custom
    Types <- MCTypes
    Handlers <- MCHandlers
    HandlerType <- MCHandlerType
    Stoppers = {h3}
    QueueCap = 1
    MaxOpens = 3
    MaxRequests = 1
SPECIFICATION Spec
PROPERTIES
    HandlersObserveClosure
CHECK_DEADLOCK FALSE

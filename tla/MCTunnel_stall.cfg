\* Traffic may arrive before the sockets register (waitUntilReady is a stub).
CONSTANTS
    Requests = {r1, r2, r3}
    SocketIds = {s1, s2, s3}
    ExpectedSockets = 2
    NoRequest = NoRequest
    NoSocket = NoSocket
    Garbled = Garbled
    Scheduling = "drain"
    ReadyGate = FALSE
    PeerGarbles = FALSE
    SocketsClose = FALSE
    EmptyId = sEmpty
SPECIFICATION FairSpec
\* The stall this run exhibits is a state with no enabled step.
CHECK_DEADLOCK FALSE
PROPERTY EventuallyServed

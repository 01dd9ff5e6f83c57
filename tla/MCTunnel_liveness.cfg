\* The JavaScript event loop, all expected sockets registered before traffic
\* (the contract waitUntilReady is meant to provide), a well-behaved peer.
CONSTANTS
    Requests = {r1, r2, r3}
    SocketIds = {s1, s2, s3}
    ExpectedSockets = 2
    NoRequest = NoRequest
    NoSocket = NoSocket
    Garbled = Garbled
    Scheduling = "drain"
    ReadyGate = TRUE
    PeerGarbles = FALSE
    SocketsClose = FALSE
    EmptyId = sEmpty
SPECIFICATION FairSpec
\* The model has finitely many requests: once all are answered the broker
\* idles; a request left unanswered is a violation of EventuallyServed.
CHECK_DEADLOCK FALSE
PROPERTY EventuallyServed

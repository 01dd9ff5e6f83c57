\* As the liveness run, but a tunnel web socket may close: its frames in
\* flight are lost and later sends on it are dropped.
CONSTANTS
    Requests = {r1, r2, r3}
    SocketIds = {s1, s2, s3}
    ExpectedSockets = 2
    NoRequest = NoRequest
    NoSocket = NoSocket
    Garbled = Garbled
    Scheduling = "drain"
    ReadyGate = TRUE
    PeerGarbles = FALSE
    SocketsClose = TRUE
    EmptyId = sEmpty
SPECIFICATION FairSpec
\* The model has finitely many requests: once all are answered the broker
\* idles; a request left unanswered is a violation of EventuallyServed.
CHECK_DEADLOCK FALSE
PROPERTY EventuallyServed

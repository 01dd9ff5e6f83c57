\* The JavaScript event loop, sockets registering while traffic flows, one
\* more socket id than the broker accepts, a peer that may send Buffer frames,
\* and sockets that may close and re-register under their id.
CONSTANTS
    Requests = {r1, r2, r3, r4}
    SocketIds = {s1, s2, s3}
    ExpectedSockets = 2
    NoRequest = NoRequest
    NoSocket = NoSocket
    Garbled = Garbled
    Scheduling = "drain"
    ReadyGate = FALSE
    PeerGarbles = TRUE
    SocketsClose = TRUE
    EmptyId = sEmpty
SYMMETRY MCRequestSymmetry
SPECIFICATION Spec
\* The broker really stops when requests queued before any socket registered
\* (registerSocket never wakes a waiter); run tunnel_stall_before_ready shows it.
CHECK_DEADLOCK FALSE
INVARIANT TypeOK
INVARIANT ExclusiveSocket
INVARIANT ResponseCorrelation
INVARIANT FifoFairness
PROPERTY ImplementsSocketLease

\* The cooperative model of the design: any step may run while a task is
\* suspended at an await, so acquire and claim are no longer one step.
CONSTANTS
    Requests = {r1, r2, r3}
    SocketIds = {s1, s2, s3}
    ExpectedSockets = 2
    NoRequest = NoRequest
    NoSocket = NoSocket
    Garbled = Garbled
    Scheduling = "interleave"
    ReadyGate = FALSE
    PeerGarbles = FALSE
    SocketsClose = FALSE
    EmptyId = sEmpty
SYMMETRY MCRequestSymmetry
SPECIFICATION Spec
\* Safety only: stopping is not what this run is about.
CHECK_DEADLOCK FALSE
INVARIANT ExclusiveSocket

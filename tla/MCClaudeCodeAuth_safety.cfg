\* Two processes share the credentials file; an access token lives two
\* ticks, the expiry buffer is one tick.  No faults.  Callers finish, after
\* which only the bounded clock moves, so the system stops by design.
CONSTANTS
    Callers = {c1, c2}
    Lifetime = 2
    Buffer = 1
    MaxTime = 3
    MaxIssued = 4
    Faults = {}
    Missing = Missing
    Partial = Partial
SPECIFICATION Spec
SYMMETRY MCCallerSymmetry
CHECK_DEADLOCK FALSE
INVARIANT TypeOK
INVARIANT StoredPairLive

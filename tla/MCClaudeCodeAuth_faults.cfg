\* saveCredentials may fail (mkdir, writeFile or chmod throws).
CONSTANTS
    Callers = {c1, c2}
    Lifetime = 2
    Buffer = 1
    MaxTime = 3
    MaxIssued = 4
    Faults = {"save"}
    Missing = Missing
    Partial = Partial
SPECIFICATION Spec
SYMMETRY MCCallerSymmetry
CHECK_DEADLOCK FALSE
INVARIANT StoredPairLive

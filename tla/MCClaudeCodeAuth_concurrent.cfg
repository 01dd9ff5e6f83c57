\* Two processes share the credentials file; no faults.
CONSTANTS
    Callers = {c1, c2}
    Lifetime = 2
    Buffer = 1
    MaxTime = 3
    MaxIssued = 4
    Faults = {}
    Missing = Missing
    Partial = Partial
SPECIFICATION Spec
SYMMETRY MCCallerSymmetry
CHECK_DEADLOCK FALSE
PROPERTY NoNeedlessLogin

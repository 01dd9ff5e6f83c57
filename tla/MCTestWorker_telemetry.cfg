\* sendTelemetry may reject after the final state has been posted.
CONSTANTS
    Ids = {i1, i2}
    Groups = {g1}
    NoGroup = NoGroup
    Execs = {e1, e2}
    Unset = Unset
    MayFail = {"setup", "start", "testFn", "stop", "telemetry"}
    MaxStateChanges = 1
SPECIFICATION Spec
SYMMETRY MCSymmetry
INVARIANT ReportConsistent

\* Two execute messages, one group, and every external call but sendTelemetry
\* able to fail; each call eventually settles (Fairness).  One test id
\* suffices: an execute that arrives before registration takes the not-found
\* path, one that arrives after takes the full handler, and the two
\* executions are told apart by their exec field.
CONSTANTS
    Ids = {i1}
    Groups = {g1}
    NoGroup = NoGroup
    Execs = {e1, e2}
    Unset = Unset
    MayFail = {"setup", "start", "testFn", "stop"}
    MaxStateChanges = 1
SPECIFICATION FairSpec
INVARIANT TypeOK
INVARIANT ReportConsistent
PROPERTY EveryExecuteAnswered

\* Invocations by a user (any -w of up to two characters), by runTests
\* (every kind of workers argument) and of magnitude init (in or outside a
\* node project, any earlier init state, mkdir and writeFile may throw).
\* The process exits at the end of an invocation, so the final state has
\* no successor.
CONSTANTS
    ArgChars = {"0", "1", "-", " ", "a"}
    MaxArgLen = 2
    McpWorkers <- MCMcpWorkers
    NaN = NaN
    Undefined = Undefined
    Roots <- MCRoots
    Files <- MCFilesApart
    Dirs <- MCDirs
    Pages <- MCPages
    InitFaults = TRUE
SPECIFICATION Spec
CHECK_DEADLOCK FALSE
INVARIANT TypeOK
INVARIANT McpWorkerCount
INVARIANT InitOutcome
INVARIANT McpReplyTruthful

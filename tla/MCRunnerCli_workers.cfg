\* A user passes -w with any string of up to two characters.
CONSTANTS
    ArgChars = {"0", "1", "-", " ", "a"}
    MaxArgLen = 2
    McpWorkers <- MCMcpWorkers
    NaN = NaN
    Undefined = Undefined
    Roots <- MCRoots
    Files <- MCFilesApart
    Dirs <- MCDirs
    Pages <- MCPages
    InitFaults = TRUE
SPECIFICATION Spec
CHECK_DEADLOCK FALSE
INVARIANT WorkerCountPositive

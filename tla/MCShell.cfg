SPECIFICATION Spec
CONSTANTS
    PIPESIZE = 2
    Wrap = 4
    INPUT_BUF = 10
    Wrap2 = 20
    MAXARGS = 5
    NFILE = 7
    NOFILE = 6
    Procs = {1, 2, 3, 4, 5, 6, 7}
    Pages = {1, 2}
    Sessions <- MCSessions
    Lines <- MCLines
    MaxLine = 11
    CatBuf = 3
    MaxChunk = 1
INVARIANTS RefsMatch SleepersHaveCause PipelineMeaning ParseInverts
PROPERTIES PipeIsChannel CommandEnds ConsoleIsTty
CHECK_DEADLOCK FALSE

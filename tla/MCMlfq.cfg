CONSTANTS
    NPROC = 3
    Cpus = {c0, c1}
    Cpu0 = c0
    MaxPid = 2
    KillPids = {2}
    Chans <- AllChans
    Slice <- TwoLevels
    Ageing_const = 0
SPECIFICATION FairMlfqSpec
INVARIANTS
    RunnableQueuedOnce
PROPERTIES
    BestLevelFirst
    TopLevelRuns

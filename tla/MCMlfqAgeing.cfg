CONSTANTS
    NPROC = 4
    Cpus = {c0}
    Cpu0 = c0
    MaxPid = 3
    KillPids = {}
    Chans <- OnlyIO
    Slice <- TwoLevels
    Ageing_const = 1
SPECIFICATION MlfqSpec
INVARIANT NoSchedulerPanic

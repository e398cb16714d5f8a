CONSTANTS
    NPROC = 4
    Cpus = {c1, c2}
    MaxPid = 4
    KillPids = {2}
    Chans <- OnlyIO
SPECIFICATION Spec
SYMMETRY Symmetry
INVARIANTS
    OneCpuPerProcess
    NoMissedExit
    ParentAlive
    EmbryoOwned

CONSTANTS
    Procs = {p1, p2, p3, p4}
    NoProc = NoProc
SPECIFICATION FairSpec
INVARIANTS
    TypeOK
    MutualExclusion
    NoLostWakeup
PROPERTIES
    LockPassesOn

CONSTANTS
    Procs = {p1, p2, p3}
    Blocks = {b1, b2, b3, b4}
    Vals = {v1, v2}
    NoBlock = NoBlock
    MAXOPBLOCKS = 2
    OpBlocks = 1
    LOGSIZE = 4
    Size = 4
SPECIFICATION Spec
SYMMETRY Symmetry
INVARIANTS
    CommitAlone
    EvictableClean
    SpaceReserved
    SleepersMustWait
PROPERTIES
    CrashAtomic

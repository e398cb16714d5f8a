SPECIFICATION Spec
CONSTANTS
    BSIZE = 2
    NDIRECT = 1
    NINDIRECT = 2
    FSSIZE = 16
    NMETA = 1
    NINODES = 8
    NINODE = 7
    MaxWrite = 2
    Procs = {p, q}
    None = None
    Image <- MCImage
    Scripts <- MCScripts
SYMMETRY Symmetry
INVARIANTS
    BlocksOwnedOnce
    LinksCounted
    CacheCoherent
    FilesIntact
    FsNeverPanics
CHECK_DEADLOCK FALSE

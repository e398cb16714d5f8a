CONSTANT NCPU = 2
SPECIFICATION FairSpec
PROPERTIES
    InitRuns

CONSTANTS
    NPROC = 3
    Cpus = {c0}
    TimerCpu = c0
    MaxPid = 3
    KillPids = {}
    Chans = {}
    Builds = {"PBS", "FCFS", "DEFAULT"}
    Priorities = {45}
SPECIFICATION FairPoliciesSpec
PROPERTIES
    PbsPicksBest
    FcfsPicksOldest
    EqualsRoundRobin

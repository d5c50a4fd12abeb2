SPECIFICATION FairSpec
CONSTANTS
    ann = ann  bob = bob  p1 = p1  p2 = p2  p3 = p3
    NoJob = NoJob  NoProc = NoProc
    Jobs = {1, 2}
    Users <- OnlyAnn
    Owner <- AllAnn
    Unchecked = {}
    Clearable = {1}
    Procs <- ThreeProcs
    Pollers = {"a"}
    MaxUserJobs = 0
    MaxJobsPerUser = 2
    TrialsLimit = 2
    InitSched = {"up"}
    MaxStops = 0
    MaxLost = 0
    MaxKills = 0
PROPERTIES
    WaitingJobEnds
CHECK_DEADLOCK FALSE

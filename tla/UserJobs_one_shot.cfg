SPECIFICATION Spec
CONSTANTS
    ann = ann  bob = bob  p1 = p1  p2 = p2  p3 = p3
    NoJob = NoJob  NoProc = NoProc
    Jobs = {1, 2}
    Users <- OnlyAnn
    Owner <- AllAnn
    Unchecked = {}
    Clearable = {1, 2}
    Procs <- ThreeProcs
    Pollers = {"a"}
    MaxUserJobs = 1
    MaxJobsPerUser = 2
    TrialsLimit = 2
    InitSched = {"down"}
    MaxStops = 0
    MaxLost = 0
    MaxKills = 0
PROPERTIES
    OneShot
CHECK_DEADLOCK FALSE

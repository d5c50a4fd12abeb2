SPECIFICATION Spec
CONSTANTS
    ann = ann  bob = bob  p1 = p1  p2 = p2  p3 = p3
    NoJob = NoJob  NoProc = NoProc
    Jobs = {1, 2}
    Users <- OnlyAnn
    Owner <- AllAnn
    Unchecked = {}
    Clearable = {1}
    Procs <- ThreeProcs
    Pollers = {"a", "b"}
    MaxUserJobs = 0
    MaxJobsPerUser = 2
    TrialsLimit = 2
    InitSched = {"up", "down"}
    MaxStops = 1
    MaxLost = 1
    MaxKills = 1
SYMMETRY ProcSymmetry
INVARIANTS
    TypeOK
    LossInv
    NoSilentLoss
    PoolConsistent
    UsersJobsDistinct
CHECK_DEADLOCK FALSE

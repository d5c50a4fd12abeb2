SPECIFICATION WatchedSpec
CONSTANTS
    ann = ann  bob = bob  p1 = p1  p2 = p2  p3 = p3
    NoJob = NoJob  NoProc = NoProc
    Jobs = {1, 2, 3}
    Users <- OnlyAnn
    Owner <- AllAnn
    Unchecked = {}
    Clearable = {1}
    Procs <- ThreeProcs
    Pollers = {"a"}
    MaxUserJobs = 1
    MaxJobsPerUser = 3
    TrialsLimit = 2
    InitSched = {"up"}
    MaxStops = 0
    MaxLost = 1
    MaxKills = 1
PROPERTIES
    OneShot
    ImplementsLifecycle
    PlacesAreGiven
CHECK_DEADLOCK FALSE

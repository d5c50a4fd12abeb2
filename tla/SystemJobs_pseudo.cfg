SPECIFICATION Spec
CONSTANTS
    j1 = j1  j2 = j2  None = None
    Jobs = {j2}
    Pseudo = {j2}
    Refs = {0}
    Periods = {3}
    PseudoPeriod = 4
    Secure = 2
    Early = 0
    Far = 99
    Editable = {j2}
    Watched = {j2}
    Delays = {0, 3}
    Horizon = 6
    MaxEdits = 1
    MaxItems = 1
    MaxStops = 1
    MaxLost = 1
INVARIANTS
    TypeOK
    AgendaInv
    AgendaServed
    RunsEveryPeriod
CHECK_DEADLOCK FALSE

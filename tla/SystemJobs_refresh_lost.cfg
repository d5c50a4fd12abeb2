SPECIFICATION Spec
CONSTANTS
    j1 = j1  j2 = j2  None = None
    Jobs = {j1}
    Pseudo = {}
    Refs = {0, 1}
    Periods = {3}
    PseudoPeriod = 4
    Secure = 2
    Early = 0
    Far = 99
    Editable = {j1}
    Watched = {}
    Delays = {0, 3}
    Horizon = 7
    MaxEdits = 2
    MaxItems = 0
    MaxStops = 0
    MaxLost = 0
INVARIANTS
    RefreshNotLost
CHECK_DEADLOCK FALSE

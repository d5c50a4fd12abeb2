SPECIFICATION Spec
CONSTANTS
    j1 = j1  j2 = j2  None = None
    Jobs = {j1}
    Pseudo = {}
    Refs = {0, 1}
    Periods = {3}
    PseudoPeriod = 4
    Secure = 2
    Early = 1
    Far = 99
    Editable = {j1}
    Watched = {}
    Delays = {0, 3}
    Horizon = 7
    MaxEdits = 2
    MaxItems = 0
    MaxStops = 1
    MaxLost = 1
INVARIANTS
    HeapInv
    NeverForgotten
    MemoryFollowsRows
PROPERTIES
    NoOverlap
CHECK_DEADLOCK FALSE

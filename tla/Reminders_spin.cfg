SPECIFICATION Spec
CONSTANTS
    t1 = t1  t2 = t2  a1 = a1  p1 = p1  p2 = p2  None = None
    Todos = {t1}
    Alerts = {a1}
    Dates = {4, 7}
    Day = 6
    HourLen = 2
    AlertDelta = 1
    MinHour = 2
    Period = 2
    Procs = {p1, p2}
    Horizon = 8
    MaxEdits = 0
    MaxStops = 0
    MaxKills = 0
PROPERTIES
    WakesToSend
CHECK_DEADLOCK FALSE

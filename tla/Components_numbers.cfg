SPECIFICATION ComponentsSpec
CONSTANTS
    Parts = {"numbers"}
    b1 = b1  b2 = b2  b3 = b3  m1 = m1  m2 = m2
    n1 = n1  n2 = n2  n3 = n3  c1 = c1  d1 = d1  d2 = d2  d3 = d3  d4 = d4
    Bricks = {b1, b2, b3}
    Models = {m1, m2}
    Deps <- BrickDeps
    Wildcards = {}
    ReadOnly = {b3}
    Async = {b1}
    MaxActions = 2
    MaxPages = 1
    MaxFails = 1
    MaxSubmits = 3
    MaxCuts = 1
    MaxTexts = 3
    MaxSearchFails = 1
    MaxHides = 1
    MaxNotifs = 2
    Limit = 1
    MaxFlying = 2
    MaxRequests = 3
    MaxDiscards = 2
    MaxBoxFails = 1
    Jobs = {1, 2}
    Unsent = {1}
    MaxOutages = 1
    MaxHttpFails = 1
    Docs = {d1, d2, d3, d4}
    Buttons = {n1, n2, n3}
    Target <- ButtonTarget
    Creators = {c1}
    Creates <- CreatorCreates
    ResetPeriod = TRUE
    MaxPeriods = 2
    MaxRollbacks = 1
    NoOne = NoOne
    LastLine = 5
    Blanks = {2, 3}
    Importers = {"a", "b"}
    MaxKills = 3
    LastId = 3
    PageSize = 2
    Workers = {"a"}
    MaxDeaths = 2
    MaxTrashed = 1
INVARIANTS
    NumbersDistinct
CHECK_DEADLOCK FALSE

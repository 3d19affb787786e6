SPECIFICATION MCFairSpec
CONSTANTS
    p1 = p1
    p2 = p2
    s1 = s1
    Portals = {p1, p2}
    Series = {s1}
    Home <- MCHome
    MaxJobs = 2
    Keep = 1
    \* a genre of a portal
    u = u
    v = v
    w = w
    Items = {u, v, w}
    PageSize = 1
    Budget = 2
    Batch = 2
    MaxShifts = 2
INVARIANTS TypeOK NoDoubleWork SeasonsNotSwallowed ChangesAreTrue
PROPERTY EveryJobEnds
\* no more jobs after MaxJobs, no more shifts after MaxShifts
CHECK_DEADLOCK FALSE

SPECIFICATION MCSpec
CONSTANTS
    s1 = s1
    s2 = s2
    n1 = n1
    n2 = n2
    MaxChannels = 3
    MaxOrder = 4
    MaxPriority = 3
    Sources = {s1, s2}
    Names = {n1, n2}
    NameOf <- BothNamed
    Asked = {1, 2, 3}
    Locks = {TRUE, FALSE}
INVARIANT DistinctNumbers
\* a playlist of which every bound is reached may stop
CHECK_DEADLOCK FALSE

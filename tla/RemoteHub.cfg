SPECIFICATION FairSpec
CONSTANTS
    Operators = {o1, o2}
    Sessions = {s1, s2}
    Hosts = {h1, h2}
    None = none
    o1 = o1  o2 = o2  h1 = h1  h2 = h2
    Wants <- MCWants
    MaxConcurrent = 1
    MaxViewers = 2
    MaxDials <- MCDials
    MaxFaults = 1
INVARIANTS SharedWithinLimit WatchedOrTimed
PROPERTIES AbandonedEnds
CHECK_DEADLOCK FALSE

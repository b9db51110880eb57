SPECIFICATION FairSpec
CONSTANTS
    MaxChanges = 2
    MaxClicks = 1
    MaxFaults = 1
INVARIANTS AlertsMatch
PROPERTIES StatusSettles
CHECK_DEADLOCK FALSE

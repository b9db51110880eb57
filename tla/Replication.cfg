SPECIFICATION FairSpec
CONSTANTS
    Operators = {o1, o2}
    Scheduler = scheduler
    MaxWrites = 2
    MaxAsks = 2
    MaxFaults = 1
    MaxRestarts = 1
INVARIANTS OneRunAtATime
PROPERTIES LiveDataKept FailbackKeepsWork ReplicaCatchesUp
CHECK_DEADLOCK FALSE

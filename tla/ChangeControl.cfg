SPECIFICATION FairSpec
CONSTANTS
    Requests = {r}
    Jobs = {j}
    Users = {ann, bob}
    None = none
    MaxAsked = 1
    MaxOpen = 2
    MaxCalls = 5
    MaxFaults = 1
    MaxToggles = 1
INVARIANTS FourEyes OutcomeTold
PROPERTIES ChangesSettle
CHECK_DEADLOCK FALSE

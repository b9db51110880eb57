SPECIFICATION DeliveryFairSpec
CONSTANTS
    Messages = {m1}
    Sweeps = {s1,s2}
    Button = button
    TakeMax = 1
    FastRetries = 1
    Fast = 1
    Slow = 2
    MaxRowAge = 3
    MaxPresses = 2
    MaxLogFaults = 1
INVARIANTS LogIsTrue
PROPERTIES Settles
CHECK_DEADLOCK FALSE

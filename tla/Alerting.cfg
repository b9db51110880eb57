SPECIFICATION FairSpec
CONSTANTS
    vm = vm
    device = device
    off = off
    lost = lost
    Things = {vm}
    Kind <- MCKind
    Threshold = {cpu}
    EventRules = {off}
    On <- MCOn
    MaxTier = 1
    Steps = 2
    PolicyAge = 0
    MaxAlerts = 3
    MaxChanges = 2
    MaxClicks = 1
    MaxFaults = 1
INVARIANTS OncePerCause
PROPERTIES LoopCatchesUp
CHECK_DEADLOCK FALSE

SPECIFICATION MCSpec
CONSTANTS
    Commands = {c1, c2}
    None = none
    MaxReports = 2
    MaxPolls = 2
    MaxRows = 4
    MaxEvents = 2
    Proxies = 2
    MaxBytes = 2
    la = la
    lb = lb
    x1 = x1
    x2 = x2
    Links = {la, lb}
    Assets = {x1, x2}
    ShownTo <- MCShownTo
    Orphan = orphan
    MaxCloudEvents = 2
    Anew = anew
    Named = named
    MaxNames = 2
    MaxFabricEvents = 3
    LogRows = {1, 2, 3, 4}
    LastSecond = 4
    Fetch = 3
    Chunk = 2
    StoreKeeps = 1
    PostgresKeeps = 2
    MaxLogEvents = 2
INVARIANTS CommandsHonest InventoryHonest OutpostsHonest
PROPERTIES OutpostsSettle
CHECK_DEADLOCK FALSE

INIT MCInit
NEXT MCNext
CONSTANTS
    SecLen = 2
    HourLen = 2
    HoursPerDay = 2
    Offsets = {2}
    Passes = {"timer", "call"}
    Sla = 9950
    LastTick = 3
    MaxEvents = 3
    MaxLosses = 1
    MaxRuns = 2
    Timer = "timer"
    Hours = 4
    Week = 3
    Floor = 1
    MinCohort = 2
    ColdStart = 2
    Base = 3
    Run = 2
    Gap = 2
    Values = {0, 1, 9}
    MaxSeries = 6
    Providers = {"aws", "azure"}
    MaxAlerts = 3
    LastRaised = 5
    Keys = {k1, k2}
    Statistical = {k1}
    Reviews = {1}
    MaxRows = 2
    MaxReviews = 2
    MaxFeedEvents = 1
    Resources = {"r1", "r2"}
    Feeds <- MCFeeds
    ViolationMin = 2
    AnomalyMin = 2
    GapMin = 2
    IdleMax = 20
    SpikeMin = 80
    ListLimit = 3
    OtherRows = {1}
    Clock = clock
    Admins = {a1, a2}
    MaxRecs = 3
    MaxEvals = 1
    MaxAdminCalls = 2
    MaxShifts = 1
INVARIANTS UptimeSound PassesTold AnswersSound DeclaredHours  
SYMMETRY MCSymmetry
CHECK_DEADLOCK FALSE

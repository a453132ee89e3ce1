SPECIFICATION Spec
CONSTANTS
    Email = {"a"}
    Slug = {"ohio", "texas", "utah"}
    Thresholds = {1, 2}
    Grace = 0
    CatchUp = 1
    FirstDue <- MCFirstDue
    Period <- MCPeriod
    Cap = 2
    Kills = TRUE
    MaxRows = 2
    MaxCycle = 2
    MaxRequests = 4
    LastDay = 1
INVARIANTS CapHolds
PROPERTIES DoubleOptIn TierOnce OptOutHolds OneConfirmationADay

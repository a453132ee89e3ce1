\* Rows of three kinds and how long they are reminded.
SPECIFICATION Spec
CONSTANTS
    p1 = p1
    p2 = p2
    r1 = r1
    r2 = r2
    NoRow = NoRow
    Row = {r1, r2}
    Pass = {p1, p2}
    Tiers = {1, 2}
    CustomTiers = {2}
    CustomRow = {r1}
    FirmRow = {}
    UserRow = {r2}
    Period = 1
    Grace = 1
    CatchUp = 2
    SnoozeDays = 2
    Cap = 2
    LastDay = 4
    MaxCycle = 1
    SpansMidnight = FALSE
    D1Faults = TRUE
    Kills = FALSE
CONSTRAINT OneBadRecord
SYMMETRY PassSymmetry
PROPERTIES CatchUpOnce PassServesAll

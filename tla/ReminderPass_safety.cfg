\* Two overlapping passes on a firm row: clicks, edits, D1 calls that throw, kills.
SPECIFICATION Spec
CONSTANTS
    p1 = p1
    p2 = p2
    r1 = r1
    r2 = r2
    NoRow = NoRow
    Row = {r1}
    Pass = {p1, p2}
    Tiers = {1, 2}
    CustomTiers = {2}
    CustomRow = {}
    FirmRow = {r1}
    UserRow = {}
    Period = 3
    Grace = 1
    CatchUp = 2
    SnoozeDays = 2
    Cap = 3
    LastDay = 2
    MaxCycle = 2
    SpansMidnight = FALSE
    D1Faults = TRUE
    Kills = TRUE
CONSTRAINT EarlyEdits
SYMMETRY PassSymmetry
INVARIANTS NoDoubleSend NoSilentLoss CapHolds
PROPERTIES OptOutWindow RemindsOnce
